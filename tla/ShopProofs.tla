----------------------------- MODULE ShopProofs -----------------------------
(* Properties of the five parts of the shop, for every number of workers,    *)
(* products, boxes, methods and containers and of steps of each.             *)
EXTENDS Shop, SequenceTheorems, FiniteSetTheorems, WellFoundedInduction, TLAPS

\* A step of the shop is one of a part of it, or leaves that part alone.
LEMMA StepOfPart ==
    ASSUME [ShopNext]_shopvars
    PROVE  /\ [Next]_vars /\ [Ship!Next]_(Ship!vars) /\ [Methods!Next]_(Methods!svars)
           /\ [Import!Next]_(Import!cvars) /\ [Network!Next]_(Network!mvars)
<1>1. CASE UNCHANGED shopvars
  BY <1>1 DEF shopvars, vars, shipvars, methodvars, cataloguevars, networkvars, Ship!vars,
     Ship!service, Ship!app, Ship!history, Methods!svars, Import!cvars, Network!mvars
<1>2. CASE ShopNext
  <2>1. [Next]_vars
    BY <1>2 DEF ShopNext
  <2>2. [Ship!Next]_(Ship!vars)
    BY <1>2 DEF ShopNext, shipvars, Ship!vars, Ship!service, Ship!app, Ship!history
  <2>3. [Methods!Next]_(Methods!svars)
    BY <1>2 DEF ShopNext, methodvars, Methods!svars
  <2>4. [Import!Next]_(Import!cvars)
    BY <1>2 DEF ShopNext, cataloguevars, Import!cvars
  <2>5. [Network!Next]_(Network!mvars)
    BY <1>2 DEF ShopNext, networkvars, Network!mvars
  <2> QED BY <2>1, <2>2, <2>3, <2>4, <2>5
<1> QED BY <1>1, <1>2

-----------------------------------------------------------------------------
(* The network manager.                                                      *)

Containers == {None} \cup [running : BOOLEAN, number : Nat]
Callers == [at : {"free", "check", "get", "remove", "run", "count"}, name : Network!Names,
            number : Nat, seen : Nat \cup {None}, alone : BOOLEAN, answered : BOOLEAN]
NetworkTyped ==
    /\ box \in [Network!Names -> Containers]
    /\ caller \in [Workers -> Callers]
    /\ started \in Nat

\* Nobody else is at work on the container of a request that is alone with it, and
\* it does not run once the request has looked and got an answer.
AloneIsAlone ==
    \A v, w \in Workers :
        caller[w].alone /\ v # w => caller[v].at = "free" \/ caller[v].name # caller[w].name
Runs(boxes, n) == boxes[n] # None /\ boxes[n].running
LookedAt(r) == r.at = "remove" \/ (r.at = "get" /\ r.name = Network!Builder)
Knows(r) == r.alone /\ r.answered
StoppedIfAlone ==
    \A w \in Workers :
        Knows(caller[w]) /\ LookedAt(caller[w]) => ~Runs(box, caller[w].name)

NInv == NetworkTyped /\ AloneIsAlone /\ StoppedIfAlone

\* A free thread is no request that is alone.
LEMMA WaitingFree ==
    Network!Waiting \in Callers /\ Network!Waiting.at = "free" /\ ~Network!Waiting.alone
BY DEF Network!Waiting, Callers, Network!Names

\* A step that leaves the requests, and starts no container.
LEMMA StopsOnly ==
    ASSUME NInv, caller' = caller, box' \in [Network!Names -> Containers], started' = started,
           \A n \in Network!Names : Runs(box', n) => Runs(box, n)
    PROVE  NInv'
<1>1. \A w \in Workers : caller[w].name \in Network!Names
  BY DEF NInv, NetworkTyped, Callers
<1>2. NetworkTyped'
  BY DEF NInv, NetworkTyped
<1>3. AloneIsAlone'
  BY DEF NInv, AloneIsAlone
<1>4. StoppedIfAlone'
  BY <1>1 DEF NInv, StoppedIfAlone, LookedAt
<1> QED BY <1>2, <1>3, <1>4 DEF NInv

\* A step of one request, that starts no container but its own.
LEMMA OneRequest ==
    ASSUME NInv, NEW w \in Workers, NEW r \in Callers, caller' = [caller EXCEPT ![w] = r],
           started' = started, box' \in [Network!Names -> Containers],
           r.alone => caller[w].alone /\ r.name = caller[w].name,
           r.at # "free" => caller[w].at # "free" /\ r.name = caller[w].name,
           \A n \in Network!Names :
              Runs(box', n) => \/ Runs(box, n)
                               \/ n = caller[w].name /\ caller[w].at # "free",
           Knows(r) /\ LookedAt(r) => ~Runs(box', r.name)
    PROVE  NInv'
<1>1. \A x \in Workers : caller[x].name \in Network!Names
  BY DEF NInv, NetworkTyped, Callers
<1>2. caller'[w] = r /\ \A x \in Workers : x # w => caller'[x] = caller[x]
  BY DEF NInv, NetworkTyped
<1>3. NetworkTyped'
  BY DEF NInv, NetworkTyped
<1>4. AloneIsAlone'
  <2> SUFFICES ASSUME NEW v \in Workers, NEW x \in Workers, caller'[x].alone, v # x
               PROVE  caller'[v].at = "free" \/ caller'[v].name # caller'[x].name
    BY DEF AloneIsAlone
  <2>1. caller[x].alone /\ caller'[x].name = caller[x].name
    BY <1>2
  <2>2. caller[v].at = "free" \/ caller[v].name # caller[x].name
    BY <2>1 DEF NInv, AloneIsAlone
  <2> QED BY <1>2, <2>1, <2>2
<1>5. StoppedIfAlone'
  <2> SUFFICES ASSUME NEW x \in Workers, Knows(caller'[x]), LookedAt(caller'[x])
               PROVE  ~Runs(box', caller'[x].name)
    BY DEF StoppedIfAlone, LookedAt, Knows
  <2>1. CASE x = w
    BY <2>1, <1>2
  <2>2. CASE x # w
    <3>1. Knows(caller[x]) /\ LookedAt(caller[x]) /\ caller'[x] = caller[x]
      BY <2>2, <1>2
    <3>2. ~Runs(box, caller[x].name)
      BY <3>1 DEF NInv, StoppedIfAlone
    <3>3. ~(caller[x].name = caller[w].name /\ caller[w].at # "free")
      BY <3>1, <2>2 DEF NInv, AloneIsAlone, Knows
    <3>4. ~Runs(box', caller[x].name)
      BY <3>2, <3>3, <1>1, <3>1
    <3> QED BY <3>4, <3>1
  <2> QED BY <2>1, <2>2
<1> QED BY <1>3, <1>4, <1>5 DEF NInv

\* A request begins: it is alone only where no other is under way, and takes that
\* from those that are.
LEMMA Begins ==
    ASSUME NInv, NEW w \in Workers, NEW n \in Network!Names, NEW at \in {"check", "get", "count"},
           Network!Begin(w, at, n), box' = box, ~(at = "get" /\ n = Network!Builder)
    PROVE  NInv'
<1> DEFINE r == [at |-> at, name |-> n, number |-> started', seen |-> None,
                 alone |-> \A y \in Workers : caller[y].at = "free" \/ caller[y].name # n,
                 answered |-> TRUE]
<1>1. started \in Nat /\ started' \in Nat
  BY DEF Network!Begin, NInv, NetworkTyped
<1>2. r \in Callers /\ r.name = n /\ r.at = at
  BY <1>1 DEF Callers
<1>a. r.alone <=> \A y \in Workers : caller[y].at = "free" \/ caller[y].name # n
  OBVIOUS
<1>3. caller' = [x \in Workers |-> IF x = w THEN r
                    ELSE IF caller[x].name = n THEN [caller[x] EXCEPT !.alone = FALSE]
                    ELSE caller[x]]
  BY DEF Network!Begin
<1> HIDE DEF r
<1>4. \A x \in Workers :
          x # w => /\ caller'[x] \in Callers
                   /\ caller'[x].name = caller[x].name /\ caller'[x].at = caller[x].at
                   /\ caller'[x].alone => caller[x].alone /\ caller[x].name # n
                   /\ caller'[x].answered = caller[x].answered
  BY <1>3 DEF NInv, NetworkTyped, Callers
<1>5. caller'[w] = r
  BY <1>3
<1>6. NetworkTyped'
  BY <1>1, <1>2, <1>3, <1>4, <1>5 DEF NInv, NetworkTyped
<1>7. AloneIsAlone'
  <2> SUFFICES ASSUME NEW v \in Workers, NEW x \in Workers, caller'[x].alone, v # x
               PROVE  caller'[v].at = "free" \/ caller'[v].name # caller'[x].name
    BY DEF AloneIsAlone
  <2>1. CASE x = w
    BY <2>1, <1>2, <1>a, <1>4, <1>5
  <2>2. CASE v = w
    BY <2>2, <1>2, <1>4, <1>5
  <2>3. CASE x # w /\ v # w
    BY <2>3, <1>4 DEF NInv, AloneIsAlone
  <2> QED BY <2>1, <2>2, <2>3
<1>8. StoppedIfAlone'
  <2> SUFFICES ASSUME NEW x \in Workers, Knows(caller'[x]), LookedAt(caller'[x])
               PROVE  ~Runs(box', caller'[x].name)
    BY DEF StoppedIfAlone, LookedAt, Knows
  <2>1. x # w
    BY <1>2, <1>5 DEF LookedAt
  <2>2. Knows(caller[x]) /\ LookedAt(caller[x]) /\ caller'[x].name = caller[x].name
    BY <2>1, <1>4 DEF LookedAt, Knows
  <2>3. ~Runs(box, caller[x].name)
    BY <2>2 DEF NInv, StoppedIfAlone
  <2> QED BY <2>2, <2>3 DEF Runs
<1> QED BY <1>6, <1>7, <1>8 DEF NInv

LEMMA NetworkBegins == Network!Init => NInv
BY DEF Network!Init, NInv, NetworkTyped, AloneIsAlone, StoppedIfAlone, Knows, Containers, Callers,
       Network!Names, Network!Waiting

\* One step of a request.
LEMMA RequestKeeps ==
    ASSUME NInv, NEW w \in Workers,
           \/ Network!CheckBuilder(w) \/ Network!GetContainer(w)
           \/ Network!RemoveContainer(w) \/ Network!RunContainer(w)
           \/ Network!DockerFails(w) \/ Network!MergeQuantity(w)
    PROVE  NInv'
<1> DEFINE c == caller[w]
           At(at) == [c EXCEPT !.at = at]
           Unanswered == [c EXCEPT !.at = "get", !.answered = FALSE]
           Found == [c EXCEPT !.at = "remove", !.seen = box[c.name].number]
<1>1. c \in Callers /\ c.name \in Network!Names
  BY DEF NInv, NetworkTyped, Callers
<1>2. /\ At("get") \in Callers /\ At("get").at = "get" /\ At("get").name = c.name
      /\ At("get").alone = c.alone
      /\ At("run") \in Callers /\ At("run").at = "run" /\ At("run").name = c.name
      /\ At("run").alone = c.alone
      /\ Unanswered \in Callers /\ Unanswered.name = c.name
      /\ Unanswered.alone = c.alone /\ ~Knows(Unanswered)
  BY <1>1 DEF Callers, Knows
<1>3. box[c.name] # None =>
          /\ Found \in Callers /\ Found.at = "remove" /\ Found.name = c.name
          /\ Found.alone = c.alone /\ Found.answered = c.answered
  BY <1>1 DEF Callers, NInv, NetworkTyped, Containers
<1>4. box \in [Network!Names -> Containers] /\ started \in Nat
  BY DEF NInv, NetworkTyped
<1>a. /\ Network!Goes(w, "get") => caller' = [caller EXCEPT ![w] = At("get")]
      /\ Network!Goes(w, "run") => caller' = [caller EXCEPT ![w] = At("run")]
      /\ Network!Ends(w) => caller' = [caller EXCEPT ![w] = Network!Waiting]
  BY DEF Network!Goes, Network!Ends
<1>b. Knows(c) /\ LookedAt(c) => ~Runs(box, c.name)
  BY DEF NInv, StoppedIfAlone
<1>c. c.at = caller[w].at /\ c.name = caller[w].name /\ c.alone = caller[w].alone
  OBVIOUS
<1>d. caller' = [caller EXCEPT ![w].at = "remove", ![w].seen = box[c.name].number]
        => caller' = [caller EXCEPT ![w] = Found]
  OBVIOUS
<1>f. caller' = [caller EXCEPT ![w].at = "get", ![w].answered = FALSE]
        => caller' = [caller EXCEPT ![w] = Unanswered]
  OBVIOUS
<1>e. c = caller[w]
  OBVIOUS
<1> HIDE DEF c, At, Found, Unanswered
<1>5. ASSUME box' = box, started' = started, Network!Ends(w)
      PROVE  NInv'
  <2> DEFINE Free == Network!Waiting
  <2>1. caller' = [caller EXCEPT ![w] = Free]
    BY <1>5, <1>a
  <2>2. box' \in [Network!Names -> Containers] /\ \A n \in Network!Names : Runs(box', n) => Runs(box, n)
    BY <1>5, <1>4
  <2>3. Free \in Callers /\ ~(Free.at # "free") /\ ~Free.alone /\ ~LookedAt(Free)
    BY WaitingFree DEF LookedAt
  <2> HIDE DEF Free
  <2> QED BY <2>1, <2>2, <2>3, <1>5, <1>e, OneRequest
<1>6. CASE Network!CheckBuilder(w)
  <2>0. /\ c.at = "check" /\ box' = box /\ started' = started
        /\ \/ IF Runs(box, Network!Builder) THEN Network!Ends(w) ELSE Network!Goes(w, "get")
           \/ caller' = [caller EXCEPT ![w] = Unanswered]
    BY <1>6, <1>c, <1>f DEF Network!CheckBuilder, Network!Running, Runs
  <2>1. CASE Network!Ends(w)
    BY <1>5, <2>0, <2>1
  <2>3. CASE caller' = [caller EXCEPT ![w] = Unanswered]
    BY <2>0, <2>3, <1>2, <1>c, <1>4, OneRequest DEF Runs
  <2>2. CASE ~Runs(box, Network!Builder) /\ Network!Goes(w, "get")
    <3>1. caller' = [caller EXCEPT ![w] = At("get")] /\ box' = box /\ started' = started
      BY <2>0, <2>2, <1>a
    <3>2. Knows(At("get")) /\ LookedAt(At("get")) => ~Runs(box', At("get").name)
      BY <3>1, <2>2, <1>2 DEF LookedAt
    <3> QED BY <3>1, <3>2, <2>0, <1>2, <1>c, <1>4, OneRequest DEF Runs
  <2> QED BY <2>0, <2>1, <2>2, <2>3
<1>7. CASE Network!GetContainer(w)
  <2>1. c.at = "get" /\ box' = box /\ started' = started
    BY <1>7, <1>c DEF Network!GetContainer
  <2>2. CASE box[c.name] = None
    <3>1. caller' = [caller EXCEPT ![w] = At("run")]
      BY <1>7, <2>2, <1>a, <1>e DEF Network!GetContainer
    <3> QED BY <3>1, <2>1, <1>2, <1>c, <1>4, OneRequest DEF Runs, LookedAt
  <2>3. CASE box[c.name] # None /\ c.name # Network!Builder /\ Runs(box, c.name)
    <3>1. Network!Ends(w)
      BY <1>7, <2>3, <1>e DEF Network!GetContainer, Network!Running, Runs
    <3> QED BY <3>1, <2>1, <1>5
  <2>4. CASE box[c.name] # None /\ ~(c.name # Network!Builder /\ Runs(box, c.name))
    <3>1. caller' = [caller EXCEPT ![w] = Found]
      BY <1>7, <2>4, <1>d, <1>e DEF Network!GetContainer, Network!Running, Runs
    <3>2. Knows(Found) /\ LookedAt(Found) => ~Runs(box', Found.name)
      BY <2>1, <2>4, <1>b, <1>3 DEF LookedAt, Knows
    <3> QED BY <3>1, <3>2, <2>1, <2>4, <1>3, <1>c, <1>4, OneRequest DEF Runs
  <2> QED BY <2>2, <2>3, <2>4
<1>8. CASE Network!RemoveContainer(w)
  <2>1. /\ c.at = "remove" /\ started' = started /\ caller' = [caller EXCEPT ![w] = At("run")]
        /\ box' = box \/ box' = [box EXCEPT ![c.name] = None]
    BY <1>8, <1>c, <1>a, <1>e DEF Network!RemoveContainer
  <2>2. /\ box' \in [Network!Names -> Containers]
        /\ \A n \in Network!Names : Runs(box', n) => Runs(box, n)
    BY <2>1, <1>4, <1>1 DEF Runs, Containers
  <2> QED BY <2>1, <2>2, <1>2, <1>c, <1>4, OneRequest DEF LookedAt
<1>9. CASE Network!RunContainer(w)
  <2>1. c.at = "run" /\ started' = started /\ caller' = [caller EXCEPT ![w] = Network!Waiting]
    BY <1>9, <1>c, <1>a DEF Network!RunContainer
  <2>2. \/ box' = box
        \/ \E starts \in BOOLEAN :
              box' = [box EXCEPT ![c.name] = [running |-> starts, number |-> c.number]]
    BY <1>9, <1>e DEF Network!RunContainer
  <2>3. c.number \in Nat
    BY <1>1 DEF Callers
  <2>4. box' \in [Network!Names -> Containers]
    <3>1. \A starts \in BOOLEAN : [running |-> starts, number |-> c.number] \in Containers
      BY <2>3 DEF Containers
    <3>2. \A x \in Containers : [box EXCEPT ![c.name] = x] \in [Network!Names -> Containers]
      BY <1>4, ZenonT(30)
    <3> QED BY <2>2, <3>1, <3>2, <1>4
  <2>5. \A n \in Network!Names : Runs(box', n) => Runs(box, n) \/ n = c.name
    BY <2>2, <1>4, <1>1 DEF Runs
  <2> QED BY <2>1, <2>4, <2>5, <1>c, <1>4, WaitingFree, OneRequest DEF LookedAt
<1>10. CASE Network!MergeQuantity(w)
  BY <1>10, <1>5 DEF Network!MergeQuantity
<1>11. CASE Network!DockerFails(w)
  BY <1>11, <1>5 DEF Network!DockerFails
<1> QED BY <1>6, <1>7, <1>8, <1>9, <1>10, <1>11

LEMMA NetworkKeeps ==
    ASSUME NInv, [Network!Next]_(Network!mvars)
    PROVE  NInv'
<1>1. box \in [Network!Names -> Containers] /\ started \in Nat
  BY DEF NInv, NetworkTyped
<1>2. ASSUME caller' = caller, started' = started, box' = box
      PROVE  NInv'
  BY <1>1, <1>2, StopsOnly
<1>3. ASSUME NEW n \in Network!Names, Runs(box, n), Network!Exits(n), caller' = caller,
             started' = started
      PROVE  NInv'
  <2>1. box[n] \in [running : BOOLEAN, number : Nat]
    BY <1>1, <1>3 DEF Runs, Containers
  <2>2. box' = [box EXCEPT ![n] = None] \/ box' = [box EXCEPT ![n] = [box[n] EXCEPT !.running = FALSE]]
    BY <1>3 DEF Network!Exits
  <2>3. [box[n] EXCEPT !.running = FALSE] \in [running : BOOLEAN, number : Nat]
        /\ [box[n] EXCEPT !.running = FALSE].running = FALSE
    BY <2>1
  <2>4. box' \in [Network!Names -> Containers]
    BY <2>2, <2>3, <1>1 DEF Containers
  <2>5. \A m \in Network!Names : Runs(box', m) => Runs(box, m)
    BY <2>2, <2>3, <1>1, <1>3 DEF Runs
  <2> QED BY <2>4, <2>5, <1>3, StopsOnly
<1>4. CASE UNCHANGED Network!mvars
  BY <1>4, <1>2 DEF Network!mvars
<1>5. CASE Network!Next
  <2>1. CASE \E w \in Workers : \/ Network!CheckBuilder(w) \/ Network!GetContainer(w)
                 \/ Network!RemoveContainer(w) \/ Network!RunContainer(w)
                 \/ Network!DockerFails(w) \/ Network!MergeQuantity(w)
    BY <2>1, RequestKeeps
  <2>2. ASSUME NEW w \in Workers, Network!start_builder(w) \/ Network!get_total(w)
        PROVE  NInv'
    BY <2>2, Begins DEF Network!start_builder, Network!get_total, Network!Names
  <2>3. ASSUME NEW w \in Workers, NEW n \in Fetched, Network!update_node_from_atomy(w, n)
        PROVE  NInv'
    BY <2>3, Begins, ShopAssumption DEF Network!update_node_from_atomy, Network!Names
  <2>4. ASSUME NEW n \in Network!Names, Network!ContainerExits(n)
        PROVE  NInv'
    BY <2>4, <1>3 DEF Network!ContainerExits, Network!Running, Runs
  <2>5. CASE Network!stop_builder
    BY <2>5, <1>3 DEF Network!stop_builder, Network!Running, Runs, Network!Names
  <2>6. ASSUME NEW n \in Fetched, Network!get_node_fetch_status(n)
        PROVE  NInv'
    <3>1. box' = [box EXCEPT ![n] = None] /\ caller' = caller /\ started' = started /\ n \in Network!Names
      BY <2>6 DEF Network!get_node_fetch_status, Network!Names
    <3>2. box' \in [Network!Names -> Containers] /\ \A m \in Network!Names : Runs(box', m) => Runs(box, m)
      BY <3>1, <1>1 DEF Runs, Containers
    <3> QED BY <3>1, <3>2, StopsOnly
  <2>7. CASE Network!save_node \/ Network!update_search_cache
    BY <2>7, <1>2 DEF Network!save_node, Network!update_search_cache
  <2> QED BY <1>5, <2>1, <2>2, <2>3, <2>4, <2>5, <2>6, <2>7 DEF Network!Next
<1> QED BY <1>4, <1>5

\* A running builder or fetch is removed by a start only when another request for
\* it is under way or Docker did not say whether it runs: the request that is
\* alone has looked, and nobody else has started the container since
\* (start_builder, update_node_from_atomy).
THEOREM BuilderIsKept == ShopSpec => []StartedIsKept
<1>1. ShopInit => NInv
  BY NetworkBegins DEF ShopInit
<1>2. NInv /\ [ShopNext]_shopvars => NInv'
  BY StepOfPart, NetworkKeeps
<1>3. NInv => StartedIsKept
  BY DEF NInv, StoppedIfAlone, Knows, LookedAt, Runs, StartedIsKept, Network!StartedIsKept,
         Network!Running
<1> QED BY <1>1, <1>2, <1>3, PTL DEF ShopSpec

-----------------------------------------------------------------------------
(* The products and the import of the vendor's.                              *)

CatalogueTyped ==
    /\ rows \in [Goods -> Import!Rows \cup {Import!Absent}]
    /\ vendor \in [Goods -> Import!Offers \cup {Import!Absent}]
    /\ import = [at |-> import.at, held |-> import.held, seen |-> import.seen,
                 got |-> import.got]
    /\ import.at \in {"idle", "asking", "writing"}
    /\ import.held \subseteq Goods

\* What the import has not seen is exactly what was saved since: a product it
\* holds is as it was read, or has been deleted, and one it does not hold is not
\* there.
SeenByImport ==
    /\ import.at = "writing" =>
          /\ import.seen \in [Goods -> Import!Rows \cup {Import!Absent}]
          /\ import.held \subseteq Import!Present(import.seen)
          /\ import.got \in UNION {[listed -> Import!Offers] : listed \in SUBSET Goods}
          /\ \A p \in import.held \ saved : rows[p] \in {import.seen[p], Import!Absent}
    /\ import.at # "idle" => \A p \in Goods \ (import.held \cup saved) : rows[p] = Import!Absent

CInv == CatalogueTyped /\ SeenByImport /\ Import!SyncedIsAsTold

\* A row is not taken for one that is absent.
LEMMA RowIsNotAbsent ==
    /\ \A r \in Import!Rows : r # Import!Absent
    /\ \A o \in Import!Offers : o # Import!Absent
BY DEF Import!Rows, Import!Offers, Import!Absent

\* What the vendor answers are its offers.
LEMMA AnswersAreOffers ==
    ASSUME CatalogueTyped, NEW got \in Import!get_atomy_products
    PROVE  got \in UNION {[listed -> Import!Offers] : listed \in SUBSET Goods}
<1>1. PICK listed \in SUBSET Import!Present(vendor) : got = [p \in listed |-> vendor[p]]
  BY DEF Import!get_atomy_products
<1>2. listed \in SUBSET Goods /\ \A p \in listed : vendor[p] \in Import!Offers
  BY <1>1 DEF Import!Present, CatalogueTyped
<1>3. got \in [listed -> Import!Offers]
  BY <1>1, <1>2
<1> QED BY <1>2, <1>3

LEMMA CatalogueBegins == ASSUME Import!Init PROVE CInv
BY ShopAssumption DEF Import!Init, CInv, CatalogueTyped, SeenByImport, Import!SyncedIsAsTold, Import!NotRunning, Import!Present

\* What an import writes is what the vendor told it, for a product that was not
\* saved since the import had read it.
LEMMA ImportedIsAsTold ==
    ASSUME CInv, import.at = "writing", ~Import!Conflict,
           NEW p \in Goods, NEW row,
           row = IF p \in import.held \ Import!Present(rows) THEN Import!Absent ELSE Import!Imported(p)
    PROVE  /\ row \in Import!Rows \cup {Import!Absent}
           /\ p \notin saved /\ row # Import!Absent /\ row.synchronize =>
                IF p \in DOMAIN import.got
                THEN row.price = import.got[p].price /\ row.available = import.got[p].available
                ELSE ~row.available
<1>1. import.held \subseteq Goods /\ rows[p] \in Import!Rows \cup {Import!Absent}
  BY DEF CInv, CatalogueTyped
<1>2. p \in DOMAIN import.got => import.got[p] \in Import!Offers
  BY DEF CInv, SeenByImport
<1>3. CASE p \in import.held \ Import!Present(rows)
  BY <1>3
<1>4. CASE p \in import.held /\ rows[p] # Import!Absent
  <2>1. import.seen[p] \in Import!Rows
    BY <1>4 DEF CInv, SeenByImport, Import!Present
  <2>2. rows[p] \in Import!Rows
    BY <1>1, <1>4
  <2>3. p \notin saved => rows[p] = import.seen[p]
    BY <1>4 DEF CInv, SeenByImport
  <2>4. row = Import!Imported(p)
    BY <1>4 DEF Import!Present
  <2>5. CASE import.seen[p].synchronize /\ p \in DOMAIN import.got
    <3>1. row = Import!Updated(p)
      BY <1>4, <2>4, <2>5 DEF Import!Imported, Import!Synchronized, Import!Listed
    <3> QED BY <1>2, <2>1, <2>2, <2>3, <2>5, <3>1 DEF Import!Updated, Import!Column, Import!Rows, Import!Offers
  <2>6. CASE import.seen[p].synchronize /\ p \notin DOMAIN import.got
    <3>1. row = Import!Disabled(p)
      BY <1>4, <2>4, <2>6 DEF Import!Imported, Import!Synchronized, Import!Listed
    <3> QED BY <2>1, <2>2, <2>3, <2>6, <3>1 DEF Import!Disabled, Import!Column, Import!Rows
  <2>7. CASE ~import.seen[p].synchronize
    <3>1. row = rows[p]
      BY <1>4, <2>4, <2>7 DEF Import!Imported, Import!Synchronized, Import!Listed
    <3> QED BY <2>2, <2>3, <2>7, <3>1
  <2> QED BY <2>1, <2>5, <2>6, <2>7
<1>5. CASE p \notin import.held
  <2>1. row = Import!Imported(p)
    BY <1>5
  <2>2. CASE p \in DOMAIN import.got
    <3>1. row = Import!Added(p)
      BY <1>5, <2>1, <2>2 DEF Import!Imported, Import!Synchronized, Import!Listed
    <3>2. import.got[p].price \in Prices /\ import.got[p].available \in BOOLEAN
      BY <1>2, <2>2 DEF Import!Offers
    <3>3. [price |-> import.got[p].price, available |-> import.got[p].available,
           synchronize |-> TRUE] \in Import!Rows
      BY <3>2 DEF Import!Rows
    <3>4. row.price = import.got[p].price /\ row.available = import.got[p].available
      BY <3>1 DEF Import!Added
    <3> QED BY <2>2, <3>1, <3>3, <3>4 DEF Import!Added
  <2>3. CASE p \notin DOMAIN import.got
    <3>1. row = rows[p]
      BY <1>5, <2>1, <2>3 DEF Import!Imported, Import!Synchronized, Import!Listed
    <3>2. p \notin saved => rows[p] = Import!Absent
      BY <1>5 DEF CInv, SeenByImport
    <3> QED BY <1>1, <3>1, <3>2
  <2> QED BY <2>2, <2>3
<1> QED BY <1>1, <1>3, <1>4, <1>5 DEF Import!Present

\* A step of the import preserves the invariant.
LEMMA ImportSteps ==
    ASSUME CInv, Import!StartImport \/ Import!ReadAnswer \/ Import!ImportFails \/ Import!CommitImport \/ Import!LoseImport
    PROVE  CInv'
<1>1. CASE Import!StartImport
  BY <1>1 DEF Import!StartImport, CInv, CatalogueTyped, SeenByImport, Import!SyncedIsAsTold, Import!Present, Import!NotRunning
<1>2. CASE Import!ReadAnswer
  <2>1. PICK got \in Import!get_atomy_products :
           import' = IF DOMAIN got = {} \/ ~(import.held \subseteq Import!Present(rows)) THEN Import!NotRunning
                     ELSE [import EXCEPT !.at = "writing", !.seen = rows, !.got = got]
    BY <1>2 DEF Import!ReadAnswer
  <2>2. got \in UNION {[listed -> Import!Offers] : listed \in SUBSET Goods}
    BY AnswersAreOffers DEF CInv
  <2>3. CatalogueTyped' /\ Import!SyncedIsAsTold'
    BY <1>2, <2>1 DEF Import!ReadAnswer, CInv, CatalogueTyped, Import!SyncedIsAsTold, Import!Present, Import!NotRunning
  <2>4. CASE import' = Import!NotRunning
    BY <2>3, <2>4 DEF CInv, SeenByImport, Import!NotRunning
  <2>5. CASE /\ import' = [import EXCEPT !.at = "writing", !.seen = rows, !.got = got]
             /\ import.held \subseteq Import!Present(rows)
    <3>1. /\ import'.at = "writing" /\ import'.held = import.held
          /\ import'.seen = rows /\ import'.got = got
      BY <1>2, <2>5 DEF Import!ReadAnswer, CInv, CatalogueTyped
    <3>2. import.at = "asking" /\ rows' = rows /\ saved' = saved \ import.held
      BY <1>2 DEF Import!ReadAnswer
    <3>3. SeenByImport'
      BY <2>2, <2>5, <3>1, <3>2 DEF CInv, CatalogueTyped, SeenByImport, Import!Present
    <3> QED BY <2>3, <3>3 DEF CInv
  <2> QED BY <2>1, <2>4, <2>5
<1>3. CASE Import!ImportFails
  BY <1>3 DEF Import!ImportFails, CInv, CatalogueTyped, SeenByImport, Import!SyncedIsAsTold, Import!Present, Import!NotRunning
<1>4. CASE Import!CommitImport
  <2>1. /\ import.at = "writing" /\ ~Import!Conflict /\ import' = Import!NotRunning
        /\ vendor' = vendor /\ told' = import.got /\ touched' = saved
    BY <1>4 DEF Import!CommitImport
  <2>2. rows' = [p \in Goods |-> IF p \in import.held \ Import!Present(rows) THEN Import!Absent
                                   ELSE Import!Imported(p)]
    BY <1>4 DEF Import!CommitImport
  <2>3. ASSUME NEW p \in Goods
        PROVE  /\ rows'[p] \in Import!Rows \cup {Import!Absent}
               /\ p \notin saved /\ rows'[p] # Import!Absent /\ rows'[p].synchronize =>
                    IF p \in DOMAIN import.got
                    THEN /\ rows'[p].price = import.got[p].price
                         /\ rows'[p].available = import.got[p].available
                    ELSE ~rows'[p].available
    <3>1. rows'[p] = IF p \in import.held \ Import!Present(rows) THEN Import!Absent ELSE Import!Imported(p)
      BY <2>2
    <3> QED BY <2>1, <3>1, ImportedIsAsTold
  <2>4. CatalogueTyped'
    BY <2>1, <2>2, <2>3 DEF CInv, CatalogueTyped, Import!NotRunning
  <2>5. SeenByImport'
    BY <2>1 DEF SeenByImport, Import!NotRunning
  <2>6. Import!SyncedIsAsTold'
    BY <2>1, <2>3 DEF Import!SyncedIsAsTold, Import!Present
  <2> QED BY <2>4, <2>5, <2>6 DEF CInv
<1>5. CASE Import!LoseImport
  BY <1>5 DEF Import!LoseImport, CInv, CatalogueTyped, SeenByImport, Import!SyncedIsAsTold, Import!Present, Import!NotRunning
<1> QED BY <1>1, <1>2, <1>3, <1>4, <1>5

\* What the administrator or the vendor does preserves it.
LEMMA EditSteps ==
    ASSUME CInv, NEW p \in Goods, Import!save_product(p) \/ Import!delete_product(p) \/ Import!VendorChanges(p)
    PROVE  CInv'
<1>1. CASE Import!save_product(p)
  <2>1. PICK r \in Import!Rows : rows' = [rows EXCEPT ![p] = r]
    BY <1>1 DEF Import!save_product
  <2>2. /\ import' = import /\ vendor' = vendor /\ told' = told
        /\ saved' = saved \cup {p} /\ touched' = touched \cup {p}
    BY <1>1 DEF Import!save_product
  <2>3. \A q \in Goods \ {p} : rows'[q] = rows[q]
    BY <2>1 DEF CInv, CatalogueTyped
  <2>4. CatalogueTyped'
    BY <2>1, <2>2 DEF CInv, CatalogueTyped
  <2>5. SeenByImport'
    BY <2>2, <2>3 DEF CInv, CatalogueTyped, SeenByImport, Import!Present
  <2>6. Import!SyncedIsAsTold'
    BY <2>2, <2>3 DEF CInv, Import!SyncedIsAsTold, Import!Present
  <2> QED BY <2>4, <2>5, <2>6 DEF CInv
<1>2. CASE Import!delete_product(p)
  <2>1. /\ rows' = [rows EXCEPT ![p] = Import!Absent]
        /\ UNCHANGED <<import, vendor, told, saved, touched>>
    BY <1>2 DEF Import!delete_product
  <2>2. \A q \in Goods : rows'[q] = IF q = p THEN Import!Absent ELSE rows[q]
    BY <2>1 DEF CInv, CatalogueTyped
  <2>3. CatalogueTyped'
    BY <2>1 DEF CInv, CatalogueTyped
  <2>4. SeenByImport'
    BY <2>1, <2>2 DEF CInv, CatalogueTyped, SeenByImport, Import!Present
  <2>5. Import!SyncedIsAsTold'
    BY <2>1, <2>2 DEF CInv, Import!SyncedIsAsTold, Import!Present
  <2> QED BY <2>3, <2>4, <2>5 DEF CInv
<1>3. CASE Import!VendorChanges(p)
  <2>1. vendor' \in [Goods -> Import!Offers \cup {Import!Absent}] /\ UNCHANGED <<rows, import, told, saved, touched>>
    BY <1>3 DEF Import!VendorChanges, CInv, CatalogueTyped
  <2> QED BY <2>1 DEF CInv, CatalogueTyped, SeenByImport, Import!SyncedIsAsTold, Import!Present
<1> QED BY <1>1, <1>2, <1>3

LEMMA CatalogueKeeps ==
    ASSUME CInv, [Import!Next]_(Import!cvars)
    PROVE  CInv'
<1>1. CASE UNCHANGED Import!cvars
  BY <1>1 DEF Import!cvars, CInv, CatalogueTyped, SeenByImport, Import!SyncedIsAsTold,
     Import!Present
<1>2. CASE Import!Next
  BY <1>2, ImportSteps, EditSteps DEF Import!Next
<1> QED BY <1>1, <1>2

\* After every import that goes through, whatever was created, saved or deleted
\* while it ran, a product that is synchronised and that the administrator did
\* not save behind the import's back is as the vendor told it, and is not offered
\* if the vendor did not tell of it (import_products).
THEOREM ImportTells == ShopSpec => []SyncedIsAsTold
<1>1. ShopInit => CInv
  BY CatalogueBegins DEF ShopInit
<1>2. CInv /\ [ShopNext]_shopvars => CInv'
  BY StepOfPart, CatalogueKeeps
<1>3. CInv => SyncedIsAsTold
  BY DEF CInv, SyncedIsAsTold
<1> QED BY <1>1, <1>2, <1>3, PTL DEF ShopSpec

-----------------------------------------------------------------------------
(* The shipping methods and the cache of the answers.                        *)

\* A worker's answer that is on its way to the cache is what the database says, or
\* is marked as computed before a change.
AtDesk(d) == d = [at |-> d.at, q |-> d.q, answer |-> d.answer, dated |-> d.dated]
OnTheWay ==
    /\ desk = [w \in Workers |-> desk[w]]
    /\ \A w \in Workers :
          /\ AtDesk(desk[w])
          /\ desk[w].at = "store" /\ desk[w].dated # TRUE
                => desk[w].answer = Methods!Answer(shop, desk[w].q)
Answered == \A q \in DOMAIN answers \ outdated :
               answers[q] = Methods!Answer(shop, q) \/ \E w \in Workers : desk[w].at = "clear"
MInv == OnTheWay /\ Answered

LEMMA MethodsBegin == Methods!Init => MInv
<1> SUFFICES ASSUME Methods!Init
             PROVE  MInv
  OBVIOUS
<1>1. OnTheWay
  BY DEF Methods!Init, OnTheWay, AtDesk, Methods!Idle
<1>2. DOMAIN answers = {}
  BY DEF Methods!Init
<1> QED BY <1>1, <1>2 DEF MInv, Answered

\* What the change of a desk is to those whose answers it dates.
LEMMA DatedIsMarked ==
    ASSUME NEW f, f = [w \in Workers |-> f[w]], \A w \in Workers : AtDesk(f[w]),
           desk' = Methods!Dated(f)
    PROVE  /\ OnTheWay'
           /\ \A w \in Workers : desk'[w].at = f[w].at
<1>1. desk' = [w \in Workers |-> IF f[w].at = "store" THEN [f[w] EXCEPT !.dated = TRUE] ELSE f[w]]
  BY DEF Methods!Dated
<1>2. \A w \in Workers :
         /\ AtDesk(desk'[w]) /\ desk'[w].at = f[w].at
         /\ desk'[w].at = "store" => desk'[w].dated = TRUE
  BY <1>1 DEF AtDesk
<1> QED BY <1>1, <1>2 DEF OnTheWay

\* A change that leaves the cache alone outdates its answers; one that is announced
\* has a worker at the clearing.
LEMMA ChangeIsTold ==
    ASSUME MInv, NEW w \in Workers, NEW d,
           Methods!Announced(w, d) \/ Methods!Unannounced(w, d)
    PROVE  MInv'
<1>1. CASE Methods!Announced(w, d)
  <2> DEFINE f == [desk EXCEPT ![w] = [Methods!Idle EXCEPT !.at = "clear"]]
  <2>1. f = [x \in Workers |-> f[x]] /\ (\A x \in Workers : AtDesk(f[x])) /\ f[w].at = "clear"
    BY DEF MInv, OnTheWay, AtDesk, Methods!Idle
  <2>2. desk' = Methods!Dated(f)
    BY <1>1 DEF Methods!Announced
  <2> HIDE DEF f
  <2>3. OnTheWay' /\ desk'[w].at = "clear"
    BY <2>1, <2>2, DatedIsMarked
  <2> QED BY <2>3 DEF MInv, Answered
<1>2. CASE Methods!Unannounced(w, d)
  <2>1. desk' = Methods!Dated(desk) /\ outdated' = outdated \cup DOMAIN answers /\ answers' = answers
    BY <1>2 DEF Methods!Unannounced
  <2>2. OnTheWay'
    BY <2>1, DatedIsMarked DEF MInv, OnTheWay
  <2> QED BY <2>1, <2>2 DEF MInv, Answered
<1> QED BY <1>1, <1>2

LEMMA MethodsKeep ==
    ASSUME MInv, [Methods!Next]_(Methods!svars)
    PROVE  MInv'
<1>1. CASE UNCHANGED Methods!svars
  BY <1>1 DEF Methods!svars, MInv, OnTheWay, Answered
<1>2. ASSUME NEW w \in Workers, NEW q, Methods!Ask(w, q)
      PROVE  MInv'
  <2> DEFINE asked == [Methods!Idle EXCEPT !.at = "store", !.q = q, !.answer = Methods!Answer(shop, q)]
  <2>a. /\ desk' = [desk EXCEPT ![w] = asked] /\ desk[w] = Methods!Idle
        /\ shop' = shop /\ answers' = answers /\ outdated' = outdated
    BY <1>2 DEF Methods!Ask
  <2> DEFINE answer == Methods!Answer(shop, q)
  <2>c. asked = [Methods!Idle EXCEPT !.at = "store", !.q = q, !.answer = answer]
    OBVIOUS
  <2> HIDE DEF answer, asked
  <2>d. AtDesk(asked)
    BY <2>c DEF AtDesk, Methods!Idle
  <2>e. asked.q = q /\ asked.answer = answer
    BY <2>c DEF Methods!Idle
  <2>f. desk[w].at = "idle"
    BY <2>a DEF Methods!Idle
  <2>b. AtDesk(asked) /\ asked.q = q /\ asked.answer = Methods!Answer(shop, q) /\ desk[w].at = "idle"
    BY <2>d, <2>e, <2>f DEF answer
  <2>1. /\ desk' = [desk EXCEPT ![w] = asked] /\ desk[w].at = "idle"
        /\ shop' = shop /\ answers' = answers /\ outdated' = outdated
    BY <2>a, <2>b
  <2>2. OnTheWay'
    BY <2>1, <2>b DEF MInv, OnTheWay
  <2>3. \A x \in Workers : desk[x].at = "clear" => desk'[x].at = "clear"
    BY <2>1 DEF MInv, OnTheWay
  <2> QED BY <2>1, <2>2, <2>3 DEF MInv, Answered
<1>3. ASSUME NEW w \in Workers, Methods!Store(w)
      PROVE  MInv'
  <2> DEFINE r == desk[w]
  <2>1. /\ r.at = "store" /\ shop' = shop
        /\ answers' = [x \in DOMAIN answers \cup {r.q} |-> IF x = r.q THEN r.answer ELSE answers[x]]
        /\ outdated' = IF r.dated THEN outdated \cup {r.q} ELSE outdated \ {r.q}
        /\ desk' = [desk EXCEPT ![w] = Methods!Idle]
    BY <1>3 DEF Methods!Store
  <2>2. r.dated # TRUE => r.answer = Methods!Answer(shop, r.q)
    BY <2>1 DEF MInv, OnTheWay
  <2>3. OnTheWay'
    BY <2>1 DEF MInv, OnTheWay, AtDesk, Methods!Idle
  <2>4. \A x \in Workers : desk[x].at = "clear" => desk'[x].at = "clear"
    BY <2>1 DEF MInv, OnTheWay
  <2> HIDE DEF r
  <2>5. ASSUME NEW q \in DOMAIN answers' \ outdated'
        PROVE  answers'[q] = Methods!Answer(shop', q) \/ \E x \in Workers : desk'[x].at = "clear"
    <3>1. CASE q = r.q
      BY <2>1, <2>2, <2>5, <3>1
    <3>2. CASE q # r.q
      <4>1. q \in DOMAIN answers \ outdated /\ answers'[q] = answers[q]
        BY <2>1, <2>5, <3>2
      <4> QED BY <4>1, <2>1, <2>4 DEF MInv, Answered
    <3> QED BY <3>1, <3>2
  <2> QED BY <2>3, <2>5 DEF MInv, Answered
<1>4. ASSUME NEW w \in Workers, Methods!Clear(w)
      PROVE  MInv'
  <2>1. DOMAIN answers' = {} /\ desk' = [desk EXCEPT ![w] = Methods!Idle] /\ shop' = shop
    BY <1>4 DEF Methods!Clear
  <2>2. OnTheWay'
    BY <2>1 DEF MInv, OnTheWay, AtDesk, Methods!Idle
  <2> QED BY <2>1, <2>2 DEF MInv, Answered
<1>5. ASSUME NEW w \in Workers, NEW m \in Shippings, Methods!Administration(w, m)
      PROVE  MInv'
  BY <1>5, ChangeIsTold DEF Methods!Administration, Methods!SaveTariff,
     Methods!weight_based_save_rate, Methods!weight_based_delete_rate,
     Methods!cargo_save_rate, Methods!cargo_delete_rate, Methods!cargo_save_countries,
     Methods!admin_save_shipping_method, Methods!admin_delete_shipping_method
<1>6. ASSUME NEW q, Methods!Expire(q)
      PROVE  MInv'
  BY <1>6 DEF Methods!Expire, MInv, OnTheWay, Answered
<1>7. ASSUME NEW m, Methods!CarrierChanges(m)
      PROVE  MInv'
  <2>1. desk' = Methods!Dated(desk) /\ outdated' = outdated \cup DOMAIN answers /\ answers' = answers
    BY <1>7 DEF Methods!CarrierChanges
  <2>2. OnTheWay'
    BY <2>1, DatedIsMarked DEF MInv, OnTheWay
  <2> QED BY <2>1, <2>2 DEF MInv, Answered
<1> QED BY <1>1, <1>2, <1>3, <1>4, <1>5, <1>6, <1>7 DEF Methods!Next

\* What the cache answers is what the database says now, or some worker is about to
\* clear it, or the answer was made out of date by a change that nobody tells the
\* cache of: however the computing, the storing and the clearing of several workers
\* interleave with the changes.
THEOREM CacheIsCurrent == ShopSpec => []AnswersAreCurrent
<1>1. ShopInit => MInv
  BY MethodsBegin DEF ShopInit
<1>2. MInv /\ [ShopNext]_shopvars => MInv'
  BY StepOfPart, MethodsKeep
<1>3. MInv => AnswersAreCurrent
  BY DEF MInv, Answered, AnswersAreCurrent, Methods!AnswersAreCurrent
<1> QED BY <1>1, <1>2, <1>3, PTL DEF ShopSpec

-----------------------------------------------------------------------------
(* The shipment service.                                                     *)

IsRequest(t) == t = None \/ (t.kind \in Ship!Kinds /\ t \in Ship!RequestsOf(t.kind))

ShipTyped ==
    /\ shipment \in [Ship!Ids -> Ship!ShipmentRows \cup {None}]
    /\ invoice \in [Ship!Ids -> Ship!InvoiceRows \cup {None}]
    /\ labels \in [Ship!Ids -> SUBSET Nat]
    /\ users \subseteq Users /\ multiplier \in [Carriers -> 1 .. MaxMultiplier]
    /\ stx = [w \in Workers |-> stx[w]] /\ \A w \in Workers : IsRequest(stx[w])
    /\ consigned \in [Ship!Ids -> SUBSET Nat]
    /\ \A u \in Ship!Ids : IsFiniteSet(consigned[u])

\* What a request knows of the row it loaded: it has been neither paid nor, if the
\* request may order a consignment, shipped, and what the row had of either it keeps
\* unless somebody takes it back (doubtful).
Good(t, ships, doubt, n) ==
    /\ ships[t.unit] # None
    /\ t.kind = "type" => t.row.paid # TRUE
    /\ t.kind = "invoice" => t.row.amount # None /\ t.invoices <= n
    /\ t.number # None => t.kind \in {"status", "consign"} /\ t.pc = "commit"
    /\ t.kind = "consign" /\ t.arg # "force" => t.row.status # "shipped"
    /\ t.unit \notin doubt =>
          IF t.row.status = "shipped" THEN ships[t.unit].status = "shipped" ELSE t.had = {}

Invoiced(inv) == {u \in Ship!Ids : inv[u] # None}

AllGood == \A w \in Workers :
    stx[w] # None => Good(stx[w], shipment, doubtful, Cardinality(Invoiced(invoice)))

\* A consignment is in the hands of a request, or its shipment is shipped.
Held(f, u, c) == \E v \in Workers : f[v] # None /\ f[v].unit = u /\ f[v].number = c
IsShipped(ships, u) == ships[u] # None /\ ships[u].status = "shipped"
Accounted == \A u \in Ship!Ids \ doubtful : \A c \in consigned[u] :
    IsShipped(shipment, u) \/ Held(stx, u, c)

SInv == /\ ShipTyped /\ AllGood /\ Accounted
        /\ Ship!NumbersHaveNoGaps /\ Ship!ConsignedOnce

LEMMA SameCardinality == \A S : Ship!Cardinality(S) = Cardinality(S)
BY DEF Ship!Cardinality, Cardinality

LEMMA ImageIsFinite ==
    ASSUME NEW S, IsFiniteSet(S), NEW f
    PROVE  IsFiniteSet({f[x] : x \in S})
<1> DEFINE T == {f[x] : x \in S}  g == [x \in S |-> f[x]]
<1>1. g \in Surjection(S, T)
  BY DEF Surjection
<1> QED BY <1>1, FS_Surjection

\* The boxes are finitely many, and so are those with an invoice.
LEMMA BoxesAreFinite ==
    /\ IsFiniteSet(Ship!Ids) /\ Units[1] \in Ship!Ids
    /\ \A inv : IsFiniteSet(Invoiced(inv)) /\ Cardinality(Invoiced(inv)) \in Nat
<1>1. Units \in Seq(Ship!Ids) /\ Len(Units) \in Nat /\ DOMAIN Units = 1 .. Len(Units)
  BY ShopAssumption, LenProperties
<1>2. IsFiniteSet(1 .. Len(Units))
  BY <1>1, FS_Interval
<1>3. IsFiniteSet({Units[i] : i \in 1 .. Len(Units)})
  BY <1>2, ImageIsFinite
<1>4. Ship!Ids = {Units[i] : i \in 1 .. Len(Units)}
  BY <1>1 DEF Ship!Ids, Ship!Range
<1>5. Len(Units) # 0
  BY <1>1, ShopAssumption, EmptySeq
<1>6. Units[1] \in Ship!Ids
  BY <1>1, <1>4, <1>5
<1>7. ASSUME NEW inv
      PROVE  IsFiniteSet(Invoiced(inv)) /\ Cardinality(Invoiced(inv)) \in Nat
  <2>1. Invoiced(inv) \subseteq Ship!Ids
    BY DEF Invoiced
  <2> QED BY <2>1, <1>3, <1>4, FS_Subset, FS_CardinalityType
<1> QED BY <1>3, <1>4, <1>6, <1>7

LEMMA GoodRemains ==
    ASSUME NEW t, NEW ships, NEW ships2, NEW doubt, NEW doubt2, NEW n \in Nat, NEW n2 \in Nat,
           Good(t, ships, doubt, n), t.invoices \in Nat, doubt \subseteq doubt2, n <= n2,
           ships2[t.unit] # None,
           ships[t.unit].status = "shipped" =>
              ships2[t.unit].status = "shipped" \/ t.unit \in doubt2
    PROVE  Good(t, ships2, doubt2, n2)
<1>1. t.invoices <= n => t.invoices <= n2
  OBVIOUS
<1> QED BY <1>1 DEF Good

\* The parts of a request.
LEMMA RequestParts ==
    ASSUME NEW t, IsRequest(t), t # None
    PROVE  /\ t.unit \in Ship!Ids /\ t.row \in Ship!ShipmentRows /\ t.invoices \in Nat
           /\ t.kind \in Ship!Kinds /\ t.arg \in Ship!ArgumentsOf(t.kind)
           /\ t.number \in Nat \cup {None} /\ t.pc \in {"commit", "failed"}
           /\ t.known \subseteq Users
           /\ t \in Ship!RequestsOf(t.kind)
BY DEF IsRequest, Ship!RequestsOf

\* What a request has computed is a row; the price of none but a change of the type
\* differs, and with a consignment the row is shipped.
LEMMA ChangedRow ==
    ASSUME ShipTyped, NEW t, IsRequest(t), t # None,
           t.number # None => t.kind \in {"status", "consign"}
    PROVE  /\ Ship!Changed(t) \in Ship!ShipmentRows
           /\ t.kind # "type" => Ship!Changed(t).amount = t.row.amount
           /\ t.number # None => Ship!Changed(t).status = "shipped"
<1> DEFINE r == t.row
<1>1. r \in Ship!ShipmentRows /\ t.kind \in Ship!Kinds /\ t.arg \in Ship!ArgumentsOf(t.kind)
      /\ t.number \in Nat \cup {None} /\ r = t.row
  BY RequestParts
<1> HIDE DEF r
<1>2. CASE t.kind = "type"
  <2>1. t.arg \in Carriers
    BY <1>1, <1>2, ShopAssumption DEF Ship!ArgumentsOf
  <2>2. multiplier[t.arg] \in 1 .. MaxMultiplier
    BY <2>1 DEF ShipTyped
  <2> DEFINE cost == [carrier |-> t.arg, multiplier |-> multiplier[t.arg]]
  <2>3. cost \in Ship!Costs
    BY <2>1, <2>2 DEF Ship!Costs
  <2>4. Ship!Changed(t) = [r EXCEPT !.carrier = t.arg, !.amount = cost]
    BY <1>1, <1>2 DEF Ship!Changed
  <2> HIDE DEF cost
  <2>5. [r EXCEPT !.carrier = t.arg, !.amount = cost] \in Ship!ShipmentRows
    BY <1>1, <2>1, <2>3 DEF Ship!ShipmentRows
  <2> QED BY <2>4, <2>5, <1>2
<1>3. CASE t.kind = "paid"
  <2>1. t.arg \in BOOLEAN
    BY <1>1, <1>3 DEF Ship!ArgumentsOf
  <2>2. Ship!Changed(t) = [r EXCEPT !.paid = t.arg]
    BY <1>1, <1>3 DEF Ship!Changed
  <2>3. [r EXCEPT !.paid = t.arg] \in Ship!ShipmentRows /\ [r EXCEPT !.paid = t.arg].amount = r.amount
    BY <1>1, <2>1 DEF Ship!ShipmentRows
  <2> QED BY <1>1, <1>3, <2>2, <2>3
<1>4. CASE t.kind = "tracking"
  <2>1. t.arg = None
    BY <1>1, <1>4 DEF Ship!ArgumentsOf
  <2>2. Ship!Changed(t) = [r EXCEPT !.tracking = None]
    BY <1>1, <1>4, <2>1 DEF Ship!Changed
  <2>3. [r EXCEPT !.tracking = None] \in Ship!ShipmentRows /\ [r EXCEPT !.tracking = None].amount = r.amount
    BY <1>1 DEF Ship!ShipmentRows
  <2> QED BY <1>1, <1>4, <2>2, <2>3
<1>5. CASE t.kind = "status" /\ t.number = None
  <2>1. t.arg \in Ship!Statuses
    BY <1>1, <1>5 DEF Ship!ArgumentsOf, Ship!Statuses
  <2>2. Ship!Changed(t) = [r EXCEPT !.status = t.arg]
    BY <1>1, <1>5 DEF Ship!Changed
  <2>3. [r EXCEPT !.status = t.arg] \in Ship!ShipmentRows /\ [r EXCEPT !.status = t.arg].amount = r.amount
    BY <1>1, <2>1 DEF Ship!ShipmentRows
  <2> QED BY <1>1, <1>5, <2>2, <2>3
<1>6. CASE t.number # None
  <2>1. Ship!Changed(t) = [r EXCEPT !.status = "shipped", !.tracking = t.number]
    BY <1>1, <1>6 DEF Ship!Changed
  <2> DEFINE c == [r EXCEPT !.status = "shipped", !.tracking = t.number]
  <2>2. c \in Ship!ShipmentRows /\ c.amount = r.amount /\ c.status = "shipped"
    BY <1>1, <1>6 DEF Ship!ShipmentRows, Ship!Statuses
  <2> QED BY <1>1, <1>6, <2>1, <2>2
<1>7. CASE t.kind = "get" /\ t.number = None /\ r.user = None
  <2>1. t.arg \in Users
    BY <1>1, <1>7 DEF Ship!ArgumentsOf
  <2>2. Ship!Changed(t) = [r EXCEPT !.user = t.arg]
    BY <1>1, <1>7 DEF Ship!Changed
  <2>3. [r EXCEPT !.user = t.arg] \in Ship!ShipmentRows /\ [r EXCEPT !.user = t.arg].amount = r.amount
    BY <1>1, <2>1 DEF Ship!ShipmentRows
  <2> QED BY <1>1, <1>7, <2>2, <2>3
<1>8. CASE /\ t.kind \notin {"type", "paid", "tracking", "status"} /\ t.number = None
           /\ ~(t.kind = "get" /\ r.user = None)
  <2>1. Ship!Changed(t) = r
    BY <1>1, <1>8 DEF Ship!Changed
  <2> QED BY <1>1, <1>8, <2>1
<1> QED BY <1>1, <1>2, <1>3, <1>4, <1>5, <1>6, <1>7, <1>8

\* What its commit writes: the columns it changed, over the row as it is now.
LEMMA WrittenRow ==
    ASSUME ShipTyped, NEW t, IsRequest(t), t # None, shipment[t.unit] # None,
           t.number # None => t.kind \in {"status", "consign"}
    PROVE  /\ Ship!Written(t) \in Ship!ShipmentRows
           /\ t.kind # "type" => Ship!Written(t).amount = shipment[t.unit].amount
           /\ t.number # None =>
                Ship!Written(t).status =
                   IF t.row.status = "shipped" THEN shipment[t.unit].status ELSE "shipped"
<1> DEFINE c == Ship!Changed(t)  now == shipment[t.unit]  r == t.row
           fields == {"carrier", "amount", "tracking", "status", "paid", "user"}
<1>1. /\ c \in Ship!ShipmentRows
      /\ t.kind # "type" => c.amount = r.amount
      /\ t.number # None => c.status = "shipped"
  BY ChangedRow
<1>2. r \in Ship!ShipmentRows /\ t.unit \in Ship!Ids
  BY RequestParts
<1>3. now \in Ship!ShipmentRows
  BY <1>2 DEF ShipTyped
<1>4. DOMAIN r = fields
  BY <1>2 DEF Ship!ShipmentRows
<1>5. Ship!Written(t) = [f \in fields |-> IF c[f] # r[f] THEN c[f] ELSE now[f]]
  BY <1>4 DEF Ship!Written
<1> HIDE DEF c, now, r
<1>6. Ship!Written(t) \in Ship!ShipmentRows
  <2> DEFINE x == [carrier |-> IF c.carrier # r.carrier THEN c.carrier ELSE now.carrier,
                   amount |-> IF c.amount # r.amount THEN c.amount ELSE now.amount,
                   tracking |-> IF c.tracking # r.tracking THEN c.tracking ELSE now.tracking,
                   status |-> IF c.status # r.status THEN c.status ELSE now.status,
                   paid |-> IF c.paid # r.paid THEN c.paid ELSE now.paid,
                   user |-> IF c.user # r.user THEN c.user ELSE now.user]
  <2>1. x \in Ship!ShipmentRows
    BY <1>1, <1>3 DEF Ship!ShipmentRows
  <2>2. x = Ship!Written(t)
    BY <1>5
  <2> QED BY <2>1, <2>2
<1>7. /\ Ship!Written(t).amount = (IF c.amount # r.amount THEN c.amount ELSE now.amount)
      /\ Ship!Written(t).status = (IF c.status # r.status THEN c.status ELSE now.status)
  BY <1>5
<1> QED BY <1>1, <1>6, <1>7 DEF r, now

\* A shipment that has been created is a row.
LEMMA NewIsRow ==
    ASSUME NEW c \in Rated \cup {None}
    PROVE  Ship!New(c) \in Ship!ShipmentRows /\ Ship!New(c) # None
<1>1. c \in Carriers \cup {None}
  BY ShopAssumption
<1>2. (IF c = None THEN None ELSE [carrier |-> c, multiplier |-> 1]) \in Ship!Costs \cup {None}
  BY <1>1, ShopAssumption DEF Ship!Costs
<1>3. Ship!New(c) \in Ship!ShipmentRows
  BY <1>1, <1>2 DEF Ship!New, Ship!ShipmentRows, Ship!Statuses
<1> QED BY <1>3, ShopAssumption

LEMMA ShipmentsBegin == Ship!Init => SInv
<1> SUFFICES ASSUME Ship!Init
             PROVE  SInv
  OBVIOUS
<1>2. shipment \in [Ship!Ids -> Ship!ShipmentRows \cup {None}]
  BY NewIsRow DEF Ship!Init
<1>3. IsFiniteSet({}) /\ Cardinality({}) = 0
  BY FS_EmptySet
<1>4. /\ invoice = [u \in Ship!Ids |-> None] /\ labels = [u \in Ship!Ids |-> {}]
      /\ users = {} /\ multiplier = [c \in Carriers |-> 1]
      /\ stx = [w \in Workers |-> None] /\ consigned = [u \in Ship!Ids |-> {}]
  BY DEF Ship!Init
<1>5. 1 \in 1 .. MaxMultiplier
  BY ShopAssumption
<1>6. ShipTyped
  BY <1>2, <1>3, <1>4, <1>5 DEF ShipTyped, IsRequest
<1>7. AllGood /\ Accounted
  BY <1>4 DEF AllGood, Accounted
<1>8. Ship!NumbersHaveNoGaps
  <2>1. {v \in Ship!Ids : invoice[v] # None} = {}
    BY <1>4
  <2>2. {invoice[u].number : u \in {v \in Ship!Ids : invoice[v] # None}} = {}
    BY <2>1
  <2>3. Cardinality({v \in Ship!Ids : invoice[v] # None}) = 0 /\ 1 .. 0 = {}
    BY <2>1, <1>3
  <2> QED BY <2>2, <2>3, SameCardinality DEF Ship!NumbersHaveNoGaps
<1>9. Ship!ConsignedOnce
  <2>1. \A u \in Ship!Ids : Cardinality(consigned[u]) = 0
    BY <1>3, <1>4
  <2> QED BY <2>1, SameCardinality DEF Ship!ConsignedOnce
<1> QED BY <1>6, <1>7, <1>8, <1>9 DEF SInv

\* The requests that stay as they are.
LEMMA OthersRemain ==
    ASSUME SInv, ShipTyped', NEW t, IsRequest(t), t # None,
           Good(t, shipment, doubtful, Cardinality(Invoiced(invoice))),
           doubtful \subseteq doubtful', Invoiced(invoice) \subseteq Invoiced(invoice'),
           \A u \in Ship!Ids : shipment[u] # None =>
              /\ shipment'[u] # None
              /\ shipment[u].status = "shipped" => shipment'[u].status = "shipped" \/ u \in doubtful'
    PROVE  Good(t, shipment', doubtful', Cardinality(Invoiced(invoice')))
<1> DEFINE n == Cardinality(Invoiced(invoice))  m == Cardinality(Invoiced(invoice'))
<1>1. n \in Nat /\ m \in Nat
  BY BoxesAreFinite
<1>2. n <= m
  BY BoxesAreFinite, FS_Subset
<1>3. t.unit \in Ship!Ids /\ t.invoices \in Nat
  BY RequestParts
<1>4. Good(t, shipment, doubtful, n)
  OBVIOUS
<1> HIDE DEF n, m
<1>5. shipment[t.unit] # None
  BY <1>4 DEF Good
<1>6. Good(t, shipment', doubtful', m)
  BY <1>1, <1>2, <1>3, <1>4, <1>5, GoodRemains
<1> QED BY <1>6 DEF m

\* A request that begins.
LEMMA BeginKeeps ==
    ASSUME SInv, NEW w \in Workers, NEW kind \in Ship!Kinds, NEW u \in Ship!Ids,
           NEW arg \in Ship!ArgumentsOf(kind), Ship!Begin(w, kind, u, arg),
           shipment[u] # None, kind = "type" => shipment[u].paid # TRUE,
           kind = "invoice" => shipment[u].amount # None,
           kind = "consign" /\ arg # "force" => shipment[u].status # "shipped"
    PROVE  SInv'
<1> DEFINE had == consigned[u] \ {stx[v].number : v \in {x \in Workers : stx[x] # None}}
           n == Cardinality(Invoiced(invoice))
           t == [kind |-> kind, unit |-> u, arg |-> arg, pc |-> "commit", row |-> shipment[u],
                 invoices |-> n, had |-> had, known |-> users, number |-> None]
<1>a. n = Ship!Cardinality({v \in Ship!Ids : invoice[v] # None})
  BY SameCardinality DEF Invoiced
<1> HIDE DEF n
<1>1. stx' = [stx EXCEPT ![w] = t] /\ stx[w] = None
  BY <1>a DEF Ship!Begin
<1>2. UNCHANGED <<shipment, invoice, labels, users, multiplier, consigned, explained, doubtful>>
  BY DEF Ship!Begin, Ship!history
<1>3. /\ had \in SUBSET Nat /\ users \in SUBSET Users /\ n \in Nat
      /\ shipment[u] \in Ship!ShipmentRows
  BY BoxesAreFinite DEF SInv, ShipTyped, n
<1>4. u \notin doubtful /\ shipment[u].status # "shipped" => had = {}
  BY DEF SInv, Accounted, IsShipped, Held
<1>n. n = Cardinality(Invoiced(invoice))
  BY DEF n
<1> HIDE DEF had
<1>5. t \in Ship!RequestsOf(kind) /\ t.kind = kind
  BY <1>3 DEF Ship!RequestsOf
<1>6. IsRequest(t) /\ t # None
  BY <1>5, ShopAssumption DEF IsRequest
<1>8. /\ t.number = None /\ t.kind = kind /\ t.unit = u /\ t.arg = arg /\ t.row = shipment[u]
      /\ t.invoices = n /\ t.had = had
  OBVIOUS
<1> HIDE DEF t
<1>7. Good(t, shipment, doubtful, n)
  <2>1. t.kind = "type" => t.row.paid # TRUE
    BY <1>8
  <2>2. t.kind = "invoice" => t.row.amount # None /\ t.invoices <= n
    BY <1>3, <1>8
  <2>3. t.kind = "consign" /\ t.arg # "force" => t.row.status # "shipped"
    BY <1>8
  <2>4. t.unit \notin doubtful =>
          IF t.row.status = "shipped" THEN shipment[t.unit].status = "shipped" ELSE t.had = {}
    BY <1>4, <1>8
  <2> QED BY <1>8, <2>1, <2>2, <2>3, <2>4 DEF Good
<1>9. ShipTyped'
  BY <1>1, <1>2, <1>6 DEF SInv, ShipTyped
<1>10. AllGood'
  BY <1>1, <1>2, <1>7, <1>n DEF SInv, ShipTyped, AllGood
<1>11. Accounted'
  <2> SUFFICES ASSUME NEW x \in Ship!Ids \ doubtful, NEW c \in consigned[x], ~IsShipped(shipment, x)
               PROVE  Held(stx', x, c)
    BY <1>2 DEF Accounted
  <2>1. PICK v \in Workers : stx[v] # None /\ stx[v].unit = x /\ stx[v].number = c
    BY DEF SInv, Accounted, Held
  <2>2. v # w /\ stx'[v] = stx[v]
    BY <2>1, <1>1 DEF SInv, ShipTyped
  <2> QED BY <2>1, <2>2 DEF Held
<1>12. Ship!NumbersHaveNoGaps' /\ Ship!ConsignedOnce'
  BY <1>2 DEF SInv, Ship!NumbersHaveNoGaps, Ship!ConsignedOnce
<1> QED BY <1>9, <1>10, <1>11, <1>12 DEF SInv

\* What the steps of one request, and those of the application, leave of the
\* requests: a row that is shipped stays so, unless that is noted (doubtful).
Kept ==
    /\ doubtful \subseteq doubtful' /\ Invoiced(invoice) \subseteq Invoiced(invoice')
    /\ \A u \in Ship!Ids : shipment[u] # None =>
          /\ shipment'[u] # None
          /\ shipment[u].status = "shipped" => shipment'[u].status = "shipped" \/ u \in doubtful'

LEMMA GoodStep ==
    ASSUME SInv, ShipTyped', Kept, NEW w \in Workers, NEW r, stx' = [stx EXCEPT ![w] = r],
           r # None => Good(r, shipment', doubtful', Cardinality(Invoiced(invoice')))
    PROVE  AllGood'
<1>1. ASSUME NEW v \in Workers, stx'[v] # None, v # w
      PROVE  Good(stx'[v], shipment', doubtful', Cardinality(Invoiced(invoice')))
  <2>1. stx'[v] = stx[v] /\ IsRequest(stx[v]) /\ stx[v] # None
    BY <1>1 DEF SInv, ShipTyped
  <2>2. Good(stx[v], shipment, doubtful, Cardinality(Invoiced(invoice)))
    BY <2>1 DEF SInv, AllGood
  <2>3. Good(stx[v], shipment', doubtful', Cardinality(Invoiced(invoice')))
    BY <2>1, <2>2, OthersRemain DEF Kept
  <2> QED BY <2>1, <2>3
<1>2. stx'[w] = r
  BY DEF SInv, ShipTyped
<1> QED BY <1>1, <1>2 DEF AllGood

\* What a request held, or has ordered, it holds after its step, or has shipped.
Entrusted(w, r) ==
    \A u \in Ship!Ids \ doubtful' : \A c \in consigned'[u] :
        (c \notin consigned[u] \/ (stx[w] # None /\ stx[w].unit = u /\ stx[w].number = c))
           => IsShipped(shipment', u) \/ (r # None /\ r.unit = u /\ r.number = c)

LEMMA AccountStep ==
    ASSUME SInv, Kept, NEW w \in Workers, NEW r, stx' = [stx EXCEPT ![w] = r],
           Entrusted(w, r)
    PROVE  Accounted'
<1> SUFFICES ASSUME NEW u \in Ship!Ids \ doubtful', NEW c \in consigned'[u], ~IsShipped(shipment', u)
             PROVE  Held(stx', u, c)
  BY DEF Accounted
<1>1. stx'[w] = r /\ \A v \in Workers : v # w => stx'[v] = stx[v]
  BY DEF SInv, ShipTyped
<1>2. ~IsShipped(shipment, u) /\ u \in Ship!Ids \ doubtful
  BY DEF IsShipped, Kept
<1>3. CASE c \notin consigned[u] \/ (stx[w] # None /\ stx[w].unit = u /\ stx[w].number = c)
  BY <1>1, <1>3 DEF Held, Entrusted
<1>4. CASE c \in consigned[u] /\ ~(stx[w] # None /\ stx[w].unit = u /\ stx[w].number = c)
  <2>1. PICK v \in Workers : stx[v] # None /\ stx[v].unit = u /\ stx[v].number = c
    BY <1>2, <1>4 DEF SInv, Accounted, Held
  <2>2. v # w
    BY <2>1, <1>4
  <2> QED BY <2>1, <2>2, <1>1 DEF Held
<1> QED BY <1>3, <1>4

LEMMA NextNumber == SInv => Ship!Issued \in Nat
<1> SUFFICES ASSUME SInv
             PROVE  Ship!Issued \in Nat
  OBVIOUS
<1> DEFINE sets == {consigned[u] : u \in Ship!Ids}
<1>1. IsFiniteSet(sets)
  BY BoxesAreFinite, ImageIsFinite
<1>2. \A T \in sets : IsFiniteSet(T)
  BY DEF SInv, ShipTyped
<1>3. IsFiniteSet(UNION sets)
  BY <1>1, <1>2, FS_UNION
<1>4. Cardinality(UNION sets) \in Nat
  BY <1>3, FS_CardinalityType
<1> QED BY <1>4, SameCardinality DEF Ship!Issued

\* DHL is called: the consignment is in the hands of the request, or its answer is
\* lost and noted so; it is the first of the shipment or one that has a cause.
LEMMA CallKeeps ==
    ASSUME SInv, NEW w \in Workers, Ship!CallCarrier(w)
    PROVE  SInv'
<1> DEFINE t == stx[w]  u == t.unit  k == Ship!Issued
<1>1. /\ t # None /\ Ship!Calls(t)
      /\ consigned' = [consigned EXCEPT ![u] = @ \cup {k}]
      /\ explained' = IF (t.kind = "consign" /\ t.arg = "force") \/ u \in doubtful \/ t.had # consigned[u]
                      THEN explained \cup {u} ELSE explained
      /\ shipment' = shipment /\ invoice' = invoice /\ labels' = labels /\ users' = users
      /\ multiplier' = multiplier
      /\ \/ stx' = [stx EXCEPT ![w].number = k] /\ doubtful' = doubtful
         \/ stx' = [stx EXCEPT ![w].pc = "failed"] /\ doubtful' = doubtful \cup {u}
  BY DEF Ship!CallCarrier
<1>2. k \in Nat /\ k # None
  BY NextNumber, ShopAssumption
<1>3. IsRequest(t) /\ t = stx[w]
  BY DEF SInv, ShipTyped
<1>4. Good(t, shipment, doubtful, Cardinality(Invoiced(invoice)))
  BY <1>1 DEF SInv, AllGood
<1>5. u \in Ship!Ids /\ u = t.unit /\ t \in Ship!RequestsOf(t.kind) /\ t.kind \in Ship!Kinds
  BY <1>1, <1>3, RequestParts
<1>6. t.number = None /\ t.pc = "commit" /\ t.kind \in {"status", "consign"}
      /\ (t.kind = "status" => t.row.status # "shipped")
  BY <1>1 DEF Ship!Calls, Ship!Transition
<1> HIDE DEF t, u, k
<1>7. PICK r : /\ stx' = [stx EXCEPT ![w] = r]
               /\ \/ r = [t EXCEPT !.number = k] /\ doubtful' = doubtful
                  \/ r = [t EXCEPT !.pc = "failed"] /\ doubtful' = doubtful \cup {u}
  BY <1>1, <1>3
<1>8. /\ IsRequest(r) /\ r # None /\ r.unit = u /\ r.kind = t.kind /\ r.row = t.row /\ r.arg = t.arg
      /\ r.had = t.had /\ r.invoices = t.invoices
      /\ \/ r.number = k /\ r.pc = "commit" /\ doubtful' = doubtful
         \/ r.number = None /\ doubtful' = doubtful \cup {u}
  <2>1. [t EXCEPT !.number = k] \in Ship!RequestsOf(t.kind)
    BY <1>2, <1>5 DEF Ship!RequestsOf
  <2>2. [t EXCEPT !.pc = "failed"] \in Ship!RequestsOf(t.kind)
    BY <1>5 DEF Ship!RequestsOf
  <2>3. r \in Ship!RequestsOf(t.kind) /\ r.kind = t.kind
    BY <2>1, <2>2, <1>7 DEF Ship!RequestsOf
  <2>4. IsRequest(r) /\ r # None
    BY <2>3, <1>5, ShopAssumption DEF IsRequest
  <2>5. /\ r.unit = u /\ r.row = t.row /\ r.arg = t.arg /\ r.had = t.had /\ r.invoices = t.invoices
        /\ \/ r.number = k /\ r.pc = "commit" /\ doubtful' = doubtful
           \/ r.number = None /\ doubtful' = doubtful \cup {u}
    BY <1>5, <1>6, <1>7 DEF Ship!RequestsOf
  <2> QED BY <2>3, <2>4, <2>5
<1>9. Kept
  BY <1>1, <1>7 DEF Kept
<1>10. ShipTyped'
  <2>1. /\ shipment' \in [Ship!Ids -> Ship!ShipmentRows \cup {None}]
        /\ invoice' \in [Ship!Ids -> Ship!InvoiceRows \cup {None}]
        /\ labels' \in [Ship!Ids -> SUBSET Nat]
        /\ users' \subseteq Users /\ multiplier' \in [Carriers -> 1 .. MaxMultiplier]
    BY <1>1 DEF SInv, ShipTyped
  <2>2. stx' = [x \in Workers |-> stx'[x]] /\ \A x \in Workers : IsRequest(stx'[x])
    BY <1>7, <1>8 DEF SInv, ShipTyped
  <2>3. consigned' \in [Ship!Ids -> SUBSET Nat]
    BY <1>1, <1>2, <1>5 DEF SInv, ShipTyped
  <2>4. ASSUME NEW x \in Ship!Ids
        PROVE  IsFiniteSet(consigned'[x])
    <3>1. IsFiniteSet(consigned[x]) /\ IsFiniteSet(consigned[x] \cup {k})
      BY FS_AddElement DEF SInv, ShipTyped
    <3>2. consigned'[x] = consigned[x] \/ consigned'[x] = consigned[x] \cup {k}
      BY <1>1 DEF SInv, ShipTyped
    <3> QED BY <3>1, <3>2
  <2> QED BY <2>1, <2>2, <2>3, <2>4 DEF ShipTyped
<1>11. AllGood'
  <2>1. Good(r, shipment', doubtful', Cardinality(Invoiced(invoice')))
    BY <1>1, <1>4, <1>5, <1>6, <1>8 DEF Good
  <2> QED BY <2>1, <1>7, <1>9, <1>10, GoodStep
<1>12. Accounted'
  <2>1. ASSUME NEW x \in Ship!Ids \ doubtful', NEW c \in consigned'[x],
               c \notin consigned[x] \/ (stx[w] # None /\ stx[w].unit = x /\ stx[w].number = c)
        PROVE  r # None /\ r.unit = x /\ r.number = c
    <3>1. consigned \in [Ship!Ids -> SUBSET Nat]
      BY DEF SInv, ShipTyped
    <3>2. c \in Nat
      BY <1>10 DEF ShipTyped
    <3>3. stx[w].number # c
      BY <3>2, <1>3, <1>6, ShopAssumption
    <3>4. x = u /\ c = k
      BY <2>1, <3>1, <3>3, <1>1
    <3> QED BY <3>4, <1>8
  <2>2. Entrusted(w, r)
    BY <2>1 DEF Entrusted
  <2> QED BY <2>2, <1>7, <1>9, AccountStep
<1>13. Ship!NumbersHaveNoGaps'
  BY <1>1 DEF SInv, Ship!NumbersHaveNoGaps
<1>14. Ship!ConsignedOnce'
  <2> SUFFICES ASSUME NEW x \in Ship!Ids \ explained'
               PROVE  Cardinality(consigned'[x]) <= 1
    BY SameCardinality DEF Ship!ConsignedOnce
  <2>1. x \notin explained
    BY <1>1
  <2>2. CASE x # u
    <3>1. consigned'[x] = consigned[x]
      BY <2>2, <1>1 DEF SInv, ShipTyped
    <3>2. Cardinality(consigned[x]) <= 1
      BY <2>1, SameCardinality DEF SInv, Ship!ConsignedOnce
    <3> QED BY <3>1, <3>2
  <2>3. CASE x = u
    <3>1. ~(t.kind = "consign" /\ t.arg = "force") /\ u \notin doubtful /\ t.had = consigned[u]
      BY <2>3, <1>1
    <3>2. t.row.status # "shipped"
      BY <3>1, <1>4, <1>6 DEF Good
    <3>3. consigned[u] = {}
      BY <3>1, <3>2, <1>4, <1>5 DEF Good
    <3>4. consigned'[u] = {k}
      BY <3>3, <1>1, <1>5 DEF SInv, ShipTyped
    <3>5. Cardinality({k}) = 1
      BY FS_Singleton
    <3> QED BY <2>3, <3>4, <3>5
  <2> QED BY <2>2, <2>3
<1> QED BY <1>10, <1>11, <1>12, <1>13, <1>14 DEF SInv

\* A request that ends without writing, or goes on without its answer: it holds no
\* consignment, or loses it and that is noted.
LEMMA EndKeeps ==
    ASSUME SInv, NEW w \in Workers, stx[w] # None, NEW r,
           stx' = [stx EXCEPT ![w] = r], r = None \/ r = [stx[w] EXCEPT !.pc = "failed"],
           r # None => stx[w].number = None,
           shipment' = shipment, invoice' = invoice, labels' = labels, users' = users,
           multiplier' = multiplier, consigned' = consigned, explained' = explained,
           doubtful \subseteq doubtful',
           stx[w].number # None => stx[w].unit \in doubtful'
    PROVE  SInv'
<1> DEFINE t == stx[w]
<1>1. IsRequest(t) /\ t = stx[w] /\ t # None
  BY DEF SInv, ShipTyped
<1>2. t \in Ship!RequestsOf(t.kind) /\ t.kind \in Ship!Kinds /\ t.unit \in Ship!Ids
  BY <1>1, RequestParts
<1>3. Good(t, shipment, doubtful, Cardinality(Invoiced(invoice)))
  BY DEF SInv, AllGood
<1> HIDE DEF t
<1>4. Kept
  BY DEF Kept
<1>5. IsRequest(r)
  <2>1. CASE r = None
    BY <2>1 DEF IsRequest
  <2>2. CASE r = [t EXCEPT !.pc = "failed"]
    <3>1. [t EXCEPT !.pc = "failed"] \in Ship!RequestsOf(t.kind) /\ [t EXCEPT !.pc = "failed"].kind = t.kind
      BY <1>2 DEF Ship!RequestsOf
    <3> QED BY <2>2, <3>1, <1>2 DEF IsRequest
  <2> QED BY <2>1, <2>2, <1>1
<1>6. stx' = [x \in Workers |-> stx'[x]] /\ \A x \in Workers : IsRequest(stx'[x])
  BY <1>5 DEF SInv, ShipTyped
<1>7. ShipTyped'
  BY <1>6 DEF SInv, ShipTyped
<1>8. ASSUME r # None
      PROVE  Good(r, shipment', doubtful', Cardinality(Invoiced(invoice')))
  <2>1. r = [t EXCEPT !.pc = "failed"] /\ t.number = None
    BY <1>8, <1>1
  <2>2. /\ r.unit = t.unit /\ r.kind = t.kind /\ r.row = t.row /\ r.arg = t.arg /\ r.had = t.had
        /\ r.number = None /\ r.invoices = t.invoices
    BY <2>1, <1>2 DEF Ship!RequestsOf
  <2>3. Good(r, shipment, doubtful, Cardinality(Invoiced(invoice)))
    BY <2>1, <2>2, <1>3 DEF Good
  <2>4. Good(r, shipment', doubtful', Cardinality(Invoiced(invoice')))
    BY <2>3, <1>8, <1>4, <1>5, <1>7, OthersRemain DEF Kept
  <2> QED BY <2>4
<1>9. AllGood'
  BY <1>4, <1>7, <1>8, GoodStep
<1>10. Entrusted(w, r)
  <2> SUFFICES ASSUME NEW u \in Ship!Ids \ doubtful', NEW c \in consigned'[u],
                      t.unit = u, t.number = c
               PROVE  FALSE
    BY <1>1 DEF Entrusted
  <2>1. c \in Nat
    BY DEF SInv, ShipTyped
  <2>2. t.number # None
    BY <2>1, ShopAssumption
  <2> QED BY <2>2, <1>1
<1>11. Accounted'
  BY <1>4, <1>10, AccountStep
<1>12. Ship!NumbersHaveNoGaps' /\ Ship!ConsignedOnce'
  BY DEF SInv, Ship!NumbersHaveNoGaps, Ship!ConsignedOnce
<1> QED BY <1>7, <1>9, <1>11, <1>12 DEF SInv

\* The steps that leave the requests and what DHL has made.
LEMMA QuietKeeps ==
    ASSUME SInv, ShipTyped', Kept,
           UNCHANGED <<stx, invoice, consigned, explained, doubtful>>
    PROVE  SInv'
<1>1. AllGood'
  <2> SUFFICES ASSUME NEW v \in Workers, stx[v] # None
               PROVE  Good(stx[v], shipment', doubtful', Cardinality(Invoiced(invoice')))
    BY DEF AllGood
  <2>1. IsRequest(stx[v]) /\ Good(stx[v], shipment, doubtful, Cardinality(Invoiced(invoice)))
    BY DEF SInv, ShipTyped, AllGood
  <2> QED BY <2>1, OthersRemain DEF Kept
<1>2. \A u \in Ship!Ids \ doubtful : IsShipped(shipment, u) => IsShipped(shipment', u)
  BY DEF Kept, IsShipped
<1>3. Accounted'
  BY <1>2 DEF SInv, Accounted
<1>4. Ship!NumbersHaveNoGaps' /\ Ship!ConsignedOnce'
  BY DEF SInv, Ship!NumbersHaveNoGaps, Ship!ConsignedOnce
<1> QED BY <1>1, <1>3, <1>4 DEF SInv

\* The application's steps add shipments, at most.
LEMMA AppKeeps ==
    ASSUME SInv, Ship!App
    PROVE  SInv'
<1>1. CASE UNCHANGED Ship!service /\ UNCHANGED Ship!history
  <2>1. UNCHANGED <<shipment, invoice, labels, users, multiplier, stx, consigned, explained, doubtful>>
    BY <1>1 DEF Ship!service, Ship!history
  <2>2. ShipTyped' /\ Kept
    BY <2>1 DEF SInv, ShipTyped, Kept
  <2> QED BY <2>1, <2>2, QuietKeeps
<1>2. CASE Ship!create_shipment
  <2>1. PICK m \in net :
           /\ shipment' = IF Ship!MayCreate(m[1]) THEN [shipment EXCEPT ![m[1]] = Ship!New(None)] ELSE shipment
           /\ UNCHANGED <<invoice, labels, users, multiplier, stx, requests, order, faults, Ship!history>>
    BY <1>2 DEF Ship!create_shipment
  <2>2. UNCHANGED <<invoice, labels, users, multiplier, stx, consigned, explained, doubtful>>
    BY <2>1 DEF Ship!history
  <2>3. Ship!New(None) \in Ship!ShipmentRows
    BY DEF Ship!New, Ship!ShipmentRows, Ship!Statuses
  <2>4. shipment' \in [Ship!Ids -> Ship!ShipmentRows \cup {None}]
        /\ \A u \in Ship!Ids : shipment[u] # None => shipment'[u] = shipment[u]
    BY <2>1, <2>3 DEF SInv, ShipTyped, Ship!MayCreate
  <2>5. ShipTyped' /\ Kept
    BY <2>2, <2>4 DEF SInv, ShipTyped, Kept
  <2> QED BY <2>2, <2>5, QuietKeeps
<1> QED BY <1>1, <1>2 DEF Ship!App, Ship!StartShipping, Ship!PostShipment, Ship!ReadAnswer,
        Ship!PostTimesOut, Ship!CommitShipping, Ship!RollbackShipping

\* The invoice that is made has the number after those there are: the requests that
\* counted before another was made find their number taken.
LEMMA NumbersStep ==
    ASSUME SInv, ShipTyped', NEW u \in Ship!Ids, invoice[u] = None, NEW n \in Nat,
           n <= Cardinality(Invoiced(invoice)),
           NEW row \in Ship!InvoiceRows, row.number = n + 1,
           \A v \in Ship!Ids : invoice[v] # None => invoice[v].number # n + 1,
           invoice' = [invoice EXCEPT ![u] = row]
    PROVE  Ship!NumbersHaveNoGaps'
<1> DEFINE I == Invoiced(invoice)  J == Invoiced(invoice')  k == Cardinality(I)
           numbers == {invoice[v].number : v \in I}
<1>1. IsFiniteSet(I) /\ k \in Nat
  BY BoxesAreFinite
<1>2. numbers = 1 .. k
  <2>1. I = {v \in Ship!Ids : invoice[v] # None}
    BY DEF Invoiced
  <2> QED BY <2>1, SameCardinality DEF SInv, Ship!NumbersHaveNoGaps
<1>3. row # None
  BY ShopAssumption
<1>4. u \notin I /\ J = I \cup {u}
  BY <1>3 DEF Invoiced, SInv, ShipTyped
<1>5. Cardinality(J) = k + 1
  BY <1>1, <1>4, FS_AddElement
<1>6. n + 1 \notin numbers
  BY DEF Invoiced
<1> HIDE DEF k, numbers
<1>7. n = k
  BY <1>1, <1>2, <1>6 DEF k
<1>8. {invoice'[v].number : v \in J} = numbers \cup {k + 1}
  <2>1. invoice'[u].number = k + 1 /\ \A v \in I : invoice'[v] = invoice[v]
    BY <1>4, <1>7 DEF SInv, ShipTyped, Invoiced
  <2>2. \A v \in J : v = u \/ v \in I
    BY <1>4
  <2>3. u \in J /\ I \subseteq J
    BY <1>4
  <2> HIDE DEF I, J
  <2> QED BY <2>1, <2>2, <2>3 DEF numbers
<1>9. numbers \cup {k + 1} = 1 .. k + 1
  BY <1>1, <1>2
<1>10. {invoice'[v].number : v \in J} = 1 .. Cardinality(J)
  BY <1>5, <1>8, <1>9
<1>11. J = {v \in Ship!Ids : invoice'[v] # None}
  BY DEF Invoiced
<1> HIDE DEF J
<1> QED BY <1>10, <1>11, SameCardinality DEF Ship!NumbersHaveNoGaps

\* A request commits: what it held is shipped, or was taken back from "shipped".
LEMMA CommitKeeps ==
    ASSUME SInv, NEW w \in Workers, Ship!Commit(w)
    PROVE  SInv'
<1> DEFINE t == stx[w]  u == t.unit  new == Ship!Written(t)
           bill == [number |-> t.invoices + 1, amount |-> t.row.amount]
<1>1. /\ t # None /\ ~Ship!Duplicate(t) /\ stx' = [stx EXCEPT ![w] = None]
      /\ shipment' = [shipment EXCEPT ![u] = new]
      /\ invoice' = IF t.kind # "invoice" THEN invoice ELSE [invoice EXCEPT ![u] = bill]
      /\ users' = IF t.kind = "get" THEN users \cup {t.arg} ELSE users
      /\ doubtful' = IF shipment[u].status = "shipped" /\ new.status # "shipped"
                     THEN doubtful \cup {u} ELSE doubtful
      /\ UNCHANGED <<multiplier, consigned, explained>>
  BY DEF Ship!Commit, Ship!next_invoice_number
<1>2. \/ labels' = labels
      \/ labels' = [labels EXCEPT ![u] = CASE t.number # None -> @ \cup {t.number}
                                            [] t.kind = "upload" -> @ \cup {0}
                                            [] t.kind = "delete" -> @ \ {t.arg}
                                            [] OTHER -> @]
  BY DEF Ship!Commit
<1>3. IsRequest(t) /\ t = stx[w] /\ u = t.unit
  BY DEF SInv, ShipTyped
<1>4. /\ u \in Ship!Ids /\ t.row \in Ship!ShipmentRows /\ t.invoices \in Nat
      /\ t.kind \in Ship!Kinds /\ t.arg \in Ship!ArgumentsOf(t.kind) /\ t.number \in Nat \cup {None}
  BY <1>1, <1>3, RequestParts
<1>5. Good(t, shipment, doubtful, Cardinality(Invoiced(invoice)))
  BY <1>1 DEF SInv, AllGood
<1>6. shipment[u] # None /\ (t.number # None => t.kind \in {"status", "consign"})
  BY <1>5 DEF Good
<1>7. /\ new \in Ship!ShipmentRows /\ new # None
      /\ t.number # None =>
            new.status = IF t.row.status = "shipped" THEN shipment[u].status ELSE "shipped"
  BY <1>1, <1>3, <1>6, WrittenRow, ShopAssumption DEF SInv
<1>8. t.kind = "invoice" =>
         /\ t.row.amount # None /\ t.invoices <= Cardinality(Invoiced(invoice)) /\ invoice[u] = None
         /\ \A v \in Ship!Ids : invoice[v] # None => invoice[v].number # t.invoices + 1
  BY <1>1, <1>4, <1>5 DEF Good, Ship!Duplicate, Ship!next_invoice_number
<1>b. /\ t.kind = "invoice" => bill \in Ship!InvoiceRows /\ bill # None
      /\ bill.number = t.invoices + 1
  <2>1. t.row.amount \in Ship!Costs \cup {None}
    BY <1>4 DEF Ship!ShipmentRows
  <2>2. t.kind = "invoice" => bill \in Ship!InvoiceRows
    BY <2>1, <1>4, <1>8 DEF Ship!InvoiceRows
  <2> QED BY <2>2, ShopAssumption
<1> HIDE DEF t, u, new, bill
<1>9. Kept
  <2>1. doubtful \subseteq doubtful'
    BY <1>1
  <2>2. Invoiced(invoice) \subseteq Invoiced(invoice')
    BY <1>1, <1>b DEF Invoiced, SInv, ShipTyped
  <2>3. ASSUME NEW x \in Ship!Ids, shipment[x] # None
        PROVE  /\ shipment'[x] # None
               /\ shipment[x].status = "shipped" => shipment'[x].status = "shipped" \/ x \in doubtful'
    BY <1>1, <1>7, <2>3 DEF SInv, ShipTyped
  <2> QED BY <2>1, <2>2, <2>3 DEF Kept
<1>10. ShipTyped'
  <2>1. shipment' \in [Ship!Ids -> Ship!ShipmentRows \cup {None}]
    BY <1>1, <1>7 DEF SInv, ShipTyped
  <2>2. invoice' \in [Ship!Ids -> Ship!InvoiceRows \cup {None}]
    BY <1>1, <1>b DEF SInv, ShipTyped
  <2>3. labels' \in [Ship!Ids -> SUBSET Nat]
    <3>1. labels \in [Ship!Ids -> SUBSET Nat]
      BY DEF SInv, ShipTyped
    <3>2. t.number # None => t.number \in Nat
      BY <1>4
    <3> DEFINE now == CASE t.number # None -> labels[u] \cup {t.number}
                        [] t.kind = "upload" -> labels[u] \cup {0}
                        [] t.kind = "delete" -> labels[u] \ {t.arg}
                        [] OTHER -> labels[u]
    <3>3. now \in SUBSET Nat
      BY <3>1, <3>2, <1>4, <1>6
    <3>4. labels' = labels \/ labels' = [labels EXCEPT ![u] = now]
      BY <1>2
    <3> QED BY <3>1, <3>3, <3>4, <1>4
  <2>4. users' \subseteq Users
    <3>1. t.kind = "get" => t.arg \in Users
      BY <1>4 DEF Ship!ArgumentsOf
    <3> QED BY <3>1, <1>1 DEF SInv, ShipTyped
  <2>5. stx' = [x \in Workers |-> stx'[x]] /\ \A x \in Workers : IsRequest(stx'[x])
    BY <1>1 DEF SInv, ShipTyped, IsRequest
  <2> QED BY <2>1, <2>2, <2>3, <2>4, <2>5, <1>1 DEF SInv, ShipTyped
<1>11. AllGood'
  BY <1>1, <1>9, <1>10, GoodStep
<1>12. Entrusted(w, None)
  <2> SUFFICES ASSUME NEW x \in Ship!Ids \ doubtful', NEW c \in consigned'[x], t.unit = x, t.number = c
               PROVE  IsShipped(shipment', x)
    BY <1>1, <1>3 DEF Entrusted
  <2>1. c \in Nat
    BY <1>10 DEF ShipTyped
  <2>2. t.number # None /\ x = u
    BY <2>1, <1>3, ShopAssumption
  <2>3. u \notin doubtful
    BY <2>2, <1>9 DEF Kept
  <2>4. t.row.status = "shipped" => shipment[u].status = "shipped"
    BY <2>3, <1>3, <1>5 DEF Good
  <2>5. new.status = "shipped"
    BY <2>2, <2>4, <1>7
  <2>6. shipment'[u] = new
    BY <1>1, <1>4 DEF SInv, ShipTyped
  <2> QED BY <2>2, <2>5, <2>6, <1>7 DEF IsShipped
<1>13. Accounted'
  BY <1>1, <1>9, <1>12, AccountStep
<1>14. Ship!NumbersHaveNoGaps'
  <2>1. CASE t.kind # "invoice"
    BY <2>1, <1>1 DEF SInv, Ship!NumbersHaveNoGaps
  <2>2. CASE t.kind = "invoice"
    <3>1. invoice' = [invoice EXCEPT ![u] = bill]
      BY <2>2, <1>1
    <3> QED BY <2>2, <3>1, <1>4, <1>8, <1>b, <1>10, NumbersStep
  <2> QED BY <2>1, <2>2
<1>15. Ship!ConsignedOnce'
  BY <1>1 DEF SInv, Ship!ConsignedOnce
<1> QED BY <1>10, <1>11, <1>13, <1>14, <1>15 DEF SInv

LEMMA ShipmentsKeep ==
    ASSUME SInv, [Ship!Next]_(Ship!vars)
    PROVE  SInv'
<1>1. ASSUME UNCHANGED <<shipment, invoice, labels, users, multiplier, stx, consigned, explained, doubtful>>
      PROVE  SInv'
  <2>1. ShipTyped' /\ Kept
    BY <1>1 DEF SInv, ShipTyped, Kept
  <2> QED BY <1>1, <2>1, QuietKeeps
<1>2. CASE UNCHANGED Ship!vars
  BY <1>1, <1>2 DEF Ship!vars, Ship!service, Ship!history
<1>3. CASE Ship!App
  BY <1>3, AppKeeps
<1>4. CASE Ship!update_multiplier
  <2>1. PICK c \in Carriers, m \in 1 .. MaxMultiplier :
           multiplier' = [multiplier EXCEPT ![c] = m]
    BY <1>4 DEF Ship!update_multiplier
  <2>2. UNCHANGED <<shipment, invoice, labels, users, stx, consigned, explained, doubtful>>
    BY <1>4 DEF Ship!update_multiplier, Ship!history
  <2>3. ShipTyped' /\ Kept
    BY <2>1, <2>2 DEF SInv, ShipTyped, Kept
  <2> QED BY <2>2, <2>3, QuietKeeps
<1>5. ASSUME NEW w \in Workers,
             \/ Ship!BeginSetType(w) \/ Ship!BeginInvoice(w) \/ Ship!BeginPaid(w)
             \/ Ship!BeginTracking(w) \/ Ship!BeginUpload(w) \/ Ship!BeginDelete(w)
             \/ Ship!BeginGet(w) \/ Ship!BeginStatus(w) \/ Ship!BeginConsign(w)
      PROVE  SInv'
  <2> USE DEF Ship!Created, Ship!Kinds, Ship!ArgumentsOf
  <2>1. CASE Ship!BeginSetType(w)
    BY <2>1, BeginKeeps DEF Ship!BeginSetType, Ship!MayChangeType
  <2>2. CASE Ship!BeginInvoice(w)
    BY <2>2, BeginKeeps DEF Ship!BeginInvoice
  <2>3. CASE Ship!BeginPaid(w)
    BY <2>3, BeginKeeps DEF Ship!BeginPaid
  <2>4. CASE Ship!BeginTracking(w)
    BY <2>4, BeginKeeps DEF Ship!BeginTracking
  <2>5. CASE Ship!BeginUpload(w)
    BY <2>5, BeginKeeps DEF Ship!BeginUpload
  <2>6. CASE Ship!BeginDelete(w)
    <3>1. PICK u \in Ship!Ids : shipment[u] # None /\ \E l \in labels[u] : Ship!Begin(w, "delete", u, l)
      BY <2>6 DEF Ship!BeginDelete
    <3>2. labels[u] \subseteq Nat
      BY DEF SInv, ShipTyped
    <3> QED BY <3>1, <3>2, BeginKeeps
  <2>7. CASE Ship!BeginGet(w)
    BY <2>7, BeginKeeps DEF Ship!BeginGet
  <2>8. CASE Ship!BeginStatus(w)
    BY <2>8, BeginKeeps DEF Ship!BeginStatus
  <2>9. CASE Ship!BeginConsign(w)
    BY <2>9, BeginKeeps DEF Ship!BeginConsign
  <2> QED BY <1>5, <2>1, <2>2, <2>3, <2>4, <2>5, <2>6, <2>7, <2>8, <2>9
<1>6. ASSUME NEW w \in Workers, Ship!CallCarrier(w)
      PROVE  SInv'
  BY <1>6, CallKeeps
<1>7. ASSUME NEW w \in Workers, Ship!Commit(w)
      PROVE  SInv'
  BY <1>7, CommitKeeps
<1>8. ASSUME NEW w \in Workers, Ship!CarrierFails(w)
      PROVE  SInv'
  <2>1. stx' = [stx EXCEPT ![w] = [stx[w] EXCEPT !.pc = "failed"]]
    BY <1>8 DEF Ship!CarrierFails
  <2>2. stx[w] # None /\ stx[w].number = None
        /\ UNCHANGED <<shipment, invoice, labels, users, multiplier, consigned, explained, doubtful>>
    BY <1>8 DEF Ship!CarrierFails, Ship!Calls, Ship!history
  <2> QED BY <2>1, <2>2, EndKeeps
<1>9. ASSUME NEW w \in Workers, Ship!Refused(w)
      PROVE  SInv'
  <2>1. stx' = [stx EXCEPT ![w] = None] /\ stx[w] # None
        /\ UNCHANGED <<shipment, invoice, labels, users, multiplier, consigned, explained, doubtful>>
    BY <1>9 DEF Ship!Refused, Ship!history
  <2>2. Good(stx[w], shipment, doubtful, Cardinality(Invoiced(invoice)))
    BY <2>1 DEF SInv, AllGood
  <2>3. stx[w].number = None
    BY <2>2, <1>9 DEF Good, Ship!Refused, Ship!Duplicate
  <2> QED BY <2>1, <2>3, EndKeeps
<1>10. ASSUME NEW w \in Workers, Ship!Crash(w)
       PROVE  SInv'
  <2>1. stx' = [stx EXCEPT ![w] = None] /\ stx[w] # None
        /\ UNCHANGED <<shipment, invoice, labels, users, multiplier, consigned, explained>>
        /\ doubtful' = IF stx[w].number # None THEN doubtful \cup {stx[w].unit} ELSE doubtful
    BY <1>10 DEF Ship!Crash
  <2> QED BY <2>1, EndKeeps
<1> QED BY <1>2, <1>3, <1>4, <1>5, <1>6, <1>7, <1>8, <1>9, <1>10 DEF Ship!Next, Ship!Service

\* The numbers of the invoices have neither gaps nor doubles, however many requests
\* count them at once (_next_invoice_number): a request that counted before another
\* invoice was made finds its number taken.
THEOREM NumbersAreKept == ShopSpec => []NumbersHaveNoGaps
<1>1. ShopInit => SInv
  BY ShipmentsBegin DEF ShopInit
<1>2. SInv /\ [ShopNext]_shopvars => SInv'
  BY StepOfPart, ShipmentsKeep
<1>3. SInv => NumbersHaveNoGaps
  BY DEF SInv, NumbersHaveNoGaps
<1> QED BY <1>1, <1>2, <1>3, PTL DEF ShopSpec

\* DHL gets a second order for a shipment only when an administrator forced it, the
\* shipment had left "shipped", an answer was lost, or two requests ran at once
\* (create_consignment, the status change).
THEOREM SecondHasACause == ShopSpec => []ConsignedOnce
<1>1. ShopInit => SInv
  BY ShipmentsBegin DEF ShopInit
<1>2. SInv /\ [ShopNext]_shopvars => SInv'
  BY StepOfPart, ShipmentsKeep
<1>3. SInv => ConsignedOnce
  BY DEF SInv, ConsignedOnce
<1> QED BY <1>1, <1>2, <1>3, PTL DEF ShopSpec

\* The price of a paid shipment changes at the commit of a request that had loaded
\* it unpaid, and at no other (set_shipment_type).
LEMMA PriceChanges ==
    ASSUME SInv, [Ship!Next]_(Ship!vars), NEW u \in Ship!Ids,
           shipment[u] # None, shipment[u].paid, shipment'[u].amount # shipment[u].amount
    PROVE  \E w \in Workers : stx[w] # None /\ stx[w].kind = "type" /\ stx[w].unit = u /\ ~stx[w].row.paid
<1>1. shipment' # shipment
  OBVIOUS
<1>2. CASE Ship!create_shipment
  <2>1. PICK m \in net :
           shipment' = IF Ship!MayCreate(m[1]) THEN [shipment EXCEPT ![m[1]] = Ship!New(None)] ELSE shipment
    BY <1>2 DEF Ship!create_shipment
  <2> QED BY <2>1 DEF SInv, ShipTyped, Ship!MayCreate
<1>3. CASE \E w \in Workers : Ship!Commit(w)
  <2>1. PICK w \in Workers : Ship!Commit(w)
    BY <1>3
  <2> DEFINE t == stx[w]
  <2>2. t # None /\ shipment' = [shipment EXCEPT ![t.unit] = Ship!Written(t)]
    BY <2>1 DEF Ship!Commit
  <2>3. IsRequest(t) /\ Good(t, shipment, doubtful, Cardinality(Invoiced(invoice)))
    BY <2>2 DEF SInv, ShipTyped, AllGood
  <2>4. shipment[t.unit] # None /\ (t.number # None => t.kind \in {"status", "consign"})
        /\ (t.kind = "type" => t.row.paid # TRUE)
    BY <2>3 DEF Good
  <2>5. t.row \in Ship!ShipmentRows
    BY <2>2, <2>3, RequestParts
  <2>6. t.row.paid \in BOOLEAN
    BY <2>5 DEF Ship!ShipmentRows
  <2> HIDE DEF t
  <2>7. t.unit = u
    BY <2>2 DEF SInv, ShipTyped
  <2>8. t.kind = "type"
    <3>1. shipment'[u] = Ship!Written(t)
      BY <2>2, <2>7 DEF SInv, ShipTyped
    <3> QED BY <2>2, <2>3, <2>4, <2>7, <3>1, WrittenRow DEF SInv
  <2> QED BY <2>2, <2>4, <2>6, <2>7, <2>8 DEF t
<1>4. CASE UNCHANGED shipment
  BY <1>1, <1>4
<1>5. \/ UNCHANGED shipment \/ Ship!create_shipment \/ \E w \in Workers : Ship!Commit(w)
  BY DEF Ship!Next, Ship!App, Ship!Service, Ship!vars, Ship!service, Ship!StartShipping,
     Ship!PostShipment, Ship!ReadAnswer, Ship!PostTimesOut, Ship!CommitShipping,
     Ship!RollbackShipping, Ship!update_multiplier, Ship!BeginSetType, Ship!BeginInvoice,
     Ship!BeginPaid, Ship!BeginTracking, Ship!BeginUpload, Ship!BeginDelete, Ship!BeginGet,
     Ship!BeginStatus, Ship!BeginConsign, Ship!Begin, Ship!CallCarrier, Ship!CarrierFails,
     Ship!Refused, Ship!Crash
<1> QED BY <1>2, <1>3, <1>4, <1>5

\* What a paid shipment costs never changes, except by a request that had begun
\* before the payment was noted (set_shipment_type).
THEOREM PaidStays == ShopSpec => PaidIsFinal
<1>1. ShopInit => SInv
  BY ShipmentsBegin DEF ShopInit
<1>2. SInv /\ [ShopNext]_shopvars => SInv'
  BY StepOfPart, ShipmentsKeep
<1>3. SInv /\ [ShopNext]_shopvars =>
        [\A u \in Ship!Ids :
            shipment[u] # None /\ shipment[u].paid /\ shipment'[u].amount # shipment[u].amount =>
              \E w \in Workers : stx[w] # None /\ stx[w].kind = "type" /\ stx[w].unit = u
                                 /\ ~stx[w].row.paid]_(Ship!vars)
  BY StepOfPart, PriceChanges
<1> QED BY <1>1, <1>2, <1>3, PTL DEF ShopSpec, PaidIsFinal, Ship!PaidIsFinal

-----------------------------------------------------------------------------
(* The application ships an order.                                           *)

\* Where the application is in the boxes: at the n-th, or behind the last.
Left(n) == SubSeq(Units, n, Len(Units))
AtBox(n) == client.left = Left(n) /\ (client.store = TRUE <=> n = 1)
Links == {Units[1], None}

\* While it ships it goes through the boxes in their order, and keeps a link for
\* the first alone.
Shipping ==
    /\ client.pc \in {"idle", "post", "wait", "answer"}
    /\ client = [pc |-> client.pc, left |-> client.left, store |-> client.store,
                 url |-> client.url, answer |-> client.answer]
    /\ order = [shipped |-> order.shipped, url |-> order.url, attempts |-> order.attempts,
                 valid |-> order.valid]
    /\ order.url \in Links
    /\ client.pc # "idle" =>
          /\ client.url \in Links
          /\ \E n \in 1 .. Len(Units) + 1 : AtBox(n) /\ (client.pc # "post" => n <= Len(Units))

\* The boxes from the n-th on.
Rest(n) == {Units[i] : i \in n .. Len(Units)}
Asked(n) == {<<Units[n], 1>>}

\* Until a fault, and of an order whose data the service takes, the first attempt has a shipment for each box it is past, its
\* request alone is on the way, and the answer to it is that it was created.
FirstTry ==
    \/ order.shipped = TRUE /\ client.pc = "idle" /\ net = {} /\ order.url = Units[1] /\ Ship!Created = Ship!Ids
    \/ order.shipped = FALSE /\ client.pc = "idle" /\ net = {} /\ order.attempts = 0 /\ Ship!Created = {}
    \/ /\ order.shipped = FALSE /\ order.attempts = 1 /\ client.pc # "idle"
       /\ \E n \in 1 .. Len(Units) + 1 :
             /\ AtBox(n) /\ (client.pc # "post" => n <= Len(Units))
             /\ client.pc = "answer" => client.answer = "created"
             /\ net = IF client.pc = "wait" THEN Asked(n) ELSE {}
             /\ Ship!Created = Ship!Ids \ Rest(IF client.pc = "answer" THEN n + 1 ELSE n)
             /\ n # 1 => client.url = Units[1]

AnnInv == SInv /\ Shipping /\ faults \in Nat /\ (faults = 0 /\ order.valid => FirstTry)

\* What is left of the boxes.
LEMMA LeftIs ==
    /\ Len(Units) \in Nat \ {0} /\ Left(1) = Units
    /\ \A n \in 1 .. Len(Units) + 1 :
          /\ Left(n) = <<>> <=> n = Len(Units) + 1
          /\ n <= Len(Units) => /\ n + 1 \in 1 .. Len(Units) + 1
                                /\ Head(Left(n)) = Units[n] /\ Units[n] \in Ship!Ids
                                /\ Tail(Left(n)) = Left(n + 1)
<1>1. /\ Units \in Seq(Ship!Ids) /\ Len(Units) \in Nat /\ Len(Units) # 0
      /\ \A i \in 1 .. Len(Units) : Units[i] \in Ship!Ids
  BY ShopAssumption, LenProperties, ElementOfSeq, EmptySeq
<1> DEFINE L == Len(Units)
<1>2. L \in Nat /\ L # 0 /\ L = Len(Units)
  BY <1>1
<1> HIDE DEF L
<1>3. Left(1) = Units
  BY <1>1, SubSeqFull DEF Left
<1>4. Left(L + 1) = <<>>
  BY <1>2, SubSeqEmpty DEF Left
<1>5. ASSUME NEW n \in 1 .. L
      PROVE  Left(n) # <<>>
  <2>1. n \in Int /\ L \in Int /\ (\A i \in n .. L : Units[i] \in Ship!Ids) /\ n <= L
    BY <1>1, <1>2
  <2>2. Len(Left(n)) = L - n + 1
    BY <2>1, <1>2, SubSeqProperties DEF Left
  <2>3. L - n + 1 # 0
    BY <1>2
  <2> QED BY <2>2, <2>3, EmptySeq
<1>6. ASSUME NEW n \in 1 .. L
      PROVE  /\ n + 1 \in 1 .. L + 1 /\ Units[n] \in Ship!Ids
             /\ Head(Left(n)) = Units[n] /\ Tail(Left(n)) = Left(n + 1)
  <2>1. L \in n .. L /\ n \in 1 .. Len(Units) /\ L \in n .. Len(Units)
    BY <1>2
  <2>2. Head(Left(n)) = Units[n] /\ Tail(Left(n)) = Left(n + 1)
    BY <2>1, <1>1, <1>2, HeadTailOfSubSeq DEF Left
  <2> QED BY <2>2, <1>1, <1>2
<1>7. \A n \in 1 .. L + 1 : n <= L <=> n \in 1 .. L
  BY <1>2
<1>8. \A n \in 1 .. L + 1 : n = L + 1 \/ n \in 1 .. L
  BY <1>2
<1>9. \A n \in 1 .. L : n # L + 1
  BY <1>2
<1> QED BY <1>1, <1>2, <1>3, <1>4, <1>5, <1>6, <1>7, <1>8, <1>9

\* The boxes are told apart: with the n-th the rest of them is that from the next.
LEMMA RestIs ==
    /\ Rest(1) = Ship!Ids /\ Rest(Len(Units) + 1) = {}
    /\ \A n \in 1 .. Len(Units) : /\ Units[n] \in Rest(n)
                                  /\ Ship!Ids \ Rest(n + 1) = (Ship!Ids \ Rest(n)) \cup {Units[n]}
<1>1. /\ Len(Units) \in Nat /\ DOMAIN Units = 1 .. Len(Units)
      /\ \A i, j \in 1 .. Len(Units) : Units[i] = Units[j] => i = j
  BY ShopAssumption, LenProperties
<1>2. Ship!Ids = {Units[i] : i \in 1 .. Len(Units)}
  BY <1>1 DEF Ship!Ids, Ship!Range
<1> DEFINE L == Len(Units)
<1>3. L \in Nat /\ L = Len(Units)
  BY <1>1
<1> HIDE DEF L
<1>4. Rest(1) = Ship!Ids
  BY <1>2 DEF Rest
<1>5. Rest(L + 1) = {}
  BY <1>3 DEF Rest
<1>6. ASSUME NEW n \in 1 .. L
      PROVE  /\ Units[n] \in Rest(n) /\ Units[n] \in Ship!Ids
             /\ Ship!Ids \ Rest(n + 1) = (Ship!Ids \ Rest(n)) \cup {Units[n]}
  <2>1. n \in n .. L /\ \A i \in n .. L : i = n \/ i \in n + 1 .. L
    BY <1>3
  <2>2. \A i \in n + 1 .. L : i \in n .. L /\ i # n /\ i \in 1 .. L
    BY <1>3
  <2>3. Rest(n) = Rest(n + 1) \cup {Units[n]}
    BY <2>1, <2>2, <1>3 DEF Rest
  <2>4. Units[n] \notin Rest(n + 1)
    BY <2>2, <1>1, <1>3 DEF Rest
  <2>5. Units[n] \in Ship!Ids
    BY <1>2, <1>3
  <2> QED BY <2>3, <2>4, <2>5
<1> QED BY <1>3, <1>4, <1>5, <1>6

LEMMA AnnounceBegins == Ship!Init => AnnInv
<1> SUFFICES ASSUME Ship!Init
             PROVE  AnnInv
  OBVIOUS
<1>1. SInv
  BY ShipmentsBegin
<1>2. client.pc = "idle" /\ net = {} /\ faults = 0 /\ Shipping
  BY DEF Ship!Init, Ship!Idle, Shipping, Links
<1>3. CASE /\ shipment = [u \in Ship!Ids |-> None]
           /\ \E valid \in BOOLEAN :
                 order = [shipped |-> FALSE, url |-> None, attempts |-> 0, valid |-> valid]
  BY <1>1, <1>2, <1>3 DEF AnnInv, FirstTry, Ship!Created
<1>4. CASE /\ shipment \in [Ship!Ids -> {Ship!New(c) : c \in Rated \cup {None}}]
           /\ order = [shipped |-> TRUE, url |-> Units[1], attempts |-> 1, valid |-> TRUE]
  <2>1. \A u \in Ship!Ids : shipment[u] # None
    BY NewIsRow, <1>4
  <2>2. Ship!Created = Ship!Ids
    BY <2>1 DEF Ship!Created
  <2> QED BY <2>2, <1>1, <1>2, <1>4 DEF AnnInv, FirstTry
<1> QED BY <1>3, <1>4 DEF Ship!Init

\* The service neither ships nor takes back a shipment that was created.
LEMMA ServiceKeeps ==
    ASSUME AnnInv, SInv', Ship!Service \/ UNCHANGED Ship!vars
    PROVE  AnnInv'
<1>1. UNCHANGED Ship!app
  BY DEF Ship!Service, Ship!vars, Ship!update_multiplier, Ship!BeginSetType, Ship!BeginInvoice,
     Ship!BeginPaid, Ship!BeginTracking, Ship!BeginUpload, Ship!BeginDelete, Ship!BeginGet,
     Ship!BeginStatus, Ship!BeginConsign, Ship!Begin, Ship!CallCarrier, Ship!CarrierFails,
     Ship!Commit, Ship!Refused, Ship!Crash
<1>2. net' = net /\ client' = client /\ order' = order
  BY <1>1 DEF Ship!app
<1>3. faults' = faults \/ faults' = faults + 1
  <2>1. CASE Ship!update_multiplier \/ UNCHANGED Ship!vars
    BY <2>1 DEF Ship!vars, Ship!update_multiplier
  <2>2. ASSUME NEW w \in Workers,
               \/ Ship!BeginSetType(w) \/ Ship!BeginInvoice(w) \/ Ship!BeginPaid(w)
               \/ Ship!BeginTracking(w) \/ Ship!BeginUpload(w) \/ Ship!BeginDelete(w)
               \/ Ship!BeginGet(w) \/ Ship!BeginStatus(w) \/ Ship!BeginConsign(w)
        PROVE  faults' = faults
    BY <2>2 DEF Ship!BeginSetType, Ship!BeginInvoice, Ship!BeginPaid, Ship!BeginTracking,
       Ship!BeginUpload, Ship!BeginDelete, Ship!BeginGet, Ship!BeginStatus, Ship!BeginConsign,
       Ship!Begin
  <2>3. ASSUME NEW w \in Workers, Ship!CallCarrier(w) \/ Ship!CarrierFails(w) \/ Ship!Refused(w)
        PROVE  faults' = faults \/ faults' = faults + 1
    BY <2>3 DEF Ship!CallCarrier, Ship!CarrierFails, Ship!Refused
  <2>4. ASSUME NEW w \in Workers, Ship!Commit(w)
        PROVE  faults' = faults \/ faults' = faults + 1
    BY <2>4 DEF Ship!Commit
  <2>5. ASSUME NEW w \in Workers, Ship!Crash(w)
        PROVE  faults' = faults \/ faults' = faults + 1
    BY <2>5 DEF Ship!Crash
  <2> QED BY <2>1, <2>2, <2>3, <2>4, <2>5 DEF Ship!Service
<1>4. \/ shipment' = shipment
      \/ \E w \in Workers : Ship!Commit(w)
  BY DEF Ship!Service, Ship!vars, Ship!service, Ship!update_multiplier, Ship!BeginSetType,
     Ship!BeginInvoice, Ship!BeginPaid, Ship!BeginTracking, Ship!BeginUpload, Ship!BeginDelete,
     Ship!BeginGet, Ship!BeginStatus, Ship!BeginConsign, Ship!Begin, Ship!CallCarrier,
     Ship!CarrierFails, Ship!Refused, Ship!Crash
<1>5. \A u \in Ship!Ids : shipment'[u] # None <=> shipment[u] # None
  <2>1. CASE shipment' = shipment
    BY <2>1
  <2>2. ASSUME NEW w \in Workers, Ship!Commit(w)
        PROVE  \A u \in Ship!Ids : shipment'[u] # None <=> shipment[u] # None
    <3> DEFINE t == stx[w]
    <3>1. t # None /\ shipment' = [shipment EXCEPT ![t.unit] = Ship!Written(t)]
      BY <2>2 DEF Ship!Commit
    <3>2. IsRequest(t) /\ Good(t, shipment, doubtful, Cardinality(Invoiced(invoice)))
      BY <3>1 DEF AnnInv, SInv, ShipTyped, AllGood
    <3>3. shipment[t.unit] # None /\ (t.number # None => t.kind \in {"status", "consign"})
      BY <3>2 DEF Good
    <3> HIDE DEF t
    <3>4. Ship!Written(t) \in Ship!ShipmentRows
      BY <3>1, <3>2, <3>3, WrittenRow DEF AnnInv, SInv
    <3>5. Ship!Written(t) # None
      BY <3>4, ShopAssumption
    <3> QED BY <3>1, <3>3, <3>5 DEF AnnInv, SInv, ShipTyped
  <2> QED BY <2>1, <2>2, <1>4
<1>6. Ship!Created' = Ship!Created
  BY <1>5 DEF Ship!Created
<1>7. Shipping'
  BY <1>2 DEF AnnInv, Shipping, AtBox, Links
<1>8. faults' \in Nat /\ (faults' = 0 => faults = 0)
  BY <1>3 DEF AnnInv
<1>9. faults' = 0 /\ order'.valid => FirstTry'
  BY <1>2, <1>6, <1>8 DEF AnnInv, FirstTry, AtBox, Asked
<1> QED BY <1>7, <1>8, <1>9 DEF AnnInv

\* The shipments are created in the order of the boxes.
LEMMA ShippingKeeps ==
    ASSUME AnnInv, SInv', Ship!App
    PROVE  AnnInv'
<1> DEFINE L == Len(Units)
<1>1. L \in Nat \ {0} /\ L = Len(Units) /\ 1 \in 1 .. L + 1 /\ L + 1 \in 1 .. L + 1
  BY LeftIs
<1>2. /\ client.pc \in {"idle", "post", "wait", "answer"}
      /\ client = [pc |-> client.pc, left |-> client.left, store |-> client.store,
                   url |-> client.url, answer |-> client.answer]
      /\ order = [shipped |-> order.shipped, url |-> order.url, attempts |-> order.attempts,
                   valid |-> order.valid]
      /\ order.url \in Links /\ faults \in Nat
      /\ client.pc # "idle" => client.url \in Links
  BY DEF AnnInv, Shipping
<1>3. client.pc # "idle" =>
         \E n \in 1 .. L + 1 : AtBox(n) /\ (client.pc # "post" => n <= L)
  BY DEF AnnInv, Shipping
<1> HIDE DEF L
<1>4. CASE Ship!StartShipping
  <2>1. /\ client.pc = "idle" /\ ~order.shipped
        /\ order' = [order EXCEPT !.attempts = @ + 1]
        /\ client' = [pc |-> "post", left |-> Units, store |-> TRUE, url |-> order.url, answer |-> None]
        /\ net' = net /\ faults' = faults /\ shipment' = shipment
    BY <1>4 DEF Ship!StartShipping, Ship!service
  <2>2. /\ client'.pc = "post" /\ client'.left = Left(1) /\ client'.store = TRUE
        /\ client'.url = order.url
    BY <2>1, LeftIs
  <2>3. order'.shipped = order.shipped /\ order'.url = order.url /\ order'.attempts = order.attempts + 1
        /\ order' = [shipped |-> order'.shipped, url |-> order'.url, attempts |-> order'.attempts,
                     valid |-> order'.valid]
        /\ order'.valid = order.valid
    BY <2>1, <1>2
  <2>4. AtBox(1)'
    BY <2>2 DEF AtBox, Left
  <2>5. Shipping'
    BY <2>1, <2>2, <2>3, <2>4, <1>1, <1>2 DEF Shipping, Links, L
  <2>6. ASSUME faults = 0, order.valid
        PROVE  FirstTry'
    <3>1. /\ order.shipped = FALSE /\ net = {} /\ order.attempts = 0 /\ Ship!Created = {}
      BY <2>1, <2>6 DEF AnnInv, FirstTry
    <3>2. Ship!Created' = Ship!Created
      BY <2>1 DEF Ship!Created
    <3>3. Ship!Created' = Ship!Ids \ Rest(1)
      BY <3>1, <3>2, RestIs
    <3> QED BY <2>1, <2>2, <2>3, <2>4, <3>1, <3>3, <1>1 DEF FirstTry, L
  <2> QED BY <2>1, <2>5, <2>6, <1>2 DEF AnnInv
<1>5. CASE Ship!PostShipment
  <2>1. /\ client.pc = "post" /\ client.left # <<>>
        /\ net' = net \cup {<<Head(client.left), order.attempts>>}
        /\ client' = [client EXCEPT !.pc = "wait"]
        /\ order' = order /\ faults' = faults /\ shipment' = shipment
    BY <1>5 DEF Ship!PostShipment, Ship!service
  <2>2. /\ client'.pc = "wait" /\ client'.left = client.left /\ client'.store = client.store
        /\ client'.url = client.url
        /\ client' = [pc |-> client'.pc, left |-> client'.left, store |-> client'.store,
                      url |-> client'.url, answer |-> client'.answer]
    BY <2>1, <1>2
  <2>3. ASSUME NEW n \in 1 .. L + 1, AtBox(n)
        PROVE  n <= L /\ AtBox(n)' /\ Head(client.left) = Units[n]
    <3>1. n # L + 1
      BY <2>1, <2>3, LeftIs DEF AtBox, L
    <3>2. n <= L
      BY <3>1, <1>1
    <3> QED BY <3>2, <2>2, <2>3, LeftIs DEF AtBox, Left, L
  <2>4. Shipping'
    BY <2>1, <2>2, <2>3, <1>2, <1>3 DEF Shipping, Links, L
  <2>5. ASSUME faults = 0, order.valid
        PROVE  FirstTry'
    <3>1. order.shipped = FALSE /\ order.attempts = 1
      BY <2>1, <2>5 DEF AnnInv, FirstTry
    <3>2. PICK n \in 1 .. L + 1 :
             /\ AtBox(n) /\ net = {} /\ Ship!Created = Ship!Ids \ Rest(n)
             /\ n # 1 => client.url = Units[1]
      BY <2>1, <2>5 DEF AnnInv, FirstTry, L
    <3>3. net' = Asked(n) /\ AtBox(n)' /\ n <= L
      BY <2>1, <2>3, <3>1, <3>2 DEF Asked
    <3>4. Ship!Created' = Ship!Ids \ Rest(n)
      BY <2>1, <3>2 DEF Ship!Created
    <3> QED BY <2>1, <2>2, <3>1, <3>2, <3>3, <3>4 DEF FirstTry, L
  <2> QED BY <2>1, <2>4, <2>5, <1>2 DEF AnnInv
<1>6. CASE Ship!create_shipment
  <2>1. PICK m \in net :
           /\ net' = net \ {m}
           /\ shipment' = IF Ship!MayCreate(m[1]) THEN [shipment EXCEPT ![m[1]] = Ship!New(None)] ELSE shipment
           /\ client' = IF Ship!Awaited(m)
                        THEN [client EXCEPT !.pc = "answer",
                                !.answer = IF Ship!MayCreate(m[1]) THEN "created" ELSE "refused"]
                        ELSE client
           /\ order' = order /\ faults' = faults
    BY <1>6 DEF Ship!create_shipment
  <2>2. /\ client'.left = client.left /\ client'.store = client.store /\ client'.url = client.url
        /\ client' = [pc |-> client'.pc, left |-> client'.left, store |-> client'.store,
                      url |-> client'.url, answer |-> client'.answer]
        /\ \/ client'.pc = client.pc
           \/ client.pc = "wait" /\ client'.pc = "answer"
    BY <2>1, <1>2 DEF Ship!Awaited
  <2>3. \A n \in 1 .. L + 1 : AtBox(n) => AtBox(n)'
    BY <2>2 DEF AtBox, Left
  <2>4. Shipping'
    BY <2>1, <2>2, <2>3, <1>2, <1>3 DEF Shipping, Links, L
  <2>5. ASSUME faults = 0, order.valid
        PROVE  FirstTry'
    <3>1. order.shipped = FALSE /\ order.attempts = 1 /\ client.pc # "idle"
      BY <2>1, <2>5 DEF AnnInv, FirstTry
    <3>2. PICK n \in 1 .. L + 1 :
             /\ AtBox(n) /\ (client.pc # "post" => n <= L)
             /\ net = (IF client.pc = "wait" THEN Asked(n) ELSE {})
             /\ Ship!Created = Ship!Ids \ Rest(IF client.pc = "answer" THEN n + 1 ELSE n)
             /\ n # 1 => client.url = Units[1]
      BY <2>5, <3>1 DEF AnnInv, FirstTry, L
    <3>3. client.pc = "wait" /\ m = <<Units[n], 1>> /\ n <= L /\ net' = {}
      BY <2>1, <3>2 DEF Asked
    <3>4. n \in 1 .. L
      BY <3>3, <1>1
    <3>5. Head(client.left) = Units[n] /\ Units[n] \in Ship!Ids /\ Ship!Created = Ship!Ids \ Rest(n)
          /\ m[1] = Units[n]
      BY <3>2, <3>3, LeftIs DEF AtBox, L
    <3>6. Ship!Awaited(m)
      BY <3>1, <3>3, <3>5 DEF Ship!Awaited
    <3>7. Ship!MayCreate(m[1])
      BY <2>5, <3>4, <3>5, RestIs DEF Ship!MayCreate, Ship!Created, L
    <3>8. client'.pc = "answer" /\ client'.answer = "created"
      BY <2>1, <3>6, <3>7, <1>2
    <3>9. Ship!Created' = Ship!Created \cup {Units[n]}
      <4>1. shipment' = [shipment EXCEPT ![Units[n]] = Ship!New(None)]
        BY <2>1, <3>5, <3>7
      <4>2. Ship!New(None) # None
        BY NewIsRow
      <4> QED BY <4>1, <4>2, <3>5 DEF Ship!Created, AnnInv, SInv, ShipTyped
    <3>10. Ship!Created' = Ship!Ids \ Rest(n + 1)
      BY <3>4, <3>5, <3>9, RestIs DEF L
    <3> QED BY <2>1, <2>2, <2>3, <3>1, <3>2, <3>3, <3>8, <3>10 DEF FirstTry, L
  <2> QED BY <2>1, <2>4, <2>5, <1>2 DEF AnnInv
<1>7. CASE Ship!ReadAnswer
  <2>1. /\ client.pc = "answer"
        /\ client' = [client EXCEPT !.pc = "post", !.left = Tail(@), !.store = FALSE, !.answer = None,
                         !.url = IF client.answer = "created" /\ client.store THEN Head(client.left) ELSE @]
        /\ net' = net /\ order' = order /\ faults' = faults /\ shipment' = shipment
    BY <1>7 DEF Ship!ReadAnswer, Ship!StoreUrl, Ship!service
  <2>2. /\ client'.pc = "post" /\ client'.left = Tail(client.left) /\ client'.store = FALSE
        /\ client'.url = (IF client.answer = "created" /\ client.store THEN Head(client.left) ELSE client.url)
        /\ client' = [pc |-> client'.pc, left |-> client'.left, store |-> client'.store,
                      url |-> client'.url, answer |-> client'.answer]
    BY <2>1, <1>2
  <2>3. ASSUME NEW n \in 1 .. L + 1, AtBox(n), n <= L
        PROVE  /\ n + 1 \in 1 .. L + 1 /\ AtBox(n + 1)' /\ client'.url \in Links
               /\ client.answer = "created" /\ (n # 1 => client.url = Units[1]) => client'.url = Units[1]
    <3>1. /\ n + 1 \in 1 .. L + 1 /\ Head(client.left) = Units[n] /\ client'.left = Left(n + 1)
          /\ n + 1 # 1
      BY <2>2, <2>3, LeftIs DEF AtBox, L
    <3>2. AtBox(n + 1)'
      BY <3>1, <2>2 DEF AtBox, Left
    <3>3. client.store = TRUE => Head(client.left) = Units[1]
      BY <2>3, <3>1 DEF AtBox
    <3>4. client'.url \in Links
      BY <3>3, <2>2, <2>1, <1>2 DEF Links
    <3>5. client.answer = "created" /\ (n # 1 => client.url = Units[1]) => client'.url = Units[1]
      BY <3>3, <2>2, <2>3 DEF AtBox
    <3> QED BY <3>1, <3>2, <3>4, <3>5
  <2>4. Shipping'
    <3>1. PICK n \in 1 .. L + 1 : AtBox(n) /\ n <= L
      BY <2>1, <1>3
    <3> QED BY <3>1, <2>1, <2>2, <2>3, <1>2 DEF Shipping, Links, L
  <2>5. ASSUME faults = 0, order.valid
        PROVE  FirstTry'
    <3>1. order.shipped = FALSE /\ order.attempts = 1
      BY <2>1, <2>5 DEF AnnInv, FirstTry
    <3>2. PICK n \in 1 .. L + 1 :
             /\ AtBox(n) /\ n <= L /\ client.answer = "created" /\ net = {}
             /\ Ship!Created = Ship!Ids \ Rest(n + 1)
             /\ n # 1 => client.url = Units[1]
      BY <2>1, <2>5 DEF AnnInv, FirstTry, L
    <3>3. n + 1 \in 1 .. L + 1 /\ AtBox(n + 1)' /\ client'.url = Units[1]
      BY <2>3, <3>2
    <3>4. Ship!Created' = Ship!Ids \ Rest(n + 1)
      BY <2>1, <3>2 DEF Ship!Created
    <3> QED BY <2>1, <2>2, <3>1, <3>2, <3>3, <3>4 DEF FirstTry, L
  <2> QED BY <2>1, <2>4, <2>5, <1>2 DEF AnnInv
<1>8. CASE Ship!PostTimesOut
  <2>1. /\ client.pc = "wait" /\ faults' = faults + 1
        /\ client' = [client EXCEPT !.pc = "post", !.left = Tail(@), !.store = FALSE]
        /\ order' = order
    BY <1>8 DEF Ship!PostTimesOut
  <2>2. /\ client'.pc = "post" /\ client'.left = Tail(client.left) /\ client'.store = FALSE
        /\ client'.url = client.url
        /\ client' = [pc |-> client'.pc, left |-> client'.left, store |-> client'.store,
                      url |-> client'.url, answer |-> client'.answer]
    BY <2>1, <1>2
  <2>3. PICK n \in 1 .. L + 1 : AtBox(n) /\ n <= L
    BY <2>1, <1>3
  <2>4. n + 1 \in 1 .. L + 1 /\ client'.left = Left(n + 1) /\ n + 1 # 1
    BY <2>2, <2>3, LeftIs DEF AtBox, L
  <2>5. AtBox(n + 1)'
    BY <2>2, <2>4 DEF AtBox, Left
  <2>6. Shipping'
    BY <2>1, <2>2, <2>4, <2>5, <1>2 DEF Shipping, Links, L
  <2>7. faults' \in Nat /\ faults' # 0
    BY <2>1, <1>2
  <2> QED BY <2>6, <2>7 DEF AnnInv
<1>9. CASE Ship!CommitShipping
  <2>1. /\ client.pc = "post" /\ client.left = <<>>
        /\ order' = [order EXCEPT !.shipped = TRUE, !.url = client.url]
        /\ client' = Ship!Idle
        /\ net' = net /\ faults' = faults /\ shipment' = shipment
    BY <1>9 DEF Ship!CommitShipping, Ship!service
  <2>2. client'.pc = "idle"
        /\ client' = [pc |-> client'.pc, left |-> client'.left, store |-> client'.store,
                      url |-> client'.url, answer |-> client'.answer]
    BY <2>1 DEF Ship!Idle
  <2>3. order'.shipped = TRUE /\ order'.url = client.url
        /\ order' = [shipped |-> order'.shipped, url |-> order'.url, attempts |-> order'.attempts,
                     valid |-> order'.valid]
        /\ order'.valid = order.valid
    BY <2>1, <1>2
  <2>4. Shipping'
    BY <2>1, <2>2, <2>3, <1>2 DEF Shipping, Links
  <2>5. ASSUME faults = 0, order.valid
        PROVE  FirstTry'
    <3>1. PICK n \in 1 .. L + 1 :
             /\ AtBox(n) /\ net = {} /\ Ship!Created = Ship!Ids \ Rest(n)
             /\ n # 1 => client.url = Units[1]
      BY <2>1, <2>5 DEF AnnInv, FirstTry, L
    <3>2. n = L + 1
      BY <2>1, <3>1, LeftIs DEF AtBox, L
    <3>3. client.url = Units[1]
      BY <3>1, <3>2, <1>1
    <3>4. Ship!Created' = Ship!Ids
      BY <2>1, <3>1, <3>2, RestIs DEF Ship!Created, L
    <3> QED BY <2>1, <2>2, <2>3, <3>1, <3>3, <3>4 DEF FirstTry
  <2> QED BY <2>1, <2>4, <2>5, <1>2 DEF AnnInv
<1>10. CASE Ship!RollbackShipping
  <2>1. client' = Ship!Idle /\ faults' = faults + 1 /\ order' = order
    BY <1>10 DEF Ship!RollbackShipping
  <2>2. Shipping'
    BY <2>1, <1>2 DEF Shipping, Ship!Idle, Links
  <2>3. faults' \in Nat /\ faults' # 0
    BY <2>1, <1>2
  <2> QED BY <2>2, <2>3 DEF AnnInv
<1> QED BY <1>4, <1>5, <1>6, <1>7, <1>8, <1>9, <1>10 DEF Ship!App

\* When nothing was lost and the service takes the order's data, a shipped order
\* has a shipment for each of its boxes and the link of the first one; an order whose first attempt failed may have no link,
\* and none has that of another box (on_sale_order_shipped).
THEOREM AnnouncedWhole == ShopSpec => []ShippedIsAnnounced
<1>1. ShopInit => AnnInv
  BY AnnounceBegins DEF ShopInit
<1>2. AnnInv /\ [ShopNext]_shopvars => AnnInv'
  <2> SUFFICES ASSUME AnnInv, [ShopNext]_shopvars
               PROVE  AnnInv'
    OBVIOUS
  <2>1. [Ship!Next]_(Ship!vars) /\ SInv'
    BY StepOfPart, ShipmentsKeep DEF AnnInv
  <2> QED BY <2>1, ServiceKeeps, ShippingKeeps DEF Ship!Next
<1>3. AnnInv => ShippedIsAnnounced
  <2> SUFFICES ASSUME AnnInv, order.shipped
               PROVE  /\ order.url \in Links
                      /\ faults = 0 /\ order.valid => order.url = Units[1] /\ Ship!Created = Ship!Ids
    BY DEF ShippedIsAnnounced, Ship!ShippedIsAnnounced, Links
  <2>1. order.url \in Links
    BY DEF AnnInv, Shipping
  <2>2. faults = 0 /\ order.valid => order.url = Units[1] /\ Ship!Created = Ship!Ids
    BY DEF AnnInv, FirstTry
  <2> QED BY <2>1, <2>2
<1> QED BY <1>1, <1>2, <1>3, PTL DEF ShopSpec

-----------------------------------------------------------------------------
(* Folds over sequences.                                                     *)

\* A set that has 0, and with each number below n the next one, has all up to n.
LEMMA UpTo ==
    ASSUME NEW n \in Nat, NEW S, 0 \in S, \A i \in 1..n : i - 1 \in S => i \in S
    PROVE  0..n \subseteq S
<1> SUFFICES ASSUME ~ (0..n \subseteq S) PROVE FALSE
  OBVIOUS
<1> DEFINE Out == (0..n) \ S  Less == OpToRel(<, Nat)
<1>1. Out \in SUBSET Nat /\ Out # {} /\ \A i \in Out : i \in 1..n
  OBVIOUS
<1>2. \E i \in Out : \A j \in Out : ~ (j < i)
  <2> HIDE DEF Out
  <2>1. IsWellFoundedOn(Less, Nat)
    BY NatLessThanWellFounded
  <2>2. PICK i \in Out : \A j \in Out : ~ (<<j, i>> \in Less)
    <3> HIDE DEF Less
    <3> QED BY <1>1, <2>1, WFMin
  <2> QED BY <1>1, <2>2 DEF OpToRel
<1>3. PICK i \in Out : \A j \in Out : ~ (j < i)
  BY <1>2
<1>4. i \in 1..n /\ i - 1 \in 0..n /\ i - 1 < i
  BY <1>1, <1>3
<1> QED BY <1>3, <1>4

\* A recursion over the subsets of a finite set that takes one element after the
\* other has a solution.
SizedTo(S, n) == {s \in SUBSET S : Cardinality(s) <= n}
Solves(g, sets, D, base, pick, F) ==
    /\ g \in [sets -> D]
    /\ \A s \in sets : g[s] = IF s = {} THEN base ELSE F[pick[s]][g[s \ {pick[s]}]]

\* There is such a function: from the sets of one size to those of the next.
LEMMA FoldExists ==
    ASSUME NEW S, IsFiniteSet(S), NEW D, NEW base \in D,
           NEW pick, \A s \in SUBSET S : s # {} => pick[s] \in s,
           NEW F, \A x \in S : F[x] \in [D -> D]
    PROVE  \E g : Solves(g, SUBSET S, D, base, pick, F)
<1> DEFINE N == Cardinality(S)
           Possible == {n \in 0..N : \E g : Solves(g, SizedTo(S, n), D, base, pick, F)}
<1>0. /\ N \in Nat
      /\ \A s \in SUBSET S : IsFiniteSet(s) /\ Cardinality(s) \in Nat /\ Cardinality(s) <= N
      /\ \A s \in SUBSET S : Cardinality(s) = 0 <=> s = {}
      /\ \A s \in SUBSET S : s # {} => Cardinality(s \ {pick[s]}) = Cardinality(s) - 1
  <2>1. \A s \in SUBSET S : IsFiniteSet(s) /\ Cardinality(s) \in Nat /\ Cardinality(s) <= N
    BY FS_Subset, FS_CardinalityType
  <2> QED BY <2>1, FS_EmptySet, FS_RemoveElement
<1>1. 0 \in Possible
  <2>1. SizedTo(S, 0) = {{}}
    BY <1>0 DEF SizedTo
  <2>2. \E g : Solves(g, {{}}, D, base, pick, F)
    <3> DEFINE z == [s \in {{}} |-> base]
    <3>1. z \in [{{}} -> D] /\ \A s \in {{}} : s = {} /\ z[s] = base
      OBVIOUS
    <3>2. z \in [{{}} -> D] /\ \A s \in {{}} : z[s] = IF s = {} THEN base ELSE F[pick[s]][z[s \ {pick[s]}]]
      <4> HIDE DEF z
      <4> QED BY <3>1
    <3> HIDE DEF z
    <3>3. Solves(z, {{}}, D, base, pick, F)
      BY <3>2 DEF Solves
    <3> QED BY <3>3
  <2>3. \E g : Solves(g, SizedTo(S, 0), D, base, pick, F)
    BY <2>1, <2>2
  <2> QED BY <1>0, <2>3
<1>2. ASSUME NEW n \in 1..N, n - 1 \in Possible PROVE n \in Possible
  <2>1. PICK g : Solves(g, SizedTo(S, n - 1), D, base, pick, F)
    BY <1>2
  <2> DEFINE T == SizedTo(S, n)  L == SizedTo(S, n - 1)
             h == [s \in T |-> IF s \in L THEN g[s] ELSE F[pick[s]][g[s \ {pick[s]}]]]
  <2>2. \A s \in T : s # {} => s \ {pick[s]} \in L /\ pick[s] \in S
    BY <1>0 DEF SizedTo
  <2>3. {} \in L /\ L \subseteq T
    BY <1>0 DEF SizedTo
  <2>4. /\ \A s \in L : g[s] \in D /\ g[s] = IF s = {} THEN base ELSE F[pick[s]][g[s \ {pick[s]}]]
    BY <2>1 DEF Solves
  <2> HIDE DEF T, L
  <2>5. \A s \in L : h[s] = g[s]
    BY <2>3
  <2>6. \A s \in T : s # {} => h[s] = F[pick[s]][g[s \ {pick[s]}]] /\ h[s] \in D
    <3> SUFFICES ASSUME NEW s \in T, s # {}
                 PROVE  h[s] = F[pick[s]][g[s \ {pick[s]}]] /\ h[s] \in D
      OBVIOUS
    <3>1. h[s] = F[pick[s]][g[s \ {pick[s]}]]
      BY <2>4
    <3>2. g[s \ {pick[s]}] \in D /\ F[pick[s]] \in [D -> D]
      BY <2>2, <2>4
    <3> QED BY <3>1, <3>2
  <2>7. h \in [T -> D] /\ \A s \in T : h[s] = IF s = {} THEN base ELSE F[pick[s]][h[s \ {pick[s]}]]
    BY <2>2, <2>3, <2>4, <2>5, <2>6
  <2>8. Solves(h, T, D, base, pick, F)
    <3> HIDE DEF h
    <3> QED BY <2>7 DEF Solves
  <2> QED BY <2>8 DEF T
<1>3. N \in Possible
  <2> HIDE DEF Possible, N
  <2>1. 0..N \subseteq Possible
    BY <1>0, <1>1, <1>2, UpTo
  <2> QED BY <1>0, <2>1
<1>4. SizedTo(S, N) = SUBSET S
  BY <1>0 DEF SizedTo
<1>5. PICK g : Solves(g, SizedTo(S, N), D, base, pick, F)
  BY <1>3
<1> HIDE DEF N
<1> QED BY <1>4, <1>5

\* A set of the numbers up to n has a largest one.
LEMMA MaxOf ==
    ASSUME NEW n \in Nat
    PROVE  /\ \A s \in SUBSET (1..n) : s # {} => Max(s) \in s
           /\ \A i \in 1..n : Max(1..i) = i /\ (1..i) \ {i} = 1..(i - 1)
<1>1. ASSUME NEW s \in SUBSET (1..n), s # {} PROVE Max(s) \in s
  <2> DEFINE Top == {i \in 0..n : \A x \in s : x <= n - i}
  <2>1. \E x \in s : \A y \in s : x >= y
    <3>1. ASSUME \A x \in s : \E y \in s : ~ (x >= y) PROVE FALSE
      <4>1. 0 \in Top
        OBVIOUS
      <4>2. ASSUME NEW i \in 1..n, i - 1 \in Top PROVE i \in Top
        BY <3>1, <4>2
      <4>3. n \in Top
        <5> HIDE DEF Top
        <5> QED BY <4>1, <4>2, UpTo
      <4>4. PICK x : x \in s
        BY <1>1
      <4>5. x \in 1..n /\ x <= n - n
        BY <4>3, <4>4
      <4> QED BY <4>5
    <3> QED BY <3>1
  <2> QED BY <2>1 DEF Max
<1>2. ASSUME NEW i \in 1..n PROVE Max(1..i) = i /\ (1..i) \ {i} = 1..(i - 1)
  BY <1>2 DEF Max
<1> QED BY <1>1, <1>2

\* What is computed from one index to the next, and what the folds of the library
\* compute: a function of the sets of indices, the largest of which is the last.
Through(F, n, D) == \A i \in 1..n : F[i] \in [D -> D]
Chain(after, n, D, base, F) ==
    after \in [0..n -> D] /\ after[0] = base /\ \A i \in 1..n : after[i] = F[i][after[i - 1]]
Folds(iter, n, D, base, F) ==
    /\ iter[{}] = base
    /\ \A s \in SUBSET (1..n) : s # {} /\ iter[s \ {Max(s)}] \in D =>
           iter[s] = F[Max(s)][iter[s \ {Max(s)}]]

\* A fold over a sequence goes through its elements in their order.
LEMMA FoldChain ==
    ASSUME NEW n \in Nat, NEW D, NEW base \in D, NEW F, Through(F, n, D),
           NEW iter, Folds(iter, n, D, base, F)
    PROVE  \E after : Chain(after, n, D, base, F) /\ after[n] = iter[1..n]
<1> DEFINE Typed == {i \in 0..n : iter[1..i] \in D}
           after == [i \in 0..n |-> iter[1..i]]
<1>1. 1..0 = {}
  OBVIOUS
<1>2. ASSUME NEW i \in 1..n, iter[1..(i - 1)] \in D PROVE iter[1..i] = F[i][iter[1..(i - 1)]]
  <2> DEFINE s == 1..i
  <2>1. s \in SUBSET (1..n) /\ s # {}
    OBVIOUS
  <2>2. Max(s) = i /\ s \ {i} = 1..(i - 1)
    BY MaxOf
  <2>3. iter[s] = F[i][iter[1..(i - 1)]]
    <3> HIDE DEF s
    <3> QED BY <1>2, <2>1, <2>2 DEF Folds
  <2> QED BY <2>3
<1>3. \A i \in 0..n : iter[1..i] \in D
  <2>1. 0 \in Typed
    BY <1>1 DEF Folds
  <2>2. ASSUME NEW i \in 1..n, i - 1 \in Typed PROVE i \in Typed
    BY <1>2, <2>2 DEF Through
  <2>3. 0..n \subseteq Typed
    <3> HIDE DEF Typed
    <3> QED BY <2>1, <2>2, UpTo
  <2> QED BY <2>3
<1>4. \A i \in 1..n : i - 1 \in 0..n /\ i \in 0..n
  OBVIOUS
<1>5. after \in [0..n -> D] /\ after[0] = base /\ after[n] = iter[1..n]
  BY <1>1, <1>3 DEF Folds
<1>6. \A i \in 1..n : after[i] = F[i][after[i - 1]]
  BY <1>2, <1>3, <1>4
<1> HIDE DEF after
<1> QED BY <1>5, <1>6 DEF Chain

\* The recursion of a fold over a sequence has a solution.
LEMMA FoldSolved ==
    ASSUME NEW n \in Nat, NEW D, NEW base \in D, NEW F, Through(F, n, D)
    PROVE  \E g \in [SUBSET (1..n) -> D] : Folds(g, n, D, base, F)
<1> DEFINE pick == [s \in SUBSET (1..n) |-> Max(s)]
<1>1. IsFiniteSet(1..n)
  BY FS_Interval
<1>2. \A s \in SUBSET (1..n) : s # {} => pick[s] \in s /\ pick[s] = Max(s)
  BY MaxOf
<1> HIDE DEF pick
<1>3. PICK g : Solves(g, SUBSET (1..n), D, base, pick, F)
  <2>1. \A x \in 1..n : F[x] \in [D -> D]
    BY DEF Through
  <2> QED BY <1>1, <1>2, <2>1, FoldExists
<1>4. g \in [SUBSET (1..n) -> D] /\ g[{}] = base
  BY <1>3 DEF Solves
<1>5. ASSUME NEW s \in SUBSET (1..n), s # {}
      PROVE  Max(s) \in s /\ g[s \ {Max(s)}] \in D /\ g[s] = F[Max(s)][g[s \ {Max(s)}]]
  <2>1. pick[s] = Max(s) /\ Max(s) \in s /\ s \ {Max(s)} \in SUBSET (1..n)
    BY <1>2, <1>5
  <2>2. g[s] = F[pick[s]][g[s \ {pick[s]}]]
    BY <1>3, <1>5 DEF Solves
  <2> QED BY <1>4, <2>1, <2>2
<1> QED BY <1>4, <1>5 DEF Folds

-----------------------------------------------------------------------------
(* Sequences of the elements of a set.                                       *)

\* It has each of them once.
LEMMA SeqOfSet ==
    ASSUME NEW S, IsFiniteSet(S)
    PROVE  /\ Cardinality(S) \in Nat /\ SetToSeq(S) \in [1..Cardinality(S) -> S]
           /\ \A i, j \in 1..Cardinality(S) : SetToSeq(S)[i] = SetToSeq(S)[j] => i = j
           /\ \A x \in S : \E i \in 1..Cardinality(S) : SetToSeq(S)[i] = x
<1> DEFINE n == Cardinality(S)  f == SetToSeq(S)
<1>1. n \in Nat /\ \E g : g \in Bijection(1..n, S)
  BY FS_CardinalityType DEF ExistsBijection
<1>2. \E g \in [1..n -> S] : IsInjective(g)
  BY <1>1 DEF Bijection, Injection
<1>3. f \in [1..n -> S] /\ IsInjective(f)
  <2> HIDE DEF n
  <2> QED BY <1>2 DEF SetToSeq, n
<1>4. IsFiniteSet(1..n) /\ Cardinality(1..n) = n
  BY <1>1, FS_Interval
<1> HIDE DEF f
<1>5. f \in Surjection(1..n, S)
  BY <1>3, <1>4, FS_Injection DEF Injection
<1> QED BY <1>1, <1>3, <1>5 DEF IsInjective, Surjection, f

-----------------------------------------------------------------------------
(* How many pieces there are.                                                *)

\* Pieces that are numbered.
LEMMA Column ==
    ASSUME NEW o, NEW q \in Nat
    PROVE  IsFiniteSet({o} \X (1..q)) /\ Cardinality({o} \X (1..q)) = q
<1> DEFINE A == {o}  B == 1..q
<1>1. IsFiniteSet(A) /\ Cardinality(A) = 1
  BY FS_Singleton, Zenon
<1>2. IsFiniteSet(B) /\ Cardinality(B) = q
  BY FS_Interval
<1> HIDE DEF A, B
<1>3. IsFiniteSet(A \X B) /\ Cardinality(A \X B) = Cardinality(A) * Cardinality(B)
  BY <1>1, <1>2, FS_Product, Zenon
<1>4. Cardinality(A) * Cardinality(B) = q
  BY <1>1, <1>2
<1> QED BY <1>3, <1>4 DEF A, B

\* There are as many pieces of an order product as its quantity says.
LEMMA OfOne ==
    ASSUME NEW o \in OrderProducts
    PROVE  /\ IsFiniteSet(PiecesOf(o)) /\ Cardinality(PiecesOf(o)) = Quantity[o]
           /\ \A x \in PiecesOf(o) : x[1] = o
<1> DEFINE q == Quantity[o]  B == 1..q
<1>1. q \in Nat
  BY WarehouseAssumption
<1>2. PiecesOf(o) = {o} \X B
  BY DEF PiecesOf
<1> HIDE DEF q
<1>3. IsFiniteSet({o} \X B) /\ Cardinality({o} \X B) = q
  BY <1>1, Column
<1> HIDE DEF B
<1>4. \A x \in {o} \X B : x[1] = o
  OBVIOUS
<1>5. IsFiniteSet(PiecesOf(o)) /\ Cardinality(PiecesOf(o)) = q
  BY <1>2, <1>3
<1>6. \A x \in PiecesOf(o) : x[1] = o
  BY <1>2, <1>4
<1> QED BY <1>5, <1>6 DEF q

\* They can be counted,
LEMMA SumIsNat ==
    ASSUME NEW S \in SUBSET OrderProducts
    PROVE  IsFiniteSet(Pieces(S)) /\ SumOf(S) \in Nat
<1> DEFINE of == [o \in S |-> PiecesOf(o)]  All == {PiecesOf(o) : o \in S}
<1>1. IsFiniteSet(S)
  BY WarehouseAssumption, FS_Subset
<1>2. of \in Surjection(S, All)
  BY DEF Surjection
<1>3. \A T \in All : IsFiniteSet(T)
  BY OfOne
<1>4. IsFiniteSet(UNION All)
  <2>1. IsFiniteSet(All)
    <3> HIDE DEF of, All
    <3> QED BY <1>1, <1>2, FS_Surjection
  <2> HIDE DEF All
  <2> QED BY <2>1, <1>3, FS_UNION
<1>5. Pieces(S) = UNION All
  BY Zenon DEF Pieces
<1> QED BY <1>4, <1>5, FS_CardinalityType DEF SumOf

\* and added up when no order product is counted twice,
LEMMA SumOfBoth ==
    ASSUME NEW S \in SUBSET OrderProducts, NEW T \in SUBSET OrderProducts, S \cap T = {}
    PROVE  SumOf(S \cup T) = SumOf(S) + SumOf(T)
<1>1. Pieces(S \cup T) = Pieces(S) \cup Pieces(T) /\ Pieces(S) \cap Pieces(T) = {}
  <2>1. Pieces(S \cup T) = Pieces(S) \cup Pieces(T)
    BY Zenon DEF Pieces
  <2>2. ASSUME NEW x \in Pieces(S) \cap Pieces(T) PROVE FALSE
    <3>1. PICK o \in S : x \in PiecesOf(o)
      BY <2>2, Zenon DEF Pieces
    <3>2. PICK p \in T : x \in PiecesOf(p)
      BY <2>2, Zenon DEF Pieces
    <3>3. o = p
      BY <3>1, <3>2, OfOne
    <3> QED BY <3>3
  <2> QED BY <2>1, <2>2
<1>2. IsFiniteSet(Pieces(S)) /\ IsFiniteSet(Pieces(T)) /\ SumOf(S) \in Nat /\ SumOf(T) \in Nat
  BY SumIsNat
<1>3. Cardinality(Pieces(S) \cup Pieces(T))
         = Cardinality(Pieces(S)) + Cardinality(Pieces(T)) - Cardinality(Pieces(S) \cap Pieces(T))
  <2> DEFINE A == Pieces(S)  B == Pieces(T)
  <2>1. IsFiniteSet(A) /\ IsFiniteSet(B)
    BY <1>2
  <2> HIDE DEF A, B
  <2>2. Cardinality(A \cup B) = Cardinality(A) + Cardinality(B) - Cardinality(A \cap B)
    BY <2>1, FS_Union, Zenon
  <2> QED BY <2>2 DEF A, B
<1>4. Cardinality({}) = 0
  BY FS_EmptySet, Zenon
<1>5. SumOf(S \cup T) = Cardinality(Pieces(S)) + Cardinality(Pieces(T)) - Cardinality({})
  BY <1>1, <1>3, Zenon DEF SumOf
<1>6. SumOf(S) = Cardinality(Pieces(S)) /\ SumOf(T) = Cardinality(Pieces(T))
  BY DEF SumOf
<1> QED BY <1>2, <1>4, <1>5, <1>6

\* beginning with none and with one.
LEMMA SumOfFew ==
    /\ SumOf({}) = 0
    /\ \A o \in OrderProducts : SumOf({o}) = Quantity[o]
<1>1. SumOf({}) = 0
  <2>1. Pieces({}) = {}
    BY DEF Pieces
  <2> QED BY <2>1, FS_EmptySet, Zenon DEF SumOf
<1>2. ASSUME NEW o \in OrderProducts PROVE SumOf({o}) = Quantity[o]
  <2>1. Pieces({o}) = PiecesOf(o)
    BY DEF Pieces
  <2> QED BY <2>1, OfOne DEF SumOf
<1> QED BY <1>1, <1>2

-----------------------------------------------------------------------------
(* What the handlers of the warehouse compute.                               *)

Num(x) == IF x = None THEN 0 ELSE x

\* The order products that are linked to a row, and what they add up to.
Linked(S, wh, r) == {o \in S : wh[o] # None /\ RowOf(wh[o], o) = r}
Signed(way, q) == IF way = "in" THEN q ELSE 0 - q
Ways == {"in", "out"}

Share(o, wh, r) == IF wh[o] # None /\ RowOf(wh[o], o) = r THEN Quantity[o] ELSE 0

\* Nothing but the stock differs.
SameButStock(d, e) == e.link = d.link /\ e.status = d.status /\ e.warehouses = d.warehouses

\* The columns of the database.
LEMMA DatabaseIs ==
    ASSUME NEW d \in Database
    PROVE  /\ d = [stock |-> d.stock, link |-> d.link, status |-> d.status,
                   warehouses |-> d.warehouses]
           /\ d.stock \in [Rows -> Int \cup {None}]
           /\ d.link \in [OrderProducts \cup PurchaseOrders -> Warehouses \cup {None}]
           /\ d.status \in [PurchaseOrders \cup {Order} -> POStatuses \cup OrderStatuses]
           /\ d.warehouses \in SUBSET Warehouses
  BY DEF Database

\* A row that is not there counts for nothing.
LEMMA NumIsInt == \A x \in Int \cup {None} : Num(x) \in Int
  BY DEF Num

\* add_product adds to its row, which it creates if need be, and to no other.
LEMMA AddsTo ==
    ASSUME NEW d \in Database, NEW r \in Rows, NEW n \in Int
    PROVE  LET e == add_product(d, r, n)
           IN  /\ e \in Database /\ SameButStock(d, e)
               /\ \A s \in Rows : Num(e.stock[s]) = Num(d.stock[s]) + (IF s = r THEN n ELSE 0)
<1> DEFINE e == add_product(d, r, n)
<1>1. PICK m \in Int : m = (IF d.stock[r] = None THEN 0 ELSE d.stock[r]) + n
  BY DatabaseIs
<1>2. e = [d EXCEPT !.stock[r] = m]
  BY <1>1 DEF add_product
<1>3. e \in Database
  BY <1>2 DEF Database
<1>4. SameButStock(d, e) /\ e.stock = [d.stock EXCEPT ![r] = m]
  BY <1>2 DEF Database, SameButStock
<1>5. None \notin Int
  BY WarehouseAssumption
<1>6. ASSUME NEW s \in Rows
      PROVE  Num(e.stock[s]) = Num(d.stock[s]) + (IF s = r THEN n ELSE 0)
  <2> HIDE DEF e
  <2>1. d.stock[s] \in Int \cup {None}
    BY DatabaseIs
  <2>2. CASE s = r
    <3>1. e.stock[s] = m
      BY <1>4, <2>2, DatabaseIs
    <3> QED BY <1>1, <1>5, <2>2, <3>1 DEF Num
  <2>3. CASE s # r
    <3>1. e.stock[s] = d.stock[s]
      BY <1>4, <2>3, DatabaseIs
    <3>2. Num(d.stock[s]) \in Int
      BY <2>1 DEF Num
    <3> QED BY <2>3, <3>1, <3>2
  <2> QED BY <2>2, <2>3
<1> HIDE DEF e
<1>7. /\ e \in Database /\ SameButStock(d, e)
      /\ \A s \in Rows : Num(e.stock[s]) = Num(d.stock[s]) + (IF s = r THEN n ELSE 0)
  BY <1>3, <1>4, <1>6
<1> QED BY <1>7 DEF e

\* One more order product is moved.
LEMMA OneMore ==
    ASSUME NEW S \in SUBSET OrderProducts, NEW o \in OrderProducts, o \notin S,
           NEW wh, NEW r
    PROVE  SumOf(Linked(S \cup {o}, wh, r)) = SumOf(Linked(S, wh, r)) + Share(o, wh, r)
<1> DEFINE A == Linked(S, wh, r)
<1>1. A \in SUBSET OrderProducts /\ SumOf(A) \in Nat /\ o \notin A
  BY SumIsNat DEF Linked
<1>2. CASE wh[o] # None /\ RowOf(wh[o], o) = r
  <2>1. Linked(S \cup {o}, wh, r) = A \cup {o}
    BY <1>2 DEF Linked
  <2> HIDE DEF A
  <2>2. SumOf(A \cup {o}) = SumOf(A) + Quantity[o]
    <3>1. {o} \in SUBSET OrderProducts /\ A \cap {o} = {} /\ A \in SUBSET OrderProducts
      BY <1>1
    <3>2. SumOf(A \cup {o}) = SumOf(A) + SumOf({o})
      BY <3>1, SumOfBoth
    <3> QED BY <3>2, SumOfFew
  <2> QED BY <1>2, <2>1, <2>2 DEF A, Share
<1>3. CASE ~ (wh[o] # None /\ RowOf(wh[o], o) = r)
  <2>1. Linked(S \cup {o}, wh, r) = A
    BY <1>3 DEF Linked
  <2> HIDE DEF A
  <2>2. SumOf(A) = SumOf(A) + 0
    BY <1>1
  <2> QED BY <1>3, <2>1, <2>2 DEF A, Share
<1> QED BY <1>2, <1>3

\* Order products that are moved one after the other.
Moved(e, wh, o, way) ==
    IF wh[o] = None THEN e ELSE add_product(e, RowOf(wh[o], o), Signed(way, Quantity[o]))
FirstOnes(f, i) == {f[j] : j \in 1..i}

Lists(f, n, S) ==
    /\ f \in [1..n -> S]
    /\ \A i, j \in 1..n : f[i] = f[j] => i = j
    /\ \A o \in S : \E i \in 1..n : f[i] = o
MovesOn(after, n, f, wh, way) ==
    /\ after \in [0..n -> Database]
    /\ \A i \in 1..n : after[i] = Moved(after[i - 1], wh, f[i], way)
Leads(wh, S) == \A o \in S : wh[o] \in Warehouses \cup {None}

\* Nothing is moved either way.
LEMMA NothingSigned == \A way : Signed(way, 0) = 0
  BY DEF Signed

\* All that are linked to a row have been added to it, or taken from it, at the end.
LEMMA ChainMoves ==
    ASSUME NEW n \in Nat, NEW S \in SUBSET OrderProducts, NEW f, Lists(f, n, S),
           NEW wh, Leads(wh, S), NEW way \in Ways,
           NEW after, MovesOn(after, n, f, wh, way)
    PROVE  /\ SameButStock(after[0], after[n])
           /\ \A r \in Rows : Num(after[n].stock[r])
                 = Num(after[0].stock[r]) + Signed(way, SumOf(Linked(S, wh, r)))
<1> DEFINE d == after[0]
           Ok(i) == /\ SameButStock(d, after[i])
                    /\ \A r \in Rows : Num(after[i].stock[r])
                          = Num(d.stock[r]) + Signed(way, SumOf(Linked(FirstOnes(f, i), wh, r)))
           Oks == {i \in 0..n : Ok(i)}
<1>0. d \in Database /\ \A i \in 0..n : FirstOnes(f, i) \in SUBSET OrderProducts
  BY DEF FirstOnes, Lists, MovesOn
<1>1. 0 \in Oks
  <2>1. FirstOnes(f, 0) = {}
    BY DEF FirstOnes
  <2>2. \A r \in Rows : Signed(way, SumOf(Linked(FirstOnes(f, 0), wh, r))) = 0
    <3>1. \A r : Linked({}, wh, r) = {}
      BY DEF Linked
    <3>2. SumOf({}) = 0 /\ Signed(way, 0) = 0
      BY NothingSigned, SumOfFew
    <3>3. \A r : SumOf(Linked(FirstOnes(f, 0), wh, r)) = 0
      BY <2>1, <3>1, <3>2, Zenon
    <3> QED BY <3>2, <3>3
  <2>3. \A r \in Rows : Num(d.stock[r]) \in Int
    BY <1>0, DatabaseIs, NumIsInt
  <2> HIDE DEF d
  <2>4. SameButStock(after[0], after[0])
    BY DEF SameButStock
  <2> QED BY <2>2, <2>3, <2>4 DEF d
<1>2. ASSUME NEW i \in 1..n, i - 1 \in Oks PROVE i \in Oks
  <2> DEFINE e == after[i - 1]  o == f[i]  old == FirstOnes(f, i - 1)
  <2>1. i - 1 \in 0..n /\ i \in 0..n /\ e \in Database /\ o \in S /\ o \in OrderProducts
    BY DEF Lists, MovesOn
  <2>2. FirstOnes(f, i) = old \cup {o} /\ o \notin old /\ old \in SUBSET OrderProducts
    BY <1>0, <2>1 DEF FirstOnes, Lists
  <2>3. after[i] = Moved(e, wh, o, way) /\ after[i] \in Database
    BY <2>1 DEF MovesOn
  <2>4. SameButStock(d, e) /\ \A r \in Rows :
           /\ Num(e.stock[r]) = Num(d.stock[r]) + Signed(way, SumOf(Linked(old, wh, r)))
           /\ Num(d.stock[r]) \in Int /\ SumOf(Linked(old, wh, r)) \in Nat
    <3>1. SameButStock(d, e) /\ \A r \in Rows :
             Num(e.stock[r]) = Num(d.stock[r]) + Signed(way, SumOf(Linked(old, wh, r)))
      BY <1>2
    <3>2. \A r \in Rows : Num(d.stock[r]) \in Int
      BY <1>0, DatabaseIs, NumIsInt
    <3>3. \A r \in Rows : SumOf(Linked(old, wh, r)) \in Nat
      BY <2>2, SumIsNat DEF Linked
    <3> QED BY <3>1, <3>2, <3>3
  <2>5. Quantity[o] \in Nat
    BY <2>1, WarehouseAssumption
  <2> HIDE DEF d, e, o, old
  <2>6. SameButStock(e, after[i]) /\ \A r \in Rows :
           Num(after[i].stock[r]) = Num(e.stock[r]) + Signed(way, Share(o, wh, r))
    <3>1. CASE wh[o] = None
      <4>1. after[i] = e
        BY <2>3, <3>1 DEF Moved
      <4>2. \A r \in Rows : Num(e.stock[r]) \in Int
        BY <2>1, DatabaseIs, NumIsInt
      <4> QED BY <3>1, <4>1, <4>2 DEF Signed, SameButStock, Share
    <3>2. CASE wh[o] # None
      <4> DEFINE s == RowOf(wh[o], o)  q == Signed(way, Quantity[o])
      <4>1. s \in Rows /\ q \in Int
        BY <2>1, <2>5, <3>2, WarehouseAssumption DEF RowOf, Rows, Signed, Leads
      <4>2. after[i] = add_product(e, s, q)
        BY <2>3, <3>2 DEF Moved
      <4> HIDE DEF s, q
      <4>3. /\ SameButStock(e, after[i])
            /\ \A r \in Rows : Num(after[i].stock[r]) = Num(e.stock[r]) + (IF r = s THEN q ELSE 0)
        <5>1. LET g == add_product(e, s, q)
              IN  /\ g \in Database /\ SameButStock(e, g)
                  /\ \A r \in Rows : Num(g.stock[r]) = Num(e.stock[r]) + (IF r = s THEN q ELSE 0)
          BY <2>1, <4>1, AddsTo
        <5> QED BY <4>2, <5>1
      <4>4. \A r \in Rows : (IF r = s THEN q ELSE 0) = Signed(way, Share(o, wh, r))
        BY <3>2 DEF s, q, Signed, Share
      <4> QED BY <4>3, <4>4
    <3> QED BY <3>1, <3>2
  <2>7. SameButStock(d, after[i])
    BY <2>4, <2>6 DEF SameButStock
  <2>8. ASSUME NEW r \in Rows
        PROVE  Num(after[i].stock[r])
                  = Num(d.stock[r]) + Signed(way, SumOf(Linked(FirstOnes(f, i), wh, r)))
    <3> DEFINE a == SumOf(Linked(old, wh, r))
               b == Share(o, wh, r)
    <3>1. SumOf(Linked(FirstOnes(f, i), wh, r)) = a + b
      <4>1. SumOf(Linked(old \cup {o}, wh, r))
               = SumOf(Linked(old, wh, r)) + Share(o, wh, r)
        BY <2>1, <2>2, OneMore
      <4> QED BY <2>2, <4>1
    <3>2. Num(after[i].stock[r]) = Num(e.stock[r]) + Signed(way, b)
      BY <2>6
    <3>3. Num(e.stock[r]) = Num(d.stock[r]) + Signed(way, a) /\ a \in Nat /\ Num(d.stock[r]) \in Int
      BY <2>4
    <3>4. b \in Nat
      BY <2>5 DEF Share
    <3> HIDE DEF a, b
    <3> QED BY <3>1, <3>2, <3>3, <3>4 DEF Signed
  <2> QED BY <2>1, <2>7, <2>8
<1>3. n \in Oks
  <2> HIDE DEF Oks
  <2>1. 0..n \subseteq Oks
    BY <1>1, <1>2, UpTo
  <2> QED BY <2>1
<1>4. FirstOnes(f, n) = S
  BY DEF FirstOnes, Lists
<1> QED BY <1>3, <1>4

\* One of them is moved within the database.
LEMMA MovedIs ==
    ASSUME NEW e \in Database, NEW o \in OrderProducts, NEW wh,
           wh[o] \in Warehouses \cup {None}, NEW way \in Ways
    PROVE  Moved(e, wh, o, way) \in Database /\ SameButStock(e, Moved(e, wh, o, way))
<1>1. CASE wh[o] = None
  BY <1>1 DEF Moved, SameButStock
<1>2. CASE wh[o] # None
  <2> DEFINE s == RowOf(wh[o], o)  q == Signed(way, Quantity[o])
  <2>1. s \in Rows /\ q \in Int
    BY <1>2, WarehouseAssumption DEF RowOf, Rows, Signed
  <2>2. Moved(e, wh, o, way) = add_product(e, s, q)
    BY <1>2 DEF Moved
  <2> HIDE DEF s, q
  <2>3. LET g == add_product(e, s, q)
        IN  /\ g \in Database /\ SameButStock(e, g)
            /\ \A r \in Rows : Num(g.stock[r]) = Num(e.stock[r]) + (IF r = s THEN q ELSE 0)
    BY <2>1, AddsTo
  <2> QED BY <2>2, <2>3
<1> QED BY <1>1, <1>2

\* What is computed from the links of d alone.
LikeLinked(d) == {e \in Database : e.link = d.link}

\* on_sale_order_shipped goes through the order products one after the other,
LEMMA ShippedChain ==
    ASSUME NEW d \in Database
    PROVE  \E after, f, n :
              /\ n \in Nat /\ Lists(f, n, OrderProducts)
              /\ after[0] = d /\ after[n] = on_sale_order_shipped(d)
              /\ MovesOn(after, n, f, d.link, "out")
<1> DEFINE f == SetToSeq(OrderProducts)  n == Cardinality(OrderProducts)  D == LikeLinked(d)
           wh == d.link
           F == [i \in 1..n |-> [e \in D |-> Moved(e, wh, f[i], "out")]]
           Step(e, o) == IF e.link[o] = None THEN e
                         ELSE sub_product(e, RowOf(e.link[o], o), Quantity[o])
           Iter(g) == g = [s \in SUBSET (1..n) |->
                              IF s = {} THEN d ELSE Step(g[s \ {Max(s)}], f[Max(s)])]
<1>1. n \in Nat /\ Lists(f, n, OrderProducts) /\ DOMAIN f = 1..n
  BY SeqOfSet, WarehouseAssumption DEF Lists
<1>2. on_sale_order_shipped(d) = (CHOOSE g : Iter(g))[1..n]
  BY <1>1 DEF on_sale_order_shipped, FoldLeft, MapThenFoldSet
<1>3. \A o \in OrderProducts : wh[o] \in Warehouses \cup {None}
  BY DatabaseIs
<1>4. \A i \in 1..n : f[i] \in OrderProducts
  BY <1>1 DEF Lists
<1>5. ASSUME NEW e \in D, NEW o \in OrderProducts
      PROVE  Step(e, o) = Moved(e, wh, o, "out") /\ Moved(e, wh, o, "out") \in D
  <2>1. Quantity[o] \in Int /\ -Quantity[o] = 0 - Quantity[o]
    BY WarehouseAssumption
  <2>2. e \in Database /\ e.link = wh
    BY DEF LikeLinked
  <2> HIDE DEF wh, D
  <2>3. Step(e, o) = Moved(e, wh, o, "out")
    BY <2>1, <2>2 DEF Moved, sub_product, Signed
  <2>4. Moved(e, wh, o, "out") \in Database /\ SameButStock(e, Moved(e, wh, o, "out"))
    BY <1>3, <2>2, MovedIs DEF Ways
  <2> QED BY <2>2, <2>3, <2>4 DEF D, wh, LikeLinked, SameButStock
<1>6. Through(F, n, D) /\ \A i \in 1..n : \A e \in D : F[i][e] = Moved(e, wh, f[i], "out")
  BY <1>4, <1>5 DEF Through
<1>7. d \in D
  BY DEF LikeLinked
<1> HIDE DEF F, D, wh, f, n
<1>8. PICK g \in [SUBSET (1..n) -> D] : Folds(g, n, D, d, F)
  BY <1>1, <1>6, <1>7, FoldSolved
<1>9. Iter(g)
  <2>1. ASSUME NEW s \in SUBSET (1..n), s # {}
        PROVE  g[s] = Step(g[s \ {Max(s)}], f[Max(s)])
    <3>1. PICK m \in 1..n : m = Max(s)
      BY <1>1, <2>1, MaxOf
    <3>2. PICK e \in D : e = g[s \ {Max(s)}]
      BY <1>8, <2>1
    <3>3. g[s] = F[m][e]
      BY <1>8, <2>1, <3>1, <3>2 DEF Folds
    <3>4. F[m][e] = Step(e, f[m])
      BY <1>4, <1>5, <1>6
    <3> QED BY <3>1, <3>2, <3>3, <3>4
  <2> QED BY <1>8, <2>1 DEF Folds
<1>10. PICK h : Iter(h) /\ h = CHOOSE x : Iter(x)
  BY <1>9
<1>11. Folds(h, n, D, d, F)
  <2>1. h[{}] = d
    BY <1>10
  <2>2. ASSUME NEW s \in SUBSET (1..n), s # {}, h[s \ {Max(s)}] \in D
        PROVE  h[s] = F[Max(s)][h[s \ {Max(s)}]]
    <3>1. PICK m \in 1..n : m = Max(s)
      BY <1>1, <2>2, MaxOf
    <3>2. PICK e \in D : e = h[s \ {Max(s)}]
      BY <2>2
    <3>3. h[s] = Step(h[s \ {Max(s)}], f[Max(s)])
      <4> HIDE DEF Step
      <4> QED BY <1>10, <2>2
    <3>4. F[m][e] = Step(e, f[m])
      BY <1>4, <1>5, <1>6
    <3> QED BY <3>1, <3>2, <3>3, <3>4
  <2> QED BY <2>1, <2>2 DEF Folds
<1>12. PICK after : Chain(after, n, D, d, F) /\ after[n] = h[1..n]
  BY <1>1, <1>6, <1>7, <1>11, FoldChain
<1>13. MovesOn(after, n, f, wh, "out")
  <2>1. after \in [0..n -> Database]
    BY <1>12 DEF D, LikeLinked, Chain
  <2>2. \A i \in 1..n : i - 1 \in 0..n
    BY <1>1
  <2> QED BY <1>6, <1>12, <2>1, <2>2 DEF MovesOn, Chain
<1> QED BY <1>1, <1>2, <1>10, <1>12, <1>13 DEF wh, Chain

ToWarehouse(d, po) == [o \in OrderProducts |-> d.link[po]]
Delivered(d, po) ==
    FoldLeft(LAMBDA f, o : add_product(f, RowOf(d.link[po], o), Quantity[o]),
             d, SetToSeq(OfPO(po)))

\* and so does on_purchase_order_delivered with those of a purchase order.
LEMMA DeliveredChain ==
    ASSUME NEW d \in Database, NEW po \in PurchaseOrders, d.link[po] # None
    PROVE  \E after, f, n :
              /\ n \in Nat /\ Lists(f, n, OfPO(po))
              /\ after[0] = d /\ after[n] = Delivered(d, po)
              /\ MovesOn(after, n, f, ToWarehouse(d, po), "in")
<1> DEFINE f == SetToSeq(OfPO(po))  n == Cardinality(OfPO(po))  D == Database
           wh == ToWarehouse(d, po)
           F == [i \in 1..n |-> [e \in D |-> Moved(e, wh, f[i], "in")]]
           Step(e, o) == add_product(e, RowOf(d.link[po], o), Quantity[o])
           Iter(g) == g = [s \in SUBSET (1..n) |->
                              IF s = {} THEN d ELSE Step(g[s \ {Max(s)}], f[Max(s)])]
<1>0. OfPO(po) \in SUBSET OrderProducts /\ IsFiniteSet(OfPO(po))
  BY WarehouseAssumption, FS_Subset DEF OfPO
<1>1. n \in Nat /\ Lists(f, n, OfPO(po)) /\ DOMAIN f = 1..n
  BY <1>0, SeqOfSet DEF Lists
<1>2. Delivered(d, po) = (CHOOSE g : Iter(g))[1..n]
  BY <1>1 DEF Delivered, FoldLeft, MapThenFoldSet
<1>3. \A o \in OrderProducts : wh[o] = d.link[po] /\ wh[o] \in Warehouses
  BY DatabaseIs DEF ToWarehouse
<1>4. \A i \in 1..n : f[i] \in OrderProducts
  BY <1>0, <1>1 DEF Lists
<1>5. ASSUME NEW e \in D, NEW o \in OrderProducts
      PROVE  Step(e, o) = Moved(e, wh, o, "in") /\ Moved(e, wh, o, "in") \in D
  <2> HIDE DEF wh
  <2>1. Step(e, o) = Moved(e, wh, o, "in")
    BY <1>3 DEF Moved, Signed
  <2>2. Moved(e, wh, o, "in") \in Database
    BY <1>3, MovedIs DEF Ways
  <2> QED BY <2>1, <2>2
<1>6. Through(F, n, D) /\ \A i \in 1..n : \A e \in D : F[i][e] = Moved(e, wh, f[i], "in")
  BY <1>4, <1>5 DEF Through
<1>7. d \in D
  OBVIOUS
<1> HIDE DEF F, D, wh, f, n
<1>8. PICK g \in [SUBSET (1..n) -> D] : Folds(g, n, D, d, F)
  BY <1>1, <1>6, <1>7, FoldSolved
<1>9. Iter(g)
  <2>1. ASSUME NEW s \in SUBSET (1..n), s # {}
        PROVE  g[s] = Step(g[s \ {Max(s)}], f[Max(s)])
    <3>1. PICK m \in 1..n : m = Max(s)
      BY <1>1, <2>1, MaxOf
    <3>2. PICK e \in D : e = g[s \ {Max(s)}]
      BY <1>8, <2>1
    <3>3. g[s] = F[m][e]
      BY <1>8, <2>1, <3>1, <3>2 DEF Folds
    <3>4. F[m][e] = Step(e, f[m])
      BY <1>4, <1>5, <1>6
    <3> QED BY <3>1, <3>2, <3>3, <3>4
  <2> QED BY <1>8, <2>1 DEF Folds
<1>10. PICK h : Iter(h) /\ h = CHOOSE x : Iter(x)
  BY <1>9
<1>11. Folds(h, n, D, d, F)
  <2>1. h[{}] = d
    BY <1>10
  <2>2. ASSUME NEW s \in SUBSET (1..n), s # {}, h[s \ {Max(s)}] \in D
        PROVE  h[s] = F[Max(s)][h[s \ {Max(s)}]]
    <3>1. PICK m \in 1..n : m = Max(s)
      BY <1>1, <2>2, MaxOf
    <3>2. PICK e \in D : e = h[s \ {Max(s)}]
      BY <2>2
    <3>3. h[s] = Step(h[s \ {Max(s)}], f[Max(s)])
      <4> HIDE DEF Step
      <4> QED BY <1>10, <2>2
    <3>4. F[m][e] = Step(e, f[m])
      BY <1>4, <1>5, <1>6
    <3> QED BY <3>1, <3>2, <3>3, <3>4
  <2> QED BY <2>1, <2>2 DEF Folds
<1>12. PICK after : Chain(after, n, D, d, F) /\ after[n] = h[1..n]
  BY <1>1, <1>6, <1>7, <1>11, FoldChain
<1>13. MovesOn(after, n, f, wh, "in")
  <2>1. after \in [0..n -> Database]
    BY <1>12 DEF D, Chain
  <2>2. \A i \in 1..n : i - 1 \in 0..n
    BY <1>1
  <2> QED BY <1>6, <1>12, <2>1, <2>2 DEF MovesOn, Chain
<1> QED BY <1>1, <1>2, <1>10, <1>12, <1>13 DEF wh, Chain

\* The order products of purchase orders that go to a row.
Into(link, pos, r) == {o \in OrderProducts : /\ Suborder[o] \in pos /\ link[Suborder[o]] # None
                                           /\ RowOf(link[Suborder[o]], o) = r}
OutOf(link, r) == {o \in OrderProducts : link[o] # None /\ RowOf(link[o], o) = r}

\* The sale order takes all its products from where they are linked to.
LEMMA ShippedIs ==
    ASSUME NEW d \in Database
    PROVE  LET e == on_sale_order_shipped(d)
           IN  /\ e \in Database /\ SameButStock(d, e)
               /\ \A r \in Rows : Num(e.stock[r]) = Num(d.stock[r]) - SumOf(OutOf(d.link, r))
<1>1. PICK after, f, n : /\ n \in Nat /\ Lists(f, n, OrderProducts)
                         /\ after[0] = d /\ after[n] = on_sale_order_shipped(d)
                         /\ MovesOn(after, n, f, d.link, "out")
  BY ShippedChain
<1>2. Leads(d.link, OrderProducts)
  BY DatabaseIs DEF Leads
<1>3. /\ SameButStock(after[0], after[n])
      /\ \A r \in Rows : Num(after[n].stock[r])
            = Num(after[0].stock[r]) + Signed("out", SumOf(Linked(OrderProducts, d.link, r)))
  BY <1>1, <1>2, ChainMoves DEF Ways
<1>4. on_sale_order_shipped(d) \in Database
  BY <1>1 DEF MovesOn
<1>5. ASSUME NEW r \in Rows
      PROVE  Num(after[n].stock[r]) = Num(d.stock[r]) - SumOf(OutOf(d.link, r))
  <2>1. Linked(OrderProducts, d.link, r) = OutOf(d.link, r)
    BY DEF Linked, OutOf
  <2>2. SumOf(OutOf(d.link, r)) \in Nat /\ Num(d.stock[r]) \in Int
    BY SumIsNat, DatabaseIs, NumIsInt DEF OutOf
  <2> QED BY <1>1, <1>3, <2>1, <2>2 DEF Signed
<1> QED BY <1>1, <1>3, <1>4, <1>5

\* A delivery puts the products of the purchase order into its warehouse, and moves
\* the sale order when it was the last.
IsComplete(e) == \A po \in PurchaseOrders : e.status[po] \in {"none", "delivered"}

\* What on_purchase_order_delivered writes.
LEMMA DeliveredIs ==
    ASSUME NEW d \in Database, NEW po \in PurchaseOrders
    PROVE  LET e == on_purchase_order_delivered(d, po)
           IN  /\ e \in Database /\ e.link = d.link /\ e.warehouses = d.warehouses
               /\ e.status = IF d.link[po] # None /\ IsComplete(d)
                             THEN [d.status EXCEPT ![Order] = "at_warehouse"] ELSE d.status
               /\ \A r \in Rows : Num(e.stock[r]) = Num(d.stock[r]) + SumOf(Into(d.link, {po}, r))
<1>1. CASE d.link[po] = None
  <2>1. \A r \in Rows : Into(d.link, {po}, r) = {} /\ Num(d.stock[r]) \in Int
    BY <1>1, DatabaseIs, NumIsInt DEF Into
  <2>2. on_purchase_order_delivered(d, po) = d
    BY <1>1 DEF on_purchase_order_delivered
  <2>3. \A r \in Rows : Num(d.stock[r]) = Num(d.stock[r]) + SumOf(Into(d.link, {po}, r))
    BY <2>1, SumOfFew
  <2> QED BY <1>1, <2>2, <2>3
<1>2. CASE d.link[po] # None
  <2> DEFINE g == Delivered(d, po)  e == on_purchase_order_delivered(d, po)
  <2>1. PICK after, f, n : /\ n \in Nat /\ Lists(f, n, OfPO(po))
                           /\ after[0] = d /\ after[n] = g
                           /\ MovesOn(after, n, f, ToWarehouse(d, po), "in")
    BY <1>2, DeliveredChain
  <2>2. Leads(ToWarehouse(d, po), OfPO(po)) /\ OfPO(po) \in SUBSET OrderProducts
    BY DatabaseIs DEF Leads, ToWarehouse, OfPO
  <2>3. /\ SameButStock(after[0], after[n])
        /\ \A r \in Rows : Num(after[n].stock[r])
              = Num(after[0].stock[r]) + Signed("in", SumOf(Linked(OfPO(po), ToWarehouse(d, po), r)))
    BY <2>1, <2>2, ChainMoves DEF Ways
  <2>4. g \in Database
    BY <2>1 DEF MovesOn
  <2>5. \A r : Linked(OfPO(po), ToWarehouse(d, po), r) = Into(d.link, {po}, r)
    BY DEF Linked, Into, OfPO, ToWarehouse
  <2>6. SameButStock(d, g) /\ \A r \in Rows :
            Num(g.stock[r]) = Num(d.stock[r]) + SumOf(Into(d.link, {po}, r))
    BY <2>1, <2>3, <2>5 DEF Signed
  <2>7. e = IF pos_complete(g) THEN order_at_warehouse(g, po) ELSE g
    BY <1>2 DEF on_purchase_order_delivered, Delivered
  <2> HIDE DEF g
  <2>8. pos_complete(g) <=> IsComplete(d)
    BY <2>6 DEF pos_complete, Existing, IsComplete, SameButStock
  <2>9. /\ order_at_warehouse(g, po) \in Database
        /\ order_at_warehouse(g, po).status = [g.status EXCEPT ![Order] = "at_warehouse"]
        /\ order_at_warehouse(g, po).link = g.link
        /\ order_at_warehouse(g, po).warehouses = g.warehouses
        /\ order_at_warehouse(g, po).stock = g.stock
    BY <2>4 DEF order_at_warehouse, Database, OrderStatuses
  <2> HIDE DEF e
  <2>10. /\ e \in Database /\ e.link = d.link /\ e.warehouses = d.warehouses
         /\ e.status = IF IsComplete(d) THEN [d.status EXCEPT ![Order] = "at_warehouse"]
                        ELSE d.status
         /\ e.stock = g.stock
    BY <2>4, <2>6, <2>7, <2>8, <2>9 DEF SameButStock
  <2> QED BY <1>2, <2>6, <2>10 DEF e
<1> QED BY <1>1, <1>2

Heard(seen, S) == \A po \in S : seen[po] \in VendorStatuses
Update(e, po, seen) == IF KnownToVendor(e, po) /\ seen[po] # "posted"
                       THEN set_po_status(e, po, seen[po]) ELSE e
UpdatesOn(after, n, f, seen) ==
    /\ after \in [0..n -> Database]
    /\ \A i \in 1..n : after[i] = Update(after[i - 1], f[i], seen)

\* A status is set, and what was ordered comes in when it is "delivered".
StatusSet(d, po, s, e) ==
    /\ e \in Database /\ e.link = d.link /\ e.warehouses = d.warehouses
    /\ \A p \in PurchaseOrders : e.status[p] = IF p = po THEN s ELSE d.status[p]
    /\ e.status[Order] = IF s = "delivered" /\ d.link[po] # None /\ IsComplete(e)
                         THEN "at_warehouse" ELSE d.status[Order]
    /\ \A r \in Rows : Num(e.stock[r]) = Num(d.stock[r])
          + (IF s = "delivered" THEN SumOf(Into(d.link, {po}, r)) ELSE 0)

\* That is what set_po_status does.
LEMMA SetStatusIs ==
    ASSUME NEW d \in Database, NEW po \in PurchaseOrders, NEW s \in POStatuses
    PROVE  StatusSet(d, po, s, set_po_status(d, po, s))
<1> DEFINE c == [d EXCEPT !.status[po] = s]  e == set_po_status(d, po, s)
<1>1. /\ c \in Database /\ c.link = d.link /\ c.warehouses = d.warehouses /\ c.stock = d.stock
      /\ c.status = [d.status EXCEPT ![po] = s]
  BY DEF Database
<1>2. /\ d.status \in [PurchaseOrders \cup {Order} -> POStatuses \cup OrderStatuses]
      /\ Order \notin PurchaseOrders
  BY DatabaseIs, WarehouseAssumption
<1>3. \A r \in Rows : Num(d.stock[r]) \in Int /\ Num(d.stock[r]) = Num(d.stock[r]) + 0
  BY DatabaseIs, NumIsInt
<1>4. e = IF s = "delivered" THEN on_purchase_order_delivered(c, po) ELSE c
  BY DEF set_po_status
<1> HIDE DEF c, e
<1>5. CASE s # "delivered"
  <2>1. e = c
    BY <1>4, <1>5
  <2>2. /\ \A p \in PurchaseOrders : e.status[p] = IF p = po THEN s ELSE d.status[p]
        /\ e.status[Order] = d.status[Order]
    BY <1>1, <1>2, <2>1
  <2> QED BY <1>1, <1>3, <1>5, <2>1, <2>2 DEF e, StatusSet
<1>6. CASE s = "delivered"
  <2>1. /\ e \in Database /\ e.link = c.link /\ e.warehouses = c.warehouses
        /\ e.status = IF c.link[po] # None /\ IsComplete(c)
                      THEN [c.status EXCEPT ![Order] = "at_warehouse"] ELSE c.status
        /\ \A r \in Rows : Num(e.stock[r]) = Num(c.stock[r]) + SumOf(Into(c.link, {po}, r))
    <3>1. e = on_purchase_order_delivered(c, po)
      BY <1>4, <1>6
    <3> QED BY <1>1, <3>1, DeliveredIs
  <2>2. \A p \in PurchaseOrders : e.status[p] = c.status[p]
    BY <1>1, <1>2, <2>1
  <2>3. IsComplete(e) <=> IsComplete(c)
    BY <2>2 DEF IsComplete
  <2>4. e.status[Order] = IF d.link[po] # None /\ IsComplete(e)
                          THEN "at_warehouse" ELSE d.status[Order]
    BY <1>1, <1>2, <2>1, <2>3
  <2>5. \A p \in PurchaseOrders : e.status[p] = IF p = po THEN s ELSE d.status[p]
    BY <1>1, <1>2, <2>2
  <2> QED BY <1>1, <1>6, <2>1, <2>4, <2>5 DEF e, StatusSet
<1> QED BY <1>5, <1>6

\* A refresh goes through the purchase orders one after the other.
LEMMA UpdateChain ==
    ASSUME NEW d \in Database, NEW n \in Nat, NEW f \in [1..n -> PurchaseOrders],
           NEW seen, Heard(seen, FirstOnes(f, n))
    PROVE  \E after : UpdatesOn(after, n, f, seen)
                      /\ after[0] = d /\ after[n] = update_purchase_orders_status(d, f, seen)
<1> DEFINE D == Database
           F == [i \in 1..n |-> [e \in D |-> Update(e, f[i], seen)]]
           Step(e, o) == IF KnownToVendor(e, o) /\ seen[o] # "posted"
                         THEN set_po_status(e, o, seen[o]) ELSE e
           Iter(g) == g = [s \in SUBSET (1..n) |->
                              IF s = {} THEN d ELSE Step(g[s \ {Max(s)}], f[Max(s)])]
<1>1. DOMAIN f = 1..n
  OBVIOUS
<1>2. update_purchase_orders_status(d, f, seen) = (CHOOSE g : Iter(g))[1..n]
  BY <1>1 DEF update_purchase_orders_status, FoldLeft, MapThenFoldSet
<1>4. \A i \in 1..n : f[i] \in FirstOnes(f, n)
  BY DEF FirstOnes
<1>5. ASSUME NEW e \in D, NEW o \in FirstOnes(f, n)
      PROVE  Step(e, o) = Update(e, o, seen) /\ Update(e, o, seen) \in D
  <2>1. Step(e, o) = Update(e, o, seen)
    BY DEF Update
  <2>2. o \in PurchaseOrders /\ seen[o] \in POStatuses
    BY WarehouseAssumption DEF Heard, FirstOnes
  <2>3. Update(e, o, seen) \in D
    BY <2>2, SetStatusIs DEF Update, StatusSet
  <2> QED BY <2>1, <2>3
<1>6. Through(F, n, D) /\ \A i \in 1..n : \A e \in D : F[i][e] = Update(e, f[i], seen)
  BY <1>4, <1>5 DEF Through
<1>7. d \in D
  OBVIOUS
<1> HIDE DEF F, D
<1>8. PICK g \in [SUBSET (1..n) -> D] : Folds(g, n, D, d, F)
  BY <1>6, <1>7, FoldSolved
<1>9. Iter(g)
  <2>1. ASSUME NEW s \in SUBSET (1..n), s # {}
        PROVE  g[s] = Step(g[s \ {Max(s)}], f[Max(s)])
    <3>1. PICK m \in 1..n : m = Max(s)
      BY <2>1, MaxOf
    <3>2. PICK e \in D : e = g[s \ {Max(s)}]
      BY <1>8, <2>1
    <3>3. g[s] = F[m][e]
      BY <1>8, <2>1, <3>1, <3>2 DEF Folds
    <3>4. F[m][e] = Step(e, f[m])
      BY <1>4, <1>5, <1>6
    <3> QED BY <3>1, <3>2, <3>3, <3>4
  <2> QED BY <1>8, <2>1 DEF Folds
<1>10. PICK h : Iter(h) /\ h = CHOOSE x : Iter(x)
  BY <1>9
<1>11. Folds(h, n, D, d, F)
  <2>1. h[{}] = d
    BY <1>10
  <2>2. ASSUME NEW s \in SUBSET (1..n), s # {}, h[s \ {Max(s)}] \in D
        PROVE  h[s] = F[Max(s)][h[s \ {Max(s)}]]
    <3>1. PICK m \in 1..n : m = Max(s)
      BY <2>2, MaxOf
    <3>2. PICK e \in D : e = h[s \ {Max(s)}]
      BY <2>2
    <3>3. h[s] = Step(h[s \ {Max(s)}], f[Max(s)])
      <4> HIDE DEF Step
      <4> QED BY <1>10, <2>2
    <3>4. F[m][e] = Step(e, f[m])
      BY <1>4, <1>5, <1>6
    <3> QED BY <3>1, <3>2, <3>3, <3>4
  <2> QED BY <2>1, <2>2 DEF Folds
<1>12. PICK after : Chain(after, n, D, d, F) /\ after[n] = h[1..n]
  BY <1>6, <1>7, <1>11, FoldChain
<1>13. UpdatesOn(after, n, f, seen)
  <2>1. after \in [0..n -> Database]
    BY <1>12 DEF D, Chain
  <2>2. \A i \in 1..n : i - 1 \in 0..n
    OBVIOUS
  <2> QED BY <1>6, <1>12, <2>1, <2>2 DEF UpdatesOn, Chain, D
<1> QED BY <1>2, <1>10, <1>12, <1>13 DEF Chain

\* What a refresh tells of a purchase order, and which it delivers.
Told(d, po, seen) == KnownToVendor(d, po) /\ seen[po] # "posted"
Delivering(d, S, seen) == {po \in S : KnownToVendor(d, po) /\ seen[po] = "delivered"}

\* One more purchase order is delivered.
LEMMA IntoMore ==
    ASSUME NEW S \in SUBSET PurchaseOrders, NEW po, po \notin S, NEW link, NEW r
    PROVE  /\ SumOf(Into(link, S \cup {po}, r)) = SumOf(Into(link, S, r)) + SumOf(Into(link, {po}, r))
           /\ SumOf(Into(link, S, r)) \in Nat /\ SumOf(Into(link, {po}, r)) \in Nat
<1>1. Into(link, S \cup {po}, r) = Into(link, S, r) \cup Into(link, {po}, r)
  BY DEF Into
<1>2. Into(link, S, r) \cap Into(link, {po}, r) = {}
  BY DEF Into
<1>3. Into(link, S, r) \in SUBSET OrderProducts /\ Into(link, {po}, r) \in SUBSET OrderProducts
  BY DEF Into
<1> QED BY <1>1, <1>2, <1>3, SumOfBoth, SumIsNat

\* Where a refresh is after some purchase orders.
UpdatedTo(d, e, S, seen) ==
    /\ e.link = d.link /\ e.warehouses = d.warehouses
    /\ \A po \in PurchaseOrders :
          e.status[po] = IF po \in S /\ Told(d, po, seen) THEN seen[po] ELSE d.status[po]
    /\ \A r \in Rows : Num(e.stock[r])
          = Num(d.stock[r]) + SumOf(Into(d.link, Delivering(d, S, seen), r))

\* One more is looked at: nobody has touched it before.
LEMMA UpdateOne ==
    ASSUME NEW d \in Database, NEW e \in Database, NEW S \in SUBSET PurchaseOrders,
           NEW seen, NEW po \in PurchaseOrders, po \notin S, seen[po] \in VendorStatuses,
           UpdatedTo(d, e, S, seen)
    PROVE  UpdatedTo(d, Update(e, po, seen), S \cup {po}, seen)
<1> DEFINE g == Update(e, po, seen)  T == S \cup {po}
<1>1. e.status[po] = d.status[po] /\ (Told(e, po, seen) <=> Told(d, po, seen))
  BY DEF UpdatedTo, Told, KnownToVendor
<1>2. seen[po] \in POStatuses
  BY WarehouseAssumption
<1>3. CASE ~Told(d, po, seen)
  <2>1. g = e
    BY <1>1, <1>3 DEF Update, Told
  <2>2. Delivering(d, T, seen) = Delivering(d, S, seen)
    BY <1>3 DEF Delivering, Told
  <2>3. \A p \in PurchaseOrders : p \in T /\ Told(d, p, seen) <=> p \in S /\ Told(d, p, seen)
    BY <1>3
  <2> HIDE DEF g, T
  <2>4. UpdatedTo(d, e, T, seen)
    BY <2>2, <2>3 DEF UpdatedTo
  <2> QED BY <2>1, <2>4 DEF g, T
<1>4. CASE Told(d, po, seen)
  <2>1. /\ g \in Database /\ g.link = e.link /\ g.warehouses = e.warehouses
        /\ \A p \in PurchaseOrders : g.status[p] = IF p = po THEN seen[po] ELSE e.status[p]
        /\ \A r \in Rows : Num(g.stock[r]) = Num(e.stock[r])
              + (IF seen[po] = "delivered" THEN SumOf(Into(e.link, {po}, r)) ELSE 0)
    <3>1. g = set_po_status(e, po, seen[po])
      BY <1>1, <1>4 DEF Update, Told
    <3>2. StatusSet(e, po, seen[po], g)
      BY <1>2, <3>1, SetStatusIs
    <3> HIDE DEF g
    <3> QED BY <3>2 DEF StatusSet
  <2> HIDE DEF g
  <2>2. \A p \in PurchaseOrders :
           g.status[p] = IF p \in T /\ Told(d, p, seen) THEN seen[p] ELSE d.status[p]
    <3> SUFFICES ASSUME NEW p \in PurchaseOrders
                 PROVE  g.status[p] = IF p \in T /\ Told(d, p, seen) THEN seen[p] ELSE d.status[p]
      OBVIOUS
    <3>1. e.status[p] = IF p \in S /\ Told(d, p, seen) THEN seen[p] ELSE d.status[p]
      BY DEF UpdatedTo
    <3>2. g.status[p] = IF p = po THEN seen[po] ELSE e.status[p]
      BY <2>1
    <3> QED BY <1>4, <3>1, <3>2
  <2>3. e.link = d.link /\ e.warehouses = d.warehouses
    BY DEF UpdatedTo
  <2>4. ASSUME NEW r \in Rows
        PROVE  Num(g.stock[r]) = Num(d.stock[r]) + SumOf(Into(d.link, Delivering(d, T, seen), r))
    <3> DEFINE A == Delivering(d, S, seen)
    <3>1. Num(e.stock[r]) = Num(d.stock[r]) + SumOf(Into(d.link, A, r))
      BY DEF UpdatedTo
    <3>2. Num(d.stock[r]) \in Int
      BY DatabaseIs, NumIsInt
    <3>3. A \in SUBSET PurchaseOrders /\ po \notin A
      BY DEF Delivering
    <3>4. /\ SumOf(Into(d.link, A \cup {po}, r)) = SumOf(Into(d.link, A, r)) + SumOf(Into(d.link, {po}, r))
          /\ SumOf(Into(d.link, A, r)) \in Nat /\ SumOf(Into(d.link, {po}, r)) \in Nat
      <4> HIDE DEF A
      <4> QED BY <3>3, IntoMore
    <3>5. Delivering(d, T, seen) = IF seen[po] = "delivered" THEN A \cup {po} ELSE A
      BY <1>4 DEF Delivering, Told
    <3> HIDE DEF A, T
    <3>6. Num(g.stock[r]) = Num(e.stock[r])
              + (IF seen[po] = "delivered" THEN SumOf(Into(d.link, {po}, r)) ELSE 0)
      BY <2>1, <2>3
    <3> QED BY <3>1, <3>2, <3>4, <3>5, <3>6
  <2> HIDE DEF T
  <2>5. UpdatedTo(d, g, T, seen)
    BY <2>1, <2>2, <2>3, <2>4 DEF UpdatedTo
  <2> QED BY <2>5 DEF g, T
<1> QED BY <1>3, <1>4

\* The purchase orders are different ones.
Distinct(f, n) == \A i, j \in 1..n : f[i] = f[j] => i = j

\* So it is after each of them.
LEMMA UpdateSteps ==
    ASSUME NEW d \in Database, NEW n \in Nat, NEW f \in [1..n -> PurchaseOrders],
           Distinct(f, n), NEW seen, Heard(seen, FirstOnes(f, n)),
           NEW after, UpdatesOn(after, n, f, seen), after[0] = d
    PROVE  \A i \in 0..n : after[i] \in Database /\ UpdatedTo(d, after[i], FirstOnes(f, i), seen)
<1> DEFINE Ok == {i \in 0..n : UpdatedTo(d, after[i], FirstOnes(f, i), seen)}
<1>1. 0 \in Ok
  <2>1. FirstOnes(f, 0) = {}
    BY DEF FirstOnes
  <2>2. Delivering(d, {}, seen) = {} /\ \A r : Into(d.link, {}, r) = {}
    BY DEF Delivering, Into
  <2>3. \A r \in Rows : Num(d.stock[r]) = Num(d.stock[r]) + SumOf({})
    BY DatabaseIs, NumIsInt, SumOfFew
  <2>4. UpdatedTo(d, d, {}, seen)
    BY <2>2, <2>3 DEF UpdatedTo
  <2>5. UpdatedTo(d, after[0], FirstOnes(f, 0), seen)
    BY <2>1, <2>4, Zenon
  <2> QED BY <2>5
<1>2. ASSUME NEW i \in 1..n, i - 1 \in Ok PROVE i \in Ok
  <2> DEFINE e == after[i - 1]  S == FirstOnes(f, i - 1)  po == f[i]
  <2>1. i - 1 \in 0..n /\ e \in Database /\ after[i] = Update(e, po, seen)
    BY DEF UpdatesOn
  <2>2. po \in PurchaseOrders /\ S \in SUBSET PurchaseOrders /\ po \notin S
    BY DEF FirstOnes, Distinct
  <2>3. FirstOnes(f, i) = S \cup {po}
    BY DEF FirstOnes
  <2>4. seen[po] \in VendorStatuses
    BY DEF Heard, FirstOnes
  <2>5. UpdatedTo(d, e, S, seen)
    BY <1>2
  <2> HIDE DEF e, S, po
  <2>6. UpdatedTo(d, Update(e, po, seen), S \cup {po}, seen)
    BY <2>1, <2>2, <2>4, <2>5, UpdateOne
  <2>7. UpdatedTo(d, after[i], FirstOnes(f, i), seen)
    BY <2>1, <2>3, <2>6, Zenon
  <2> QED BY <2>7
<1>3. 0..n \subseteq Ok
  <2> HIDE DEF Ok
  <2> QED BY <1>1, <1>2, UpTo
<1> QED BY <1>3 DEF UpdatesOn

-----------------------------------------------------------------------------
(* The transactions.                                                         *)

\* A refresh goes through different purchase orders; one that is asked for without
\* an id looks at none that is delivered.
RefreshOK(t, n) ==
    /\ t.of \in [1..n -> PurchaseOrders] /\ Distinct(t.of, n)
    /\ Heard(t.arg, FirstOnes(t.of, n))
    /\ \/ t.kind = "refresh_one" /\ n = 1
       \/ t.kind = "refresh" /\ \A i \in 1..n : t.db.status[t.of[i]] \notin {"none", "delivered"}
OnePO(t) == t.of[1] \in PurchaseOrders /\ Range(t.of) = {t.of[1]} /\ DOMAIN t.of = {1}
TxOK(t) ==
    /\ t.db \in Database
    /\ \/ t.kind = "create" /\ t.arg \in Warehouses \cup {None}
       \/ t.kind \in {"post", "repost"} /\ OnePO(t)
       \/ t.kind \in Refreshes /\ \E n \in Nat : RefreshOK(t, n)
       \/ t.kind = "edit_po" /\ OnePO(t) /\ t.arg \in {"delivered", "cancelled"}
       \/ t.kind = "save_order" /\ t.arg \in {"po_created", "shipped"}
       \/ t.kind = "save_product" /\ t.of[1] \in OrderProducts /\ t.arg \in Warehouses \cup {None}
       \/ t.kind = "save_stock" /\ t.of \in Rows /\ t.arg \in Int \cup {None}
       \/ t.kind = "delete_warehouse" /\ t.of[1] \in Warehouses

MoveOf(t, r) == SumOf(Into(t.db.link, Delivers(t), r))
                - (IF Ships(t) THEN SumOf(OutOf(t.db.link, r)) ELSE 0)

\* Move, with names for its two sets.
LEMMA MoveIs == \A t, r : Move(t, r) = MoveOf(t, r)
<1> SUFFICES ASSUME NEW t, NEW r PROVE Move(t, r) = MoveOf(t, r)
  OBVIOUS
<1>1. {o \in OrderProducts : /\ Suborder[o] \in Delivers(t)
                             /\ t.db.link[Suborder[o]] # None
                                /\ RowOf(t.db.link[Suborder[o]], o) = r}
        = Into(t.db.link, Delivers(t), r)
  BY DEF Into
<1>2. {o \in OrderProducts : t.db.link[o] # None /\ RowOf(t.db.link[o], o) = r}
        = OutOf(t.db.link, r)
  BY DEF OutOf
<1> QED BY <1>1, <1>2, Zenon DEF Move, MoveOf

\* It is a number.
LEMMA MoveIsInt == \A t, r : MoveOf(t, r) \in Int /\ Move(t, r) \in Int
<1> SUFFICES ASSUME NEW t, NEW r PROVE MoveOf(t, r) \in Int
  BY MoveIs
<1>1. Into(t.db.link, Delivers(t), r) \in SUBSET OrderProducts
  BY DEF Into
<1>2. OutOf(t.db.link, r) \in SUBSET OrderProducts
  BY DEF OutOf
<1>3. SumOf(Into(t.db.link, Delivers(t), r)) \in Nat /\ SumOf(OutOf(t.db.link, r)) \in Nat
  BY <1>1, <1>2, SumIsNat
<1> QED BY <1>3 DEF MoveOf

\* A transaction that neither delivers nor ships moves nothing.
LEMMA MovesNothing ==
    ASSUME NEW t, t.kind \notin Refreshes, ~ (t.kind = "edit_po" /\ t.arg = "delivered"),
           ~Ships(t)
    PROVE  Delivers(t) = {} /\ \A r : MoveOf(t, r) = 0
<1>1. Delivers(t) = {}
  BY DEF Delivers
<1>2. \A r : Into(t.db.link, {}, r) = {}
  BY DEF Into
<1>3. ASSUME NEW r PROVE MoveOf(t, r) = 0
  <2>1. MoveOf(t, r) = SumOf({}) - 0
    BY <1>1, <1>2, Zenon DEF MoveOf
  <2> QED BY <2>1, SumOfFew
<1> QED BY <1>1, <1>3

\* What the result of a transaction is worth.
Computes(t, new) ==
    /\ new \in Database
    /\ \A r \in Rows : ~ByHand(t, r) => Num(new.stock[r]) = Num(t.db.stock[r]) + MoveOf(t, r)
    /\ \A po \in Delivers(t) : po \in PurchaseOrders /\ new.status[po] = "delivered"
    /\ Ships(t) => new.status[Order] = "shipped"
    /\ \A po \in Delivers(t) : IsLast(t, po) =>
          /\ IsComplete(new) /\ t.db.link[po] # None => new.status[Order] = "at_warehouse"
          /\ new.status[Order] # t.db.status[Order] => IsComplete(new)

\* One that leaves the stock as it is.
LEMMA QuietComputes ==
    ASSUME NEW t, t.db \in Database, NEW new \in Database,
           t.kind \notin Refreshes, ~ (t.kind = "edit_po" /\ t.arg = "delivered"), ~Ships(t),
           \A r \in Rows : ByHand(t, r) \/ new.stock[r] = t.db.stock[r]
    PROVE  Computes(t, new)
<1>1. Delivers(t) = {} /\ \A r : MoveOf(t, r) = 0
  BY MovesNothing
<1>2. \A r \in Rows : Num(t.db.stock[r]) \in Int
  BY DatabaseIs, NumIsInt
<1>3. \A r \in Rows : ~ByHand(t, r) => Num(new.stock[r]) = Num(t.db.stock[r]) + MoveOf(t, r)
  BY <1>1, <1>2
<1> QED BY <1>1, <1>3 DEF Computes

\* Creating purchase orders, posting and reposting one.
LEMMA CreateComputes ==
    ASSUME NEW t, TxOK(t), t.kind = "create"
    PROVE  Computes(t, Result(t))
<1> DEFINE new == create_purchase_orders(t.db, t.arg)
<1>1. t.db \in Database /\ t.arg \in Warehouses \cup {None}
  BY DEF TxOK, Refreshes
<1>2. new \in Database /\ new.stock = t.db.stock
  BY <1>1 DEF create_purchase_orders, Database, POStatuses, OrderStatuses
<1>3. ~Ships(t) /\ t.kind \notin Refreshes /\ t.kind # "edit_po"
  BY DEF Ships, Refreshes
<1>4. Computes(t, new)
  <2> HIDE DEF new
  <2> QED BY <1>1, <1>2, <1>3, QuietComputes
<1>5. Result(t) = new
  BY DEF Result, Refreshes
<1> QED BY <1>4, <1>5

LEMMA PostComputes ==
    ASSUME NEW t, TxOK(t), t.kind \in {"post", "repost"}
    PROVE  Computes(t, Result(t))
<1> DEFINE s == IF t.kind = "post" THEN "posted" ELSE "pending"
           new == set_po_status(t.db, t.of[1], s)
<1>1. t.db \in Database /\ t.of[1] \in PurchaseOrders
  BY DEF TxOK, OnePO, Refreshes
<1>2. s \in POStatuses /\ s # "delivered"
  BY DEF POStatuses
<1>3. StatusSet(t.db, t.of[1], s, new)
  <2> HIDE DEF s
  <2> QED BY <1>1, <1>2, SetStatusIs
<1>4. Result(t) = new /\ ~Ships(t) /\ t.kind \notin Refreshes /\ t.kind # "edit_po"
  BY DEF Result, Ships, Refreshes
<1>5. new \in Database /\ new.stock = t.db.stock
  <2>1. new = [t.db EXCEPT !.status[t.of[1]] = s]
    BY <1>2 DEF set_po_status
  <2> QED BY <1>1, <1>3, <2>1 DEF StatusSet, Database
<1> HIDE DEF new
<1>6. Computes(t, new)
  BY <1>1, <1>4, <1>5, QuietComputes
<1> QED BY <1>4, <1>6

\* An administrator's status of a purchase order.
LEMMA EditComputes ==
    ASSUME NEW t, TxOK(t), t.kind = "edit_po"
    PROVE  Computes(t, Result(t))
<1> DEFINE new == set_po_status(t.db, t.of[1], t.arg)
<1>1. t.db \in Database /\ OnePO(t) /\ t.arg \in {"delivered", "cancelled"}
  BY DEF TxOK, Refreshes
<1>2. t.arg \in POStatuses /\ t.of[1] \in PurchaseOrders
  BY <1>1 DEF POStatuses, OnePO
<1>3. StatusSet(t.db, t.of[1], t.arg, new)
  BY <1>1, <1>2, SetStatusIs
<1>4. Result(t) = new /\ ~Ships(t) /\ t.kind \notin Refreshes
  BY DEF Result, Ships, Refreshes
<1>5. CASE t.arg = "cancelled"
  <2>1. new = [t.db EXCEPT !.status[t.of[1]] = t.arg]
    BY <1>5 DEF set_po_status
  <2>2. new \in Database /\ new.stock = t.db.stock
    BY <1>1, <1>3, <2>1 DEF StatusSet, Database
  <2> HIDE DEF new
  <2>3. Computes(t, new)
    BY <1>1, <1>4, <1>5, <2>2, QuietComputes
  <2> QED BY <1>4, <2>3
<1>6. CASE t.arg = "delivered"
  <2> DEFINE po == t.of[1]
  <2>1. Delivers(t) = {po}
    BY <1>1, <1>4, <1>6 DEF Delivers, OnePO
  <2> HIDE DEF new, po
  <2>2. ASSUME NEW r \in Rows PROVE Num(new.stock[r]) = Num(t.db.stock[r]) + MoveOf(t, r)
    <3>1. Into(t.db.link, {po}, r) \in SUBSET OrderProducts
      BY DEF Into
    <3>2. SumOf(Into(t.db.link, {po}, r)) \in Nat
      BY <3>1, SumIsNat
    <3>3. MoveOf(t, r) = SumOf(Into(t.db.link, {po}, r)) - 0
      BY <1>4, <2>1, Zenon DEF MoveOf
    <3>4. Num(new.stock[r]) = Num(t.db.stock[r]) + SumOf(Into(t.db.link, {po}, r))
      BY <1>3, <1>6 DEF StatusSet, po
    <3> QED BY <3>2, <3>3, <3>4
  <2>3. new \in Database /\ po \in PurchaseOrders /\ new.status[po] = "delivered"
    BY <1>2, <1>3, <1>6 DEF StatusSet, po
  <2>4. new.status[Order] = IF t.db.link[po] # None /\ IsComplete(new)
                            THEN "at_warehouse" ELSE t.db.status[Order]
    BY <1>3, <1>6 DEF StatusSet, po
  <2>5. Computes(t, new)
    BY <1>4, <2>1, <2>2, <2>3, <2>4 DEF Computes
  <2> QED BY <1>4, <2>5
<1> QED BY <1>1, <1>5, <1>6

\* The status of the sale order.
LEMMA OrderComputes ==
    ASSUME NEW t, TxOK(t), t.kind = "save_order"
    PROVE  Computes(t, Result(t))
<1> DEFINE new == Result(t)  c == [t.db EXCEPT !.status[Order] = t.arg]
<1>1. t.db \in Database /\ t.arg \in {"po_created", "shipped"}
  BY DEF TxOK, Refreshes
<1>2. new = set_order_status(t.db, t.arg) /\ t.kind \notin Refreshes /\ t.kind # "edit_po"
  BY DEF Result, Refreshes
<1>3. /\ c \in Database /\ c.stock = t.db.stock /\ c.link = t.db.link
      /\ c.status[Order] = t.arg
  BY <1>1 DEF Database, OrderStatuses
<1> HIDE DEF c
<1>4. CASE ~Ships(t)
  <2>1. new = t.db \/ new = c
    BY <1>1, <1>2, <1>4 DEF Ships, set_order_status, c
  <2>2. new \in Database /\ \A r \in Rows : new.stock[r] = t.db.stock[r]
    BY <1>1, <1>3, <2>1
  <2> HIDE DEF new
  <2>3. Computes(t, new)
    BY <1>1, <1>2, <1>4, <2>2, QuietComputes
  <2> QED BY <2>3 DEF new
<1>5. CASE Ships(t)
  <2> DEFINE e == on_sale_order_shipped(c)
  <2>1. new = e
    BY <1>1, <1>2, <1>5 DEF Ships, set_order_status, c
  <2>2. /\ e \in Database /\ SameButStock(c, e)
        /\ \A r \in Rows : Num(e.stock[r]) = Num(c.stock[r]) - SumOf(OutOf(c.link, r))
    BY <1>3, ShippedIs
  <2> HIDE DEF e, new
  <2>3. Delivers(t) = {}
    BY <1>2 DEF Delivers
  <2>4. ASSUME NEW r \in Rows PROVE Num(new.stock[r]) = Num(t.db.stock[r]) + MoveOf(t, r)
    <3>1. Into(t.db.link, {}, r) = {} /\ OutOf(t.db.link, r) \in SUBSET OrderProducts
      BY DEF Into, OutOf
    <3>2. SumOf(OutOf(t.db.link, r)) \in Nat
      BY <3>1, SumIsNat
    <3>3. MoveOf(t, r) = SumOf({}) - SumOf(OutOf(t.db.link, r))
      BY <1>5, <2>3, <3>1, Zenon DEF MoveOf
    <3>4. Num(new.stock[r]) = Num(t.db.stock[r]) - SumOf(OutOf(t.db.link, r))
      BY <1>3, <2>1, <2>2
    <3>5. Num(t.db.stock[r]) \in Int
      BY <1>1, DatabaseIs, NumIsInt
    <3> QED BY <3>2, <3>3, <3>4, <3>5, SumOfFew
  <2>5. new.status[Order] = "shipped"
    BY <1>3, <1>5, <2>1, <2>2 DEF SameButStock, Ships
  <2>6. Computes(t, new)
    BY <2>1, <2>2, <2>3, <2>4, <2>5 DEF Computes
  <2> QED BY <2>6 DEF new
<1> QED BY <1>4, <1>5

\* Editing links, the stock and the warehouses.
LEMMA EditingComputes ==
    ASSUME NEW t, TxOK(t), t.kind \in {"save_product", "save_stock", "delete_warehouse"}
    PROVE  Computes(t, Result(t))
<1> DEFINE new == Result(t)
<1>1. t.db \in Database /\ ~Ships(t) /\ t.kind \notin Refreshes /\ t.kind # "edit_po"
  BY DEF TxOK, Ships, Refreshes
<1>2. new \in Database /\ \A r \in Rows : ByHand(t, r) \/ new.stock[r] = t.db.stock[r]
  <2>1. CASE t.kind = "save_product"
    <3>1. new = [t.db EXCEPT !.link[t.of[1]] = t.arg]
      BY <2>1 DEF Result, on_saving, Refreshes
    <3>2. t.arg \in Warehouses \cup {None}
      BY <2>1 DEF TxOK, Refreshes
    <3> HIDE DEF new
    <3> QED BY <1>1, <3>1, <3>2 DEF Database
  <2>2. CASE t.kind = "save_stock"
    <3>1. new = [t.db EXCEPT !.stock[t.of] = t.arg]
      BY <2>2 DEF Result, save_warehouse_product, Refreshes
    <3>2. t.arg \in Int \cup {None}
      BY <2>2 DEF TxOK, Refreshes
    <3> HIDE DEF new
    <3> QED BY <1>1, <2>2, <3>1, <3>2 DEF Database, ByHand
  <2>3. CASE t.kind = "delete_warehouse"
    <3>1. new = delete_warehouse(t.db, t.of[1])
      BY <2>3 DEF Result, Refreshes
    <3> HIDE DEF new
    <3> QED BY <1>1, <2>3, <3>1 DEF Database, ByHand, delete_warehouse
  <2> QED BY <2>1, <2>2, <2>3
<1>3. Computes(t, new)
  <2> HIDE DEF new
  <2> QED BY <1>1, <1>2, QuietComputes
<1> QED BY <1>3

\* The status of the sale order after each purchase order of a refresh.
Completes(d, f, seen, after, i) ==
    /\ KnownToVendor(d, f[i]) /\ seen[f[i]] = "delivered" /\ d.link[f[i]] # None
    /\ IsComplete(after[i])

\* A delivery that completes the sale order moves it, and nothing else does.
LEMMA OrderSteps ==
    ASSUME NEW d \in Database, NEW n \in Nat, NEW f \in [1..n -> PurchaseOrders],
           Distinct(f, n), NEW seen, Heard(seen, FirstOnes(f, n)),
           NEW after, UpdatesOn(after, n, f, seen), after[0] = d, NEW i \in 1..n
    PROVE  after[i].status[Order] = IF Completes(d, f, seen, after, i) THEN "at_warehouse"
                                    ELSE after[i - 1].status[Order]
<1> DEFINE e == after[i - 1]  po == f[i]
<1>1. i - 1 \in 0..n /\ i \in 0..n /\ po \in PurchaseOrders /\ po \notin FirstOnes(f, i - 1)
  BY DEF FirstOnes, Distinct
<1>2. e \in Database /\ UpdatedTo(d, e, FirstOnes(f, i - 1), seen)
  BY <1>1, UpdateSteps
<1>3. after[i] = Update(e, po, seen)
  BY DEF UpdatesOn
<1>4. e.link = d.link /\ e.status[po] = d.status[po]
  BY <1>1, <1>2 DEF UpdatedTo
<1>5. seen[po] \in POStatuses
  BY WarehouseAssumption DEF Heard, FirstOnes
<1> HIDE DEF e, po
<1>6. CASE Told(e, po, seen)
  <2>1. StatusSet(e, po, seen[po], after[i])
    BY <1>1, <1>2, <1>3, <1>5, <1>6, SetStatusIs DEF Update, Told
  <2> QED BY <1>4, <1>6, <2>1 DEF StatusSet, Completes, Told, KnownToVendor, po, e
<1>7. CASE ~Told(e, po, seen)
  <2>1. after[i] = e
    BY <1>3, <1>7 DEF Update, Told
  <2> QED BY <1>4, <1>7, <2>1 DEF Completes, Told, KnownToVendor, po, e
<1> QED BY <1>6, <1>7

\* The last delivery is what decides: whatever is told later is not "delivered".
LEMMA LastDecides ==
    ASSUME NEW d \in Database, NEW n \in Nat, NEW f \in [1..n -> PurchaseOrders],
           Distinct(f, n), NEW seen, Heard(seen, FirstOnes(f, n)),
           NEW after, UpdatesOn(after, n, f, seen), after[0] = d,
           NEW k \in 1..n, KnownToVendor(d, f[k]), seen[f[k]] = "delivered",
           \A j \in 1..n : j > k => ~ (KnownToVendor(d, f[j]) /\ seen[f[j]] = "delivered"),
           IsComplete(after[n]), d.link[f[k]] # None
    PROVE  after[n].status[Order] = "at_warehouse"
<1> DEFINE Ok == {i \in 0..n : i >= k => after[i].status[Order] = "at_warehouse"}
<1>1. UpdatedTo(d, after[k], FirstOnes(f, k), seen) /\ UpdatedTo(d, after[n], FirstOnes(f, n), seen)
  BY UpdateSteps
<1>2. IsComplete(after[k])
  <2> SUFFICES ASSUME NEW p \in PurchaseOrders PROVE after[k].status[p] \in {"none", "delivered"}
    BY DEF IsComplete
  <2>1. after[n].status[p] \in {"none", "delivered"}
    BY DEF IsComplete
  <2>2. after[n].status[p] = IF p \in FirstOnes(f, n) /\ Told(d, p, seen) THEN seen[p] ELSE d.status[p]
    BY <1>1 DEF UpdatedTo
  <2>3. after[k].status[p] = IF p \in FirstOnes(f, k) /\ Told(d, p, seen) THEN seen[p] ELSE d.status[p]
    BY <1>1 DEF UpdatedTo
  <2>4. CASE p \in FirstOnes(f, n) \ FirstOnes(f, k) /\ Told(d, p, seen)
    <3>1. PICK j \in 1..n : p = f[j] /\ j > k
      BY <2>4 DEF FirstOnes
    <3>2. seen[p] \in VendorStatuses /\ seen[p] # "delivered"
      BY <2>4, <3>1 DEF Heard, FirstOnes, Told
    <3>3. seen[p] # "none"
      BY <3>2, WarehouseAssumption
    <3> QED BY <2>1, <2>2, <2>4, <3>2, <3>3
  <2>5. p \in FirstOnes(f, k) => p \in FirstOnes(f, n)
    BY DEF FirstOnes
  <2> QED BY <2>1, <2>2, <2>3, <2>4, <2>5
<1>3. after[k].status[Order] = "at_warehouse"
  <2>1. Completes(d, f, seen, after, k)
    BY <1>2 DEF Completes
  <2> QED BY <2>1, OrderSteps
<1>4. 0 \in Ok
  OBVIOUS
<1>5. ASSUME NEW i \in 1..n, i - 1 \in Ok PROVE i \in Ok
  <2>1. CASE i > k
    <3>1. ~Completes(d, f, seen, after, i)
      BY <2>1 DEF Completes
    <3>2. after[i].status[Order] = after[i - 1].status[Order]
      BY <3>1, OrderSteps
    <3> QED BY <1>5, <2>1, <3>2
  <2>2. CASE i = k
    BY <1>3, <2>2
  <2>3. CASE i < k
    BY <2>3
  <2> QED BY <2>1, <2>2, <2>3
<1>6. 0..n \subseteq Ok
  <2> HIDE DEF Ok
  <2> QED BY <1>4, <1>5, UpTo
<1> QED BY <1>6

\* The sale order is moved by the last of several, if by any: those that are looked at
\* later are not delivered yet.
LEMMA OnlyLastCompletes ==
    ASSUME NEW d \in Database, NEW n \in Nat, NEW f \in [1..n -> PurchaseOrders],
           Distinct(f, n), NEW seen, Heard(seen, FirstOnes(f, n)),
           NEW after, UpdatesOn(after, n, f, seen), after[0] = d,
           n = 1 \/ \A i \in 1..n : d.status[f[i]] \notin {"none", "delivered"},
           after[n].status[Order] # d.status[Order]
    PROVE  IsComplete(after[n])
<1> DEFINE Ok == {i \in 0..n : after[i].status[Order] # d.status[Order] => IsComplete(after[n])}
<1>1. 0 \in Ok
  OBVIOUS
<1>2. ASSUME NEW i \in 1..n, i - 1 \in Ok PROVE i \in Ok
  <2>1. CASE ~Completes(d, f, seen, after, i)
    <3>1. after[i].status[Order] = after[i - 1].status[Order]
      BY <2>1, OrderSteps
    <3> QED BY <1>2, <3>1
  <2>2. CASE Completes(d, f, seen, after, i)
    <3>1. IsComplete(after[i])
      BY <2>2 DEF Completes
    <3>2. ASSUME i < n PROVE FALSE
      <4> DEFINE p == f[i + 1]
      <4>1. i + 1 \in 1..n /\ p \in PurchaseOrders /\ p \notin FirstOnes(f, i) /\ i \in 0..n
        BY <3>2 DEF FirstOnes, Distinct
      <4>2. UpdatedTo(d, after[i], FirstOnes(f, i), seen)
        BY <4>1, UpdateSteps
      <4>3. after[i].status[p] = d.status[p]
        BY <4>1, <4>2 DEF UpdatedTo
      <4>4. d.status[p] \notin {"none", "delivered"}
        BY <3>2, <4>1
      <4> QED BY <3>1, <4>1, <4>3, <4>4 DEF IsComplete
    <3> QED BY <3>1, <3>2
  <2> QED BY <2>1, <2>2
<1>3. 0..n \subseteq Ok
  <2> HIDE DEF Ok
  <2> QED BY <1>1, <1>2, UpTo
<1> QED BY <1>3

\* A refresh.
LEMMA RefreshComputes ==
    ASSUME NEW t, TxOK(t), t.kind \in Refreshes
    PROVE  Computes(t, Result(t))
<1> DEFINE d == t.db  f == t.of  seen == t.arg  new == Result(t)
<1>1. PICK n \in Nat : RefreshOK(t, n)
  BY DEF TxOK, Refreshes
<1>2. /\ d \in Database /\ f \in [1..n -> PurchaseOrders] /\ Distinct(f, n)
      /\ Heard(seen, FirstOnes(f, n))
      /\ n = 1 \/ \A i \in 1..n : d.status[f[i]] \notin {"none", "delivered"}
  BY <1>1 DEF TxOK, RefreshOK
<1>3. new = update_purchase_orders_status(d, f, seen)
  BY DEF Result, Refreshes
<1>4. Range(f) = FirstOnes(f, n)
  BY <1>2 DEF Range, FirstOnes
<1>5. Delivers(t) = Delivering(d, FirstOnes(f, n), seen) /\ ~Ships(t)
  BY <1>4 DEF Delivers, Delivering, Ships, Refreshes
<1>6. PICK after : UpdatesOn(after, n, f, seen) /\ after[0] = d /\ after[n] = new
  BY <1>2, <1>3, UpdateChain
<1> HIDE DEF d, f, seen, new
<1>7. new \in Database /\ UpdatedTo(d, new, FirstOnes(f, n), seen)
  BY <1>2, <1>6, UpdateSteps
<1>8. ASSUME NEW r \in Rows PROVE Num(new.stock[r]) = Num(d.stock[r]) + MoveOf(t, r)
  <2> DEFINE A == Into(d.link, Delivers(t), r)
  <2>1. A \in SUBSET OrderProducts
    BY DEF Into
  <2>2. SumOf(A) \in Nat
    BY <2>1, SumIsNat
  <2>3. MoveOf(t, r) = SumOf(A) - 0
    BY <1>5, Zenon DEF MoveOf, d
  <2>4. Num(new.stock[r]) = Num(d.stock[r]) + SumOf(A)
    BY <1>5, <1>7 DEF UpdatedTo
  <2> QED BY <2>2, <2>3, <2>4
<1>9. \A po \in Delivers(t) : po \in PurchaseOrders /\ new.status[po] = "delivered"
  BY <1>2, <1>5, <1>7 DEF UpdatedTo, Delivering, Told, FirstOnes
<1>10. ASSUME NEW po \in Delivers(t), IsLast(t, po)
       PROVE  /\ IsComplete(new) /\ d.link[po] # None => new.status[Order] = "at_warehouse"
              /\ new.status[Order] # d.status[Order] => IsComplete(new)
  <2>1. PICK k \in 1..n : f[k] = po /\ \A j \in 1..n : j > k => f[j] \notin Delivers(t)
    BY <1>2, <1>10 DEF IsLast, f
  <2>2. KnownToVendor(d, f[k]) /\ seen[f[k]] = "delivered"
    BY <1>5, <2>1 DEF Delivering
  <2>3. \A j \in 1..n : j > k => ~ (KnownToVendor(d, f[j]) /\ seen[f[j]] = "delivered")
    BY <1>5, <2>1 DEF Delivering, FirstOnes
  <2>4. ASSUME IsComplete(new), d.link[po] # None PROVE new.status[Order] = "at_warehouse"
    BY <1>2, <1>6, <2>1, <2>2, <2>3, <2>4, LastDecides
  <2>5. ASSUME new.status[Order] # d.status[Order] PROVE IsComplete(new)
    BY <1>2, <1>6, <2>5, OnlyLastCompletes
  <2> QED BY <2>4, <2>5
<1> QED BY <1>5, <1>7, <1>8, <1>9, <1>10 DEF Computes, d, new

\* Every transaction computes what it should.
LEMMA ResultComputes ==
    ASSUME NEW t, TxOK(t)
    PROVE  Computes(t, Result(t))
<1>1. t.kind \in {"create", "post", "repost", "edit_po", "save_order", "save_product",
                  "save_stock", "delete_warehouse"} \cup Refreshes
  BY DEF TxOK
<1> QED BY <1>1, CreateComputes, PostComputes, EditComputes, OrderComputes, EditingComputes,
           RefreshComputes

-----------------------------------------------------------------------------
(* The stock and the moves.                                                  *)

WarehouseTyped ==
    /\ db \in Database
    /\ tx = [w \in Workers |-> tx[w]] /\ \A w \in Workers : tx[w] # None => TxOK(tx[w])
    /\ ledger \in [Rows -> Int]
    /\ counted \in [PurchaseOrders -> Nat]
    /\ taken \in Nat

\* What is counted once is delivered, also for who saw it delivered, and what was
\* taken once is shipped.
CountedIsDelivered == \A po \in PurchaseOrders \ again :
    counted[po] = 0 \/ (counted[po] = 1 /\ db.status[po] = "delivered")
StillDelivered == \A w \in Workers : \A po \in PurchaseOrders \ again :
    tx[w] # None /\ tx[w].db.status[po] = "delivered" => db.status[po] = "delivered"
TakenIsShipped == reopened \/ taken = 0 \/ (taken = 1 /\ db.status[Order] = "shipped")

WInv == WarehouseTyped /\ StockIsKept /\ CountedIsDelivered /\ StillDelivered /\ TakenIsShipped

\* Nothing is in stock at the beginning.
LEMMA WarehouseBegins == Init => WInv
<1> SUFFICES ASSUME Init PROVE WInv
  OBVIOUS
<1>1. db \in Database
  BY DEF Init, Database, POStatuses, OrderStatuses
<1>2. tx = [w \in Workers |-> None] /\ \A w \in Workers : tx[w] = None
  BY DEF Init
<1>3. StockIsKept
  BY DEF Init, StockIsKept
<1>4. WarehouseTyped
  BY <1>1, <1>2 DEF Init, WarehouseTyped
<1> QED BY <1>1, <1>2, <1>3, <1>4 DEF Init, WInv, CountedIsDelivered, StillDelivered, TakenIsShipped

\* What begins is a transaction.
LEMMA BeginIs ==
    ASSUME NEW w \in Workers, NEW kind, NEW of, NEW arg, WInv, Begin(w, kind, of, arg),
           TxOK([kind |-> kind, of |-> of, arg |-> arg, db |-> db])
    PROVE  WInv'
<1> DEFINE t == [kind |-> kind, of |-> of, arg |-> arg, db |-> db]
<1>1. /\ tx' = [tx EXCEPT ![w] = t]
      /\ UNCHANGED <<db, ledger, torn, counted, again, taken, reopened>>
  BY DEF Begin
<1>2. t.db = db
  OBVIOUS
<1>3. TxOK(t)
  OBVIOUS
<1> HIDE DEF t
<1>4. tx' = [v \in Workers |-> IF v = w THEN t ELSE tx[v]]
  BY <1>1 DEF WInv, WarehouseTyped
<1>5. WarehouseTyped'
  BY <1>1, <1>3, <1>4 DEF WInv, WarehouseTyped
<1>6. StillDelivered'
  BY <1>1, <1>2, <1>4 DEF WInv, StillDelivered
<1>7. StockIsKept' /\ CountedIsDelivered' /\ TakenIsShipped'
  BY <1>1 DEF WInv, StockIsKept, CountedIsDelivered, TakenIsShipped
<1> QED BY <1>5, <1>6, <1>7 DEF WInv

\* A sequence of one.
LEMMA OneIs ==
    ASSUME NEW x
    PROVE  <<x>>[1] = x /\ DOMAIN <<x>> = {1} /\ Range(<<x>>) = {x}
<1>1. <<x>>[1] = x /\ DOMAIN <<x>> = {1}
  OBVIOUS
<1> QED BY <1>1 DEF Range

\* Every request and every task begins as a transaction.
LEMMA BeginsKeep ==
    ASSUME WInv, NEW w \in Workers,
           \/ BeginCreate(w) \/ BeginPost(w) \/ BeginRefresh(w) \/ BeginEditPO(w)
           \/ BeginRepost(w) \/ BeginSaveOrder(w) \/ BeginSaveOrderProduct(w)
           \/ BeginSaveStock(w) \/ BeginDeleteStock(w) \/ BeginDeleteWarehouse(w)
    PROVE  WInv'
<1> DEFINE T(kind, of, arg) == [kind |-> kind, of |-> of, arg |-> arg, db |-> db]
<1>0. db \in Database /\ db.warehouses \subseteq Warehouses
  BY DatabaseIs DEF WInv, WarehouseTyped
<1>1. CASE BeginCreate(w)
  <2>1. PICK wh \in Warehouses \cup {None} : Begin(w, "create", <<>>, wh)
    BY <1>1 DEF BeginCreate
  <2>2. TxOK(T("create", <<>>, wh))
    BY <1>0 DEF TxOK
  <2> QED BY <2>1, <2>2, BeginIs
<1>2. CASE BeginPost(w)
  <2>1. PICK po \in PurchaseOrders : Begin(w, "post", <<po>>, None)
    BY <1>2 DEF BeginPost
  <2>2. TxOK(T("post", <<po>>, None))
    BY <1>0, OneIs DEF TxOK, OnePO
  <2> QED BY <2>1, <2>2, BeginIs
<1>3. CASE BeginRefresh(w)
  <2>1. CASE \E s \in SetToSeqs(Refreshed(db)), seen \in [Refreshed(db) -> VendorStatuses] :
                Begin(w, "refresh", s, seen)
    <3>1. PICK s \in SetToSeqs(Refreshed(db)), seen \in [Refreshed(db) -> VendorStatuses] :
                Begin(w, "refresh", s, seen)
      BY <2>1
    <3> DEFINE n == Cardinality(Refreshed(db))
    <3>2. n \in Nat
      <4>1. IsFiniteSet(Refreshed(db))
        BY WarehouseAssumption, FS_Subset DEF Refreshed
      <4> QED BY <4>1, FS_CardinalityType
    <3>3. /\ s \in [1..n -> Refreshed(db)]
          /\ \A i, j \in 1..n : i # j => s[i] # s[j]
      BY DEF SetToSeqs
    <3> HIDE DEF n
    <3>4. /\ s \in [1..n -> PurchaseOrders] /\ Distinct(s, n)
          /\ \A i \in 1..n : db.status[s[i]] \notin {"none", "delivered"}
          /\ Heard(seen, FirstOnes(s, n))
      BY <3>3 DEF Refreshed, Distinct, Heard, FirstOnes
    <3>5. RefreshOK(T("refresh", s, seen), n)
      BY <3>4 DEF RefreshOK
    <3>6. TxOK(T("refresh", s, seen))
      BY <1>0, <3>2, <3>5 DEF TxOK, Refreshes
    <3> QED BY <3>1, <3>6, BeginIs
  <2>2. CASE \E po \in Existing(db), s \in VendorStatuses :
                Begin(w, "refresh_one", <<po>>, [x \in {po} |-> s])
    <3>1. PICK po \in PurchaseOrders, s \in VendorStatuses :
                Begin(w, "refresh_one", <<po>>, [x \in {po} |-> s])
      BY <2>2 DEF Existing
    <3> DEFINE f == <<po>>  seen == [x \in {po} |-> s]
    <3>2. f \in [1..1 -> PurchaseOrders] /\ f[1] = po
      OBVIOUS
    <3>3. seen[po] = s
      OBVIOUS
    <3> HIDE DEF f, seen
    <3>4. Distinct(f, 1) /\ Heard(seen, FirstOnes(f, 1))
      BY <3>2, <3>3 DEF Distinct, Heard, FirstOnes
    <3>5. RefreshOK(T("refresh_one", f, seen), 1)
      BY <3>2, <3>4 DEF RefreshOK
    <3>6. TxOK(T("refresh_one", f, seen))
      BY <1>0, <3>5 DEF TxOK, Refreshes
    <3>7. Begin(w, "refresh_one", f, seen)
      BY <3>1 DEF f, seen
    <3> QED BY <3>6, <3>7, BeginIs
  <2> QED BY <1>3, <2>1, <2>2 DEF BeginRefresh
<1>4. CASE BeginEditPO(w)
  <2>1. PICK po \in PurchaseOrders, s \in {"delivered", "cancelled"} : Begin(w, "edit_po", <<po>>, s)
    BY <1>4 DEF BeginEditPO, Existing
  <2>2. TxOK(T("edit_po", <<po>>, s))
    BY <1>0, OneIs DEF TxOK, OnePO
  <2> QED BY <2>1, <2>2, BeginIs
<1>5. CASE BeginRepost(w)
  <2>1. PICK po \in PurchaseOrders : Begin(w, "repost", <<po>>, None)
    BY <1>5 DEF BeginRepost, Existing
  <2>2. TxOK(T("repost", <<po>>, None))
    BY <1>0, OneIs DEF TxOK, OnePO
  <2> QED BY <2>1, <2>2, BeginIs
<1>6. CASE BeginSaveOrder(w)
  <2>1. PICK s \in {"po_created", "shipped"} : Begin(w, "save_order", <<Order>>, s)
    BY <1>6 DEF BeginSaveOrder
  <2>2. TxOK(T("save_order", <<Order>>, s))
    BY <1>0 DEF TxOK
  <2> QED BY <2>1, <2>2, BeginIs
<1>7. CASE BeginSaveOrderProduct(w)
  <2>1. PICK o \in OrderProducts, wh \in Warehouses \cup {None} : Begin(w, "save_product", <<o>>, wh)
    BY <1>0, <1>7 DEF BeginSaveOrderProduct
  <2>2. TxOK(T("save_product", <<o>>, wh))
    BY <1>0 DEF TxOK
  <2> QED BY <2>1, <2>2, BeginIs
<1>8. CASE BeginSaveStock(w) \/ BeginDeleteStock(w)
  <2>1. PICK r \in Rows, n \in Int \cup {None} : Begin(w, "save_stock", r, n)
    <3>1. CASE BeginSaveStock(w)
      <4>1. PICK r \in Rows, n \in {5} : Begin(w, "save_stock", r, n)
        BY <3>1 DEF BeginSaveStock
      <4> QED BY <4>1
    <3>2. CASE BeginDeleteStock(w)
      <4>1. PICK r \in Rows : Begin(w, "save_stock", r, None)
        BY <3>2 DEF BeginDeleteStock
      <4> QED BY <4>1
    <3> QED BY <1>8, <3>1, <3>2
  <2>2. TxOK(T("save_stock", r, n))
    BY <1>0 DEF TxOK
  <2> QED BY <2>1, <2>2, BeginIs
<1>9. CASE BeginDeleteWarehouse(w)
  <2>1. PICK x \in Warehouses : Begin(w, "delete_warehouse", <<x>>, None)
    BY <1>0, <1>9 DEF BeginDeleteWarehouse
  <2>2. TxOK(T("delete_warehouse", <<x>>, None))
    BY <1>0 DEF TxOK
  <2> QED BY <2>1, <2>2, BeginIs
<1> QED BY <1>1, <1>2, <1>3, <1>4, <1>5, <1>6, <1>7, <1>8, <1>9

\* The parts of what a commit writes.
NextLink(t) == IF t.kind = "create" THEN create_purchase_orders(db, t.arg).link
               ELSE Merged(t.db.link, Result(t).link, db.link)

WrittenOver(old, new, now, out, S, T) ==
    /\ out \in [S -> T]
    /\ \A x \in S : out[x] = IF new[x] # old[x] THEN new[x] ELSE now[x]
    /\ old = now => out = new

\* A commit writes what was changed over what is there.
LEMMA MergedIs ==
    ASSUME NEW S, NEW T, NEW old \in [S -> T], NEW new \in [S -> T], NEW now \in [S -> T]
    PROVE  WrittenOver(old, new, now, Merged(old, new, now), S, T)
  BY DEF Merged, WrittenOver

\* What a commit leaves.
LEMMA CommitIs ==
    ASSUME NEW w \in Workers, WInv, Commit(w), NEW t, t = tx[w], NEW new, new = Result(t)
    PROVE  /\ TxOK(t) /\ Computes(t, new) /\ t.db \in Database /\ db' \in Database
           /\ \A r \in Rows : db'.stock[r]
                = IF new.stock[r] # t.db.stock[r] THEN new.stock[r] ELSE db.stock[r]
           /\ \A x \in PurchaseOrders \cup {Order} : db'.status[x]
                = IF new.status[x] # t.db.status[x] THEN new.status[x] ELSE db.status[x]
           /\ t.db.status = db.status => db'.status = new.status
           /\ tx' = [v \in Workers |-> IF v = w THEN None ELSE tx[v]]
<1>1. t # None /\ TxOK(t) /\ db \in Database /\ t.db \in Database
  BY DEF Commit, WInv, WarehouseTyped, TxOK
<1>2. Computes(t, new) /\ new \in Database
  BY <1>1, ResultComputes DEF Computes
<1>3. db' = [stock |-> Merged(t.db.stock, new.stock, db.stock),
             link |-> NextLink(t),
             status |-> Merged(t.db.status, new.status, db.status),
             warehouses |-> db.warehouses \ (t.db.warehouses \ new.warehouses)]
  BY DEF Commit, NextLink
<1>4. NextLink(t) \in [OrderProducts \cup PurchaseOrders -> Warehouses \cup {None}]
  <2>1. CASE t.kind = "create"
    <3>1. t.arg \in Warehouses \cup {None}
      BY <1>1, <2>1 DEF TxOK, Refreshes
    <3> QED BY <1>1, <2>1, <3>1 DEF NextLink, create_purchase_orders, Database
  <2>2. CASE t.kind # "create"
    <3>1. /\ t.db.link \in [OrderProducts \cup PurchaseOrders -> Warehouses \cup {None}]
          /\ new.link \in [OrderProducts \cup PurchaseOrders -> Warehouses \cup {None}]
          /\ db.link \in [OrderProducts \cup PurchaseOrders -> Warehouses \cup {None}]
      BY <1>1, <1>2, DatabaseIs
    <3>2. Merged(t.db.link, new.link, db.link)
             \in [OrderProducts \cup PurchaseOrders -> Warehouses \cup {None}]
      BY <3>1, MergedIs DEF WrittenOver
    <3> QED BY <2>2, <3>2 DEF NextLink
  <2> QED BY <2>1, <2>2
<1>5. WrittenOver(t.db.stock, new.stock, db.stock, Merged(t.db.stock, new.stock, db.stock),
                  Rows, Int \cup {None})
  <2>1. /\ t.db.stock \in [Rows -> Int \cup {None}] /\ new.stock \in [Rows -> Int \cup {None}]
        /\ db.stock \in [Rows -> Int \cup {None}]
    BY <1>1, <1>2, DatabaseIs
  <2> QED BY <2>1, MergedIs
<1>6. WrittenOver(t.db.status, new.status, db.status, Merged(t.db.status, new.status, db.status),
                  PurchaseOrders \cup {Order}, POStatuses \cup OrderStatuses)
  <2>1. /\ t.db.status \in [PurchaseOrders \cup {Order} -> POStatuses \cup OrderStatuses]
        /\ new.status \in [PurchaseOrders \cup {Order} -> POStatuses \cup OrderStatuses]
        /\ db.status \in [PurchaseOrders \cup {Order} -> POStatuses \cup OrderStatuses]
    BY <1>1, <1>2, DatabaseIs
  <2> QED BY <2>1, MergedIs
<1>7. db.warehouses \ (t.db.warehouses \ new.warehouses) \in SUBSET Warehouses
  BY <1>1, DatabaseIs
<1>8. db' \in Database
  BY <1>3, <1>4, <1>5, <1>6, <1>7 DEF Database, WrittenOver
<1>9. tx' = [v \in Workers |-> IF v = w THEN None ELSE tx[v]]
  BY DEF Commit, WInv, WarehouseTyped
<1>10. db'.stock = Merged(t.db.stock, new.stock, db.stock)
       /\ db'.status = Merged(t.db.status, new.status, db.status)
  BY <1>3
<1> QED BY <1>1, <1>2, <1>5, <1>6, <1>8, <1>9, <1>10 DEF WrittenOver

\* A row that was as the transaction saw it gets what the transaction moves.
LEMMA CommitKeepsStock ==
    ASSUME NEW w \in Workers, WInv, Commit(w)
    PROVE  StockIsKept' /\ ledger' \in [Rows -> Int]
<1> DEFINE t == tx[w]  new == Result(t)
<1>1. /\ TxOK(t) /\ Computes(t, new) /\ t.db \in Database /\ db' \in Database
      /\ \A r \in Rows : db'.stock[r]
           = IF new.stock[r] # t.db.stock[r] THEN new.stock[r] ELSE db.stock[r]
  BY CommitIs
<1>2. /\ ledger' = [r \in Rows |->
                      IF ByHand(t, r) THEN IF db'.stock[r] = None THEN 0 ELSE db'.stock[r]
                      ELSE ledger[r] + Move(t, r)]
      /\ torn' = (torn \cup {r \in Dirty(t.db.stock, new.stock) : db.stock[r] # t.db.stock[r]})
                   \ {r \in Rows : ByHand(t, r)}
  BY DEF Commit
<1> HIDE DEF t, new
<1>3. db \in Database /\ ledger \in [Rows -> Int] /\ StockIsKept
  BY DEF WInv, WarehouseTyped
<1>4. \A r \in Rows : /\ Num(db.stock[r]) \in Int /\ Num(t.db.stock[r]) \in Int
                      /\ Num(db'.stock[r]) \in Int /\ MoveOf(t, r) \in Int
                      /\ Move(t, r) = MoveOf(t, r) /\ ledger[r] \in Int
  BY <1>1, <1>3, DatabaseIs, NumIsInt, MoveIs, MoveIsInt
<1>5. \A r \in Rows : ledger'[r] = IF ByHand(t, r) THEN Num(db'.stock[r])
                                   ELSE ledger[r] + MoveOf(t, r)
  BY <1>2, <1>4 DEF Num
<1>6. ledger' \in [Rows -> Int]
  <2>1. \A r \in Rows : (IF ByHand(t, r) THEN IF db'.stock[r] = None THEN 0 ELSE db'.stock[r]
                         ELSE ledger[r] + Move(t, r)) \in Int
    BY <1>4 DEF Num
  <2> QED BY <1>2, <2>1
<1>7. ASSUME NEW r \in Rows, r \notin torn' PROVE ledger'[r] = Num(db'.stock[r])
  <2>1. CASE ByHand(t, r)
    BY <1>5, <2>1
  <2>2. CASE ~ByHand(t, r)
    <3>1. r \notin torn /\ (new.stock[r] # t.db.stock[r] => db.stock[r] = t.db.stock[r])
      <4>1. r \in DOMAIN t.db.stock
        BY <1>1, DatabaseIs
      <4> QED BY <1>2, <1>7, <2>2, <4>1 DEF Dirty
    <3>2. ledger[r] = Num(db.stock[r])
      BY <1>3, <3>1 DEF StockIsKept, Num
    <3>3. Num(new.stock[r]) = Num(t.db.stock[r]) + MoveOf(t, r)
      BY <1>1, <2>2 DEF Computes
    <3>4. CASE new.stock[r] # t.db.stock[r]
      <4>1. db'.stock[r] = new.stock[r] /\ db.stock[r] = t.db.stock[r]
        BY <1>1, <3>1, <3>4
      <4> QED BY <1>5, <2>2, <3>2, <3>3, <4>1
    <3>5. CASE new.stock[r] = t.db.stock[r]
      <4>1. db'.stock[r] = db.stock[r] /\ MoveOf(t, r) = 0
        BY <1>1, <1>4, <3>3, <3>5
      <4> QED BY <1>4, <1>5, <2>2, <3>2, <4>1
    <3> QED BY <3>4, <3>5
  <2> QED BY <2>1, <2>2
<1> QED BY <1>6, <1>7 DEF StockIsKept, Num

\* A purchase order that is counted again, or an order that is taken again, has been
\* noted.
LEMMA CommitKeepsCounts ==
    ASSUME NEW w \in Workers, WInv, Commit(w)
    PROVE  /\ CountedIsDelivered' /\ StillDelivered' /\ TakenIsShipped'
           /\ counted' \in [PurchaseOrders -> Nat] /\ taken' \in Nat
<1> DEFINE t == tx[w]  new == Result(t)
           moved == {po \in Delivers(t) : t.db.link[po] # None}
<1>1. /\ TxOK(t) /\ Computes(t, new) /\ t.db \in Database
      /\ \A x \in PurchaseOrders \cup {Order} : db'.status[x]
           = IF new.status[x] # t.db.status[x] THEN new.status[x] ELSE db.status[x]
      /\ tx' = [v \in Workers |-> IF v = w THEN None ELSE tx[v]]
  BY CommitIs
<1>2. /\ t # None
      /\ counted' = [po \in PurchaseOrders |-> counted[po] + (IF po \in moved THEN 1 ELSE 0)]
      /\ again' = again \cup {po \in moved : db.status[po] = "delivered" /\
                                (t.kind # "refresh" \/ t.db.status[po] # "delivered")}
                        \cup {po \in PurchaseOrders :
                                db.status[po] = "delivered" /\ db'.status[po] # "delivered"}
      /\ taken' = taken + (IF Ships(t) THEN 1 ELSE 0)
      /\ reopened' = (\/ reopened
                      \/ db.status[Order] = "shipped" /\ db'.status[Order] # "shipped"
                      \/ db.status[Order] = "shipped" /\ Ships(t))
  BY DEF Commit
<1>3. \A po \in moved : po \in PurchaseOrders /\ new.status[po] = "delivered"
  BY <1>1 DEF Computes
<1>4. t.kind = "refresh" => \A po \in moved : t.db.status[po] # "delivered"
  <2> SUFFICES ASSUME t.kind = "refresh", NEW po \in moved PROVE t.db.status[po] # "delivered"
    OBVIOUS
  <2>1. PICK n \in Nat : RefreshOK(t, n)
    BY <1>1 DEF TxOK, Refreshes
  <2>2. po \in Range(t.of)
    BY DEF Delivers, Refreshes
  <2>3. PICK i \in 1..n : po = t.of[i]
    BY <2>1, <2>2 DEF RefreshOK, Range
  <2> QED BY <2>1, <2>3 DEF RefreshOK
<1>5. Ships(t) => new.status[Order] = "shipped" /\ t.db.status[Order] # "shipped"
  BY <1>1 DEF Computes, Ships
<1> HIDE DEF t, new, moved
<1>6. /\ counted \in [PurchaseOrders -> Nat] /\ taken \in Nat
      /\ CountedIsDelivered /\ StillDelivered /\ TakenIsShipped
  BY DEF WInv, WarehouseTyped
<1>7. \A po \in PurchaseOrders \ again : t.db.status[po] = "delivered" => db.status[po] = "delivered"
  BY <1>2, <1>6 DEF StillDelivered, t
<1>8. ASSUME NEW po \in PurchaseOrders, po \notin again'
      PROVE  /\ po \notin again /\ (db.status[po] = "delivered" => db'.status[po] = "delivered")
             /\ (counted'[po] = 0 \/ (counted'[po] = 1 /\ db'.status[po] = "delivered"))
  <2>1. po \notin again /\ (db.status[po] = "delivered" => db'.status[po] = "delivered")
    BY <1>2, <1>8
  <2>2. counted[po] = 0 \/ (counted[po] = 1 /\ db.status[po] = "delivered")
    BY <1>6, <2>1 DEF CountedIsDelivered
  <2>3. counted'[po] = counted[po] + (IF po \in moved THEN 1 ELSE 0) /\ counted[po] \in Nat
    BY <1>2, <1>6
  <2>4. CASE po \in moved
    <3>1. db.status[po] # "delivered"
      BY <1>2, <1>4, <1>8, <2>4
    <3>2. t.db.status[po] # "delivered" /\ new.status[po] = "delivered"
      BY <1>3, <1>7, <2>1, <2>4, <3>1
    <3>3. db'.status[po] = "delivered"
      BY <1>1, <3>2
    <3> QED BY <2>1, <2>2, <2>3, <2>4, <3>1, <3>3
  <2>5. CASE po \notin moved
    BY <2>1, <2>2, <2>3, <2>5
  <2> QED BY <2>4, <2>5
<1>9. CountedIsDelivered'
  BY <1>8 DEF CountedIsDelivered
<1>10. StillDelivered'
  <2> SUFFICES ASSUME NEW v \in Workers, NEW po \in PurchaseOrders, po \notin again',
                      tx'[v] # None, tx'[v].db.status[po] = "delivered"
               PROVE  db'.status[po] = "delivered"
    BY DEF StillDelivered
  <2>1. tx'[v] = tx[v]
    BY <1>1
  <2>2. db.status[po] = "delivered"
    BY <1>6, <1>8, <2>1 DEF StillDelivered
  <2> QED BY <1>8, <2>2
<1>11. TakenIsShipped'
  <2> SUFFICES ASSUME ~reopened'
               PROVE  taken' = 0 \/ (taken' = 1 /\ db'.status[Order] = "shipped")
    BY DEF TakenIsShipped
  <2>1. /\ ~reopened /\ (db.status[Order] = "shipped" => db'.status[Order] = "shipped" /\ ~Ships(t))
    BY <1>2
  <2>2. taken = 0 \/ (taken = 1 /\ db.status[Order] = "shipped")
    BY <1>6, <2>1 DEF TakenIsShipped
  <2>3. CASE Ships(t)
    <3>1. taken = 0 /\ taken' = 1
      BY <1>2, <2>1, <2>2, <2>3
    <3>2. db'.status[Order] = "shipped"
      BY <1>1, <1>5, <2>3
    <3> QED BY <3>1, <3>2
  <2>4. CASE ~Ships(t)
    <3>1. taken' = taken
      BY <1>2, <1>6, <2>4
    <3> QED BY <2>1, <2>2, <3>1
  <2> QED BY <2>3, <2>4
<1>12. counted' \in [PurchaseOrders -> Nat] /\ taken' \in Nat
  BY <1>2, <1>6
<1> QED BY <1>9, <1>10, <1>11, <1>12

\* The invariant is inductive.
LEMMA WarehouseKeeps == WInv /\ [Next]_vars => WInv'
<1> SUFFICES ASSUME WInv, [Next]_vars PROVE WInv'
  OBVIOUS
<1>1. CASE UNCHANGED vars
  BY <1>1 DEF vars, WInv, WarehouseTyped, StockIsKept, CountedIsDelivered, StillDelivered,
     TakenIsShipped
<1>2. ASSUME NEW w \in Workers, Commit(w) PROVE WInv'
  <2>1. /\ TxOK(tx[w]) /\ db' \in Database
        /\ tx' = [v \in Workers |-> IF v = w THEN None ELSE tx[v]]
    BY <1>2, CommitIs
  <2>2. WarehouseTyped'
    BY <1>2, <2>1, CommitKeepsStock, CommitKeepsCounts DEF WInv, WarehouseTyped
  <2> QED BY <1>2, <2>2, CommitKeepsStock, CommitKeepsCounts DEF WInv
<1>3. ASSUME NEW w \in Workers, Rollback(w) PROVE WInv'
  <2>1. /\ tx' = [v \in Workers |-> IF v = w THEN None ELSE tx[v]]
        /\ UNCHANGED <<db, txs, ledger, torn, counted, again, taken, reopened>>
    BY <1>3 DEF Rollback, WInv, WarehouseTyped
  <2>2. WarehouseTyped'
    BY <2>1 DEF WInv, WarehouseTyped
  <2>3. StillDelivered'
    BY <2>1 DEF WInv, StillDelivered
  <2>4. StockIsKept' /\ CountedIsDelivered' /\ TakenIsShipped'
    BY <2>1 DEF WInv, StockIsKept, CountedIsDelivered, TakenIsShipped
  <2> QED BY <2>2, <2>3, <2>4 DEF WInv
<1> QED BY <1>1, <1>2, <1>3, BeginsKeep DEF Next

\* The quantity of a row is what was given plus what came minus what went, unless two
\* transactions wrote it at once (add_product, sub_product).
THEOREM StockAddsUp == ShopSpec => []StockIsKept
<1>1. ShopInit => WInv
  BY WarehouseBegins DEF ShopInit
<1>2. WInv /\ [ShopNext]_shopvars => WInv'
  BY StepOfPart, WarehouseKeeps
<1>3. WInv => StockIsKept
  BY DEF WInv
<1> QED BY <1>1, <1>2, <1>3, PTL DEF ShopSpec

\* A purchase order is put in its warehouse once, and the sale order taken out once,
\* unless one is delivered again or the other shipped again (set_status and its
\* signals).
THEOREM GoodsMoveOnce == ShopSpec => []MovedOnce
<1>1. ShopInit => WInv
  BY WarehouseBegins DEF ShopInit
<1>2. WInv /\ [ShopNext]_shopvars => WInv'
  BY StepOfPart, WarehouseKeeps
<1>3. WInv => MovedOnce
  <2> SUFFICES ASSUME WInv PROVE MovedOnce
    OBVIOUS
  <2>1. \A po \in PurchaseOrders \ again : counted[po] <= 1
    BY DEF WInv, CountedIsDelivered
  <2>2. reopened \/ taken <= 1
    BY DEF WInv, TakenIsShipped
  <2> QED BY <2>1, <2>2 DEF MovedOnce
<1> QED BY <1>1, <1>2, <1>3, PTL DEF ShopSpec

\* What the property says of a step.
LastDelivers ==
    \A w \in Workers :
        LET t == tx[w]
            all == \A po \in PurchaseOrders : db'.status[po] \in {"none", "delivered"}
        IN  Commit(w) /\ t.db.status = db.status =>
              \A last \in Delivers(t) : IsLast(t, last) =>
                /\ all /\ t.db.link[last] # None => db'.status[Order] = "at_warehouse"
                /\ db'.status[Order] # db.status[Order] => all

\* It holds of every commit.
LEMMA CommitDelivers == WInv => LastDelivers
<1> SUFFICES ASSUME WInv, NEW w \in Workers, Commit(w), tx[w].db.status = db.status,
                    NEW last \in Delivers(tx[w]), IsLast(tx[w], last)
             PROVE  LET all == \A po \in PurchaseOrders : db'.status[po] \in {"none", "delivered"}
                    IN  /\ all /\ tx[w].db.link[last] # None => db'.status[Order] = "at_warehouse"
                        /\ db'.status[Order] # db.status[Order] => all
  BY DEF LastDelivers
<1> DEFINE t == tx[w]  new == Result(t)
<1>1. Computes(t, new) /\ db'.status = new.status
  BY CommitIs
<1>2. /\ IsComplete(new) /\ t.db.link[last] # None => new.status[Order] = "at_warehouse"
      /\ new.status[Order] # t.db.status[Order] => IsComplete(new)
  BY <1>1 DEF Computes
<1> HIDE DEF new
<1>3. IsComplete(new) <=> \A po \in PurchaseOrders : db'.status[po] \in {"none", "delivered"}
  BY <1>1 DEF IsComplete
<1> QED BY <1>1, <1>2, <1>3

\* The delivery of the last purchase order moves the sale order to "at_warehouse", and
\* no other delivery does (on_purchase_order_delivered).
THEOREM LastMovesOrder == ShopSpec => AtWarehouseWhenAllDelivered
<1>1. ShopInit => WInv
  BY WarehouseBegins DEF ShopInit
<1>2. WInv /\ [ShopNext]_shopvars => WInv'
  BY StepOfPart, WarehouseKeeps
<1>3. WInv /\ [ShopNext]_shopvars => [LastDelivers]_vars
  BY CommitDelivers
<1> QED BY <1>1, <1>2, <1>3, PTL DEF ShopSpec, AtWarehouseWhenAllDelivered, LastDelivers

=============================================================================
