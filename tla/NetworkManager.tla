--------------------------- MODULE NetworkManager ---------------------------
(* The network manager (src/network_manager): it runs the network builder in *)
(* a container, fetches single nodes in containers of their own, edits       *)
(* nodes, and counts the nodes of the tree, remembering the counts.          *)
(*                                                                           *)
(* A step of a request is one call of Docker or one query of the database;    *)
(* a call of Docker may fail.                                                *)
EXTENDS Integers, FiniteSets

CONSTANTS Callers,          \* threads that serve requests
          Fetched,          \* nodes that are fetched one by one
          MaxStarts,        \* bound on the requests
          MaxNodes,         \* bound on the nodes of the tree
          NoContainer

Builder == "network-builder"
Names == {Builder} \cup Fetched

VARIABLES box,          \* the container of each name
          caller,       \* the request of each thread
          started,      \* requests so far; containers run so far are numbered by it
          nodes,        \* size of the tree in the graph database
          quantity,     \* the Quantity rows of the whole tree
          (* history *)
          wrongly       \* requests that removed a running container

mvars == <<box, caller, started, nodes, quantity, wrongly>>

Waiting == [at |-> "free", name |-> Builder, number |-> 0, seen |-> NoContainer,
            alone |-> FALSE, answered |-> TRUE]

Init ==
    /\ box = [n \in Names |-> NoContainer]
    /\ caller = [w \in Callers |-> Waiting]
    /\ started = 0
    /\ nodes = 1 /\ quantity = {}
    /\ wrongly = {}

Running(n) == box[n] # NoContainer /\ box[n].running

\* alone (history): no request about this container overlaps with this one.
Begin(w, at, n) ==
    /\ caller[w].at = "free" /\ started < MaxStarts /\ started' = started + 1
    /\ caller' = [x \in Callers |->
                    IF x = w THEN [at |-> at, name |-> n, number |-> started', seen |-> NoContainer,
                                   alone |-> \A y \in Callers : \/ caller[y].at = "free"
                                                                \/ caller[y].name # n,
                                   answered |-> TRUE]
                    ELSE IF caller[x].name = n THEN [caller[x] EXCEPT !.alone = FALSE]
                    ELSE caller[x]]

Goes(w, at) == caller' = [caller EXCEPT ![w].at = at]
Ends(w) == caller' = [caller EXCEPT ![w] = Waiting]

-----------------------------------------------------------------------------
(* Containers.                                                               *)

\* A plausible mistake: whether the builder runs is not asked.
RunAnyway(w) ==
    /\ caller[w].at = "check"
    /\ Goes(w, "get")
    /\ UNCHANGED <<box, started, nodes, quantity, wrongly>>

\* start_builder asks once, after a random while.  Where Docker does not answer,
\* the builder is taken not to run.
\* answered (history): Docker answered that question.
CheckBuilder(w) ==
    /\ caller[w].at = "check"
    /\ \/ IF Running(Builder) THEN Ends(w) ELSE Goes(w, "get")
       \/ caller' = [caller EXCEPT ![w].at = "get", ![w].answered = FALSE]
    /\ UNCHANGED <<box, started, nodes, quantity, wrongly>>

\* The container of that name is looked for.  A fetch that finds it running
\* leaves it alone; a start does not look.
GetContainer(w) ==
    LET r == caller[w]
    IN  /\ r.at = "get"
        /\ IF box[r.name] = NoContainer THEN Goes(w, "run")
           ELSE IF r.name # Builder /\ Running(r.name) THEN Ends(w)
           ELSE caller' = [caller EXCEPT ![w].at = "remove", ![w].seen = box[r.name].number]
        /\ UNCHANGED <<box, started, nodes, quantity, wrongly>>

\* By force, whether it is running or not; one that has gone in the meantime
\* need not be removed.
RemoveContainer(w) ==
    LET r == caller[w]
        there == box[r.name] # NoContainer /\ box[r.name].number = r.seen
    IN  /\ r.at = "remove"
        /\ Goes(w, "run")
        /\ box' = IF there THEN [box EXCEPT ![r.name] = NoContainer] ELSE box
        /\ wrongly' = IF there /\ Running(r.name) THEN wrongly \cup {r.number} ELSE wrongly
        /\ UNCHANGED <<started, nodes, quantity>>

\* Docker refuses a second container of a name; one that is made and does not
\* start stays.
RunContainer(w) ==
    LET r == caller[w]
    IN  /\ r.at = "run"
        /\ IF box[r.name] # NoContainer THEN box' = box
           ELSE \E starts \in BOOLEAN :
                   box' = [box EXCEPT ![r.name] = [running |-> starts, number |-> r.number]]
        /\ Ends(w)
        /\ UNCHANGED <<started, nodes, quantity, wrongly>>

\* Any other error of Docker ends the request.
DockerFails(w) ==
    /\ caller[w].at \in {"get", "remove", "run"}
    /\ Ends(w)
    /\ UNCHANGED <<box, started, nodes, quantity, wrongly>>

\* The builder is removed when it exits; a container of a fetched node stays.
Exits(n) == box' = [box EXCEPT ![n] = IF n = Builder THEN NoContainer
                                      ELSE [@ EXCEPT !.running = FALSE]]

ContainerExits(n) ==
    /\ Running(n) /\ Exits(n)
    /\ UNCHANGED <<caller, started, nodes, quantity, wrongly>>

stop_builder ==
    /\ Running(Builder) /\ Exits(Builder)
    /\ UNCHANGED <<caller, started, nodes, quantity, wrongly>>

\* Asking for the state of a fetch removes the container that has finished.
get_node_fetch_status(n) ==
    /\ box[n] # NoContainer /\ ~Running(n)
    /\ box' = [box EXCEPT ![n] = NoContainer]
    /\ UNCHANGED <<caller, started, nodes, quantity, wrongly>>

start_builder(w) == Begin(w, "check", Builder) /\ UNCHANGED <<box, nodes, quantity, wrongly>>

update_node_from_atomy(w, n) ==
    Begin(w, "get", n) /\ UNCHANGED <<box, nodes, quantity, wrongly>>

-----------------------------------------------------------------------------
(* Nodes and their counts.                                                   *)

\* save_node makes a node that is not there; so does the builder.
save_node ==
    /\ nodes < MaxNodes /\ nodes' = nodes + 1
    /\ UNCHANGED <<box, caller, started, quantity, wrongly>>

\* get_nodes: the count that is stored, or else the nodes are counted and the
\* count is stored, in a second query.
get_total(w) ==
    /\ Begin(w, "count", Builder) /\ quantity = {}
    /\ UNCHANGED <<box, nodes, quantity, wrongly>>

MergeQuantity(w) ==
    /\ caller[w].at = "count"
    /\ quantity' = quantity \cup {nodes}
    /\ Ends(w)
    /\ UNCHANGED <<box, started, nodes, wrongly>>

\* The builder at the end of a crawl: the rows are deleted, the nodes counted.
update_search_cache ==
    /\ quantity' = {nodes}
    /\ UNCHANGED <<box, caller, started, nodes, wrongly>>

-----------------------------------------------------------------------------
Next ==
    \/ \E w \in Callers : \/ start_builder(w) \/ CheckBuilder(w) \/ GetContainer(w)
                          \/ RemoveContainer(w) \/ RunContainer(w) \/ DockerFails(w)
                          \/ get_total(w) \/ MergeQuantity(w)
                          \/ \E n \in Fetched : update_node_from_atomy(w, n)
    \/ \E n \in Names : ContainerExits(n)
    \/ \E n \in Fetched : get_node_fetch_status(n)
    \/ stop_builder \/ save_node \/ update_search_cache

Spec == Init /\ [][Next]_mvars

-----------------------------------------------------------------------------
(* Properties.                                                               *)

TypeOK ==
    /\ \A n \in Names : box[n] = NoContainer \/ box[n] \in [running : BOOLEAN, number : 1 .. MaxStarts]
    /\ started \in 0 .. MaxStarts /\ nodes \in 1 .. MaxNodes
    /\ quantity \subseteq 1 .. MaxNodes /\ wrongly \subseteq 1 .. MaxStarts
    /\ \A w \in Callers : caller[w].at \in {"free", "check", "get", "remove", "run", "count"}

\* A running builder or fetch is removed by a start only when another request
\* for it is under way, or when Docker did not answer whether it runs.
StartedIsKept ==
    \A w \in Callers :
       caller[w].at = "remove" /\ caller[w].alone /\ caller[w].answered =>
          box[caller[w].name] = NoContainer \/ ~Running(caller[w].name)

\* "Remove stale container from a previous run if present"
\* (network_manager.py:88): what a start removes is not running.
StaleIsRemoved == wrongly = {}

=============================================================================
