----------------------------- MODULE TreeCrawler -----------------------------
(***************************************************************************)
(* The network builder: a main loop hands the nodes of a list to worker    *)
(* threads, each of which fetches the page of its node, saves what the     *)
(* page shows and appends to the list the nodes below which the page shows *)
(* not everything.  Or the same loop looks for the parent of a node.       *)
(*                                                                         *)
(* The tree at the vendor does not change during a crawl.  A step is what  *)
(* a thread does between two reads of what the threads share.              *)
(***************************************************************************)
EXTENDS Integers, Sequences, FiniteSets, SequencesExt

CONSTANTS
    Nodes,        \* nodes of the tree, and nodes that have left it
    Parent,       \* the parent of every node of the tree but its root
    Top,          \* its root
    Gone,         \* nodes that the database still has
    Displaced,    \* those of Gone whose place under their parent is taken
    DBParent,     \* the parent that the database has for a node of Gone
    Levels,       \* how many levels below its node a page shows
    InDB,         \* nodes that are in the database before the build
    Rank,         \* the order of their ids
    Batch,        \* how many the database is asked for at a time: 100 in the code
    MaxThreads,   \* --max-threads
    Many, Fewer,  \* where so many threads are allowed, a failure to start one allows
                  \* fewer: 10 and 5 in the code
    NodesLimits,  \* values of nodes_limit, 0: none
    Repeat,       \* --repeat
    Target,       \* the node whose parent is looked for
    Modes,        \* {"crawl", "find"}
    Slots,        \* bound: worker threads that exist at the same time
    MaxFailures,  \* bound: nodes whose page cannot be fetched or saved, once or for ever
    MaxOutages    \* bound: nodes for which nobody in the chain of sponsors can log in

Tree == Nodes \ Gone

\* Everybody is below the root.
IsTree == \A S \in SUBSET Tree :
    Top \in S /\ (\A n \in Tree \ {Top} : Parent[n] \in S => n \in S) => S = Tree

ASSUME TreeCrawlerAssumption ==
    /\ IsFiniteSet(Nodes)
    /\ Top \in Tree
    /\ Parent \in [Tree \ {Top} -> Tree]
    /\ IsTree
    /\ Displaced \subseteq Gone
    /\ DBParent \in [Gone -> Tree]
    /\ InDB \subseteq Nodes
    /\ Rank \in [Nodes -> Nat]
    /\ \A m, n \in Nodes : Rank[m] = Rank[n] => m = n
    /\ Batch \in Nat
    /\ Levels \in Nat \ {0, 1}
    /\ MaxThreads \in Nat \ {0}
    /\ Many \in Nat /\ Fewer \in Nat /\ Fewer < Many
    /\ NodesLimits \subseteq Nat
    /\ Repeat \in BOOLEAN
    /\ Target \in Nodes
    /\ Modes \subseteq {"crawl", "find"}
    /\ MaxFailures \in Nat
    /\ MaxOutages \in Nat

VARIABLES
    mode,         \* what the process is for
    nodes_limit,
    main,         \* where the main loop is
    list,         \* _traversing_nodes_list
    set,          \* _traversing_nodes_set
    c,            \* entries of the list that have been taken
    max_threads,  \* _max_threads
    threads,      \* _threads
    updated,      \* _updated_nodes
    exceptions,   \* the queue _exceptions
    worker,       \* the worker threads
    db,           \* nodes in the database
    fresh,        \* those that have been updated today
    found,        \* the parent that was found
    failed,       \* nodes whose worker failed (history)
    refused,      \* nodes that an outage kept everybody from seeing (history)
    again         \* the crawl is not the first one of the build (history)

vars == <<mode, nodes_limit, max_threads, main, list, set, c, threads, updated, exceptions, worker,
          db, fresh, found, failed, refused, again>>

None == "none"

ASSUME NodeAssumption == None \notin Nodes

Idle == [node |-> None, pc |-> "idle"]
Running == {w \in Slots : worker[w] # Idle}

Children(n) == {m \in Tree \ {Top} : Parent[m] = n}

\* A node and those above it: what every set that is closed upwards has with it.
Upward == {S \in SUBSET Tree : \A n \in S \ {Top} : Parent[n] \in S}
Ancestors == [n \in Tree |-> {m \in Tree : \A S \in Upward : n \in S => m \in S}]
AncestorsOrSelf(n) == Ancestors[n]
Depth(n) == Cardinality(AncestorsOrSelf(n))

\* The nodes of a set in the order of their ids.
Before(n, S) == Cardinality({m \in S : Rank[m] < Rank[n]})
Listed(S) == [i \in 1..Cardinality(S) |-> CHOOSE n \in S : Before(n, S) = i - 1]

\* The first of them, as many as a query gives.
FirstOf(S) == Listed({n \in S : Before(n, S) < Batch})

\* A page shows a node and some levels below it.
Pages == [n \in Tree |-> {m \in Tree : /\ n \in AncestorsOrSelf(m)
                                       /\ Depth(m) <= Depth(n) + Levels}]

Page(n) == Pages[n]

\* Nodes whose children the page does not show.
OffPage(n) == {m \in Page(n) : Children(m) # {} /\ Children(m) \cap Page(n) = {}}

\* Mutant: the first level of a page is taken for complete.
Shallow(n) == {m \in Page(n) : Children(m) \cap OffPage(n) # {} /\ m # n /\ Parent[m] # n}

\* The nodes that _get_children adds to the list: the parents of those.
ToEnqueue(n) == {m \in Page(n) : Children(m) \cap OffPage(n) # {}}

\* And those it takes out of the set: all that it needs not look at again.
ToDiscard(n) ==
    IF Children(n) = {} THEN {} ELSE Page(n) \ (ToEnqueue(n) \cup OffPage(n))

get_nodes_to_crawl == FirstOf(db \ fresh)

\* crawl() or find_parent() with a list of nodes.
Start(nodes) ==
    /\ list' = nodes
    /\ set' = Range(nodes)
    /\ c' = 0
    /\ threads' = 0
    /\ updated' = 0
    /\ exceptions' = <<>>

\* The build begins with the nodes of the database, none of which is from today,
build_network == mode = "crawl" /\ nodes_limit \in NodesLimits /\ list = FirstOf(InDB)

\* and the search with the root; it has no limit.
find_parent == mode = "find" /\ nodes_limit = 0 /\ list = <<Top>>

Init ==
    /\ mode \in Modes
    /\ build_network \/ find_parent
    /\ main = "top"
    /\ set = Range(list)
    /\ c = 0
    /\ max_threads = MaxThreads
    /\ threads = 0
    /\ updated = 0
    /\ exceptions = <<>>
    /\ worker = [w \in Slots |-> Idle]
    /\ db = InDB
    /\ fresh = {}
    /\ found = None
    /\ failed = {}
    /\ refused = {}
    /\ again = FALSE

-----------------------------------------------------------------------------
\* The main loop: whether it goes on, the wait for a free thread, the next node.

LimitReached == mode = "crawl" /\ nodes_limit > 0 /\ updated >= nodes_limit

StopAtLimit ==
    /\ main = "top" /\ LimitReached
    /\ main' = "crawled"
    /\ UNCHANGED <<mode, nodes_limit, max_threads, list, set, c, threads, updated, exceptions, worker, db,
                   fresh, found, failed, refused, again>>

StopWhenFound ==
    /\ main \in {"top", "wait"} /\ mode = "find" /\ found # None
    /\ main' = "join"
    /\ UNCHANGED <<mode, nodes_limit, max_threads, list, set, c, threads, updated, exceptions, worker, db,
                   fresh, found, failed, refused, again>>

NotFound == mode = "find" => found = None

\* While the loop waits for a thread, the limit is not looked at again.
GoesOn ==
    /\ main = "top" /\ ~LimitReached /\ NotFound
    /\ main' = "wait"
    /\ UNCHANGED <<mode, nodes_limit, max_threads, list, set, c, threads, updated, exceptions, worker, db,
                   fresh, found, failed, refused, again>>

\* Mutant: one thread too many.
ProceedsOver == main = "wait" /\ NotFound /\ threads <= max_threads

Proceeds == main = "wait" /\ NotFound /\ threads < max_threads

NoException ==
    /\ Proceeds
    /\ exceptions = <<>>
    /\ main' = "scan"
    /\ UNCHANGED <<mode, nodes_limit, max_threads, list, set, c, threads, updated, exceptions, worker, db,
                   fresh, found, failed, refused, again>>

\* Mutant: a node that nobody may see stays in the database.
KeepsNode ==
    /\ Proceeds
    /\ exceptions # <<>>
    /\ set' = IF mode = "crawl" THEN set \ {Head(exceptions).node} ELSE set
    /\ main' = IF mode = "find" THEN "raised" ELSE "top"
    /\ exceptions' = Tail(exceptions)
    /\ UNCHANGED <<mode, nodes_limit, max_threads, list, c, threads, updated, worker, db, fresh, found,
                   failed, refused, again>>

\* A node that nobody may see is deleted; find_parent has no handler.
HandleException ==
    /\ Proceeds
    /\ exceptions # <<>>
    /\ LET ex == Head(exceptions)
       IN  IF mode = "find"
           THEN main' = "raised" /\ UNCHANGED <<set, db, fresh>>
           ELSE IF ex.kind = "NoParent"
           THEN db' = db \ {ex.node} /\ fresh' = fresh \ {ex.node} /\ main' = "top" /\ UNCHANGED set
           ELSE set' = set \ {ex.node} /\ main' = "top" /\ UNCHANGED <<db, fresh>>
    /\ exceptions' = Tail(exceptions)
    /\ UNCHANGED <<mode, nodes_limit, max_threads, list, c, threads, updated, worker, found, failed, refused,
                   again>>

\* The next entry that has not been seen to on another page meanwhile.
NextEntry ==
    LET left == {i \in c + 1..Len(list) : list[i] \in set}
    IN  IF left = {} THEN Len(list) + 1 ELSE CHOOSE i \in left : \A j \in left : i <= j

\* The thread is started before it is counted; it uncounts itself under the
\* same lock, and nobody else looks in between.
StartWorker ==
    /\ main = "scan" /\ NextEntry <= Len(list)
    /\ \E w \in Slots \ Running :
          /\ \A v \in Slots \ Running : w <= v
          /\ worker' = [worker EXCEPT ![w] = [node |-> list[NextEntry], pc |-> "fetch"]]
    /\ c' = NextEntry
    /\ threads' = threads + 1
    /\ main' = "top"
    /\ UNCHANGED <<mode, nodes_limit, max_threads, list, set, updated, exceptions, db, fresh, found, failed,
                   refused, again>>

\* RuntimeError: the system has no thread to give.  The crawl tries the entry
\* again, with fewer threads where it has many; find_parent has no handler.
CannotStart ==
    /\ main = "scan" /\ NextEntry <= Len(list)
    /\ IF mode = "find" THEN main' = "raised" /\ UNCHANGED <<c, max_threads>>
       ELSE /\ main' = "top" /\ c' = NextEntry - 1
            /\ max_threads' = IF max_threads >= Many THEN max_threads - Fewer ELSE max_threads
    /\ UNCHANGED <<mode, nodes_limit, list, set, threads, updated, exceptions, worker, db, fresh,
                   found, failed, refused, again>>

ListExhausted ==
    /\ main = "scan" /\ NextEntry > Len(list)
    /\ c' = Len(list)
    /\ main' = "exhausted"
    /\ UNCHANGED <<mode, nodes_limit, max_threads, list, set, threads, updated, exceptions, worker, db, fresh,
                   found, failed, refused, again>>

\* "No nodes left to process", or nodes still in flight.
WaitOrStop ==
    /\ main = "exhausted"
    /\ main' = IF threads >= 1 THEN "top" ELSE IF mode = "find" THEN "join" ELSE "crawled"
    /\ UNCHANGED <<mode, nodes_limit, max_threads, list, set, c, threads, updated, exceptions, worker, db,
                   fresh, found, failed, refused, again>>

JoinWorkers ==
    /\ main = "join" /\ threads <= 0
    /\ main' = "finished"
    /\ UNCHANGED <<mode, nodes_limit, max_threads, list, set, c, threads, updated, exceptions, worker, db,
                   fresh, found, failed, refused, again>>

\* build_network: again, until no node of the database is out of date.
RepeatCrawl ==
    /\ main = "crawled" /\ Repeat /\ db \ fresh # {}
    /\ again' = TRUE
    /\ Start(get_nodes_to_crawl)
    /\ main' = "top"
    /\ UNCHANGED <<mode, nodes_limit, max_threads, worker, db, fresh, found, failed, refused>>

FinishBuild ==
    /\ main = "crawled" /\ (Repeat => db \ fresh = {})
    /\ main' = "finished"
    /\ UNCHANGED <<mode, nodes_limit, max_threads, list, set, c, threads, updated, exceptions, worker, db,
                   fresh, found, failed, refused, again>>

-----------------------------------------------------------------------------
\* The worker threads.

Goto(w, pc) == worker' = [worker EXCEPT ![w].pc = pc]
At(w, pc) == worker[w].pc = pc
AtMost(bound, S, n) == n \in S \/ Cardinality(S) < bound
Puts(kind, n) == exceptions' = Append(exceptions, [kind |-> kind, node |-> n])

\* Nobody in the chain of sponsors may see the node: it has left the tree, or
\* nobody can log in at all.  The search gives the node up without a word.
NoParentFound(w) ==
    LET n == worker[w].node
    IN  /\ At(w, "fetch")
        /\ \/ n \in Gone /\ UNCHANGED refused
           \/ n \in Tree /\ AtMost(MaxOutages, refused, n) /\ refused' = refused \cup {n}
        /\ IF mode = "crawl" THEN Puts("NoParent", n) /\ UNCHANGED set
           ELSE set' = set \ {n} /\ UNCHANGED exceptions
        /\ Goto(w, "exit")
        /\ UNCHANGED <<mode, nodes_limit, max_threads, main, list, c, threads, updated, db, fresh, found,
                       failed, again>>

\* The page cannot be fetched, or its nodes cannot be saved.
WorkerFails(w) ==
    /\ At(w, "fetch") \/ At(w, "save")
    /\ AtMost(MaxFailures, failed, worker[w].node)
    /\ failed' = failed \cup {worker[w].node}
    /\ Puts("Build", worker[w].node)
    /\ Goto(w, "exit")
    /\ UNCHANGED <<mode, nodes_limit, max_threads, main, list, set, c, threads, updated, db, fresh, found,
                   refused, again>>

\* The answer is no list of members.
NoMembers(w) ==
    /\ At(w, "fetch")
    /\ AtMost(MaxFailures, failed, worker[w].node)
    /\ failed' = failed \cup {worker[w].node}
    /\ set' = IF mode = "find" THEN set \ {worker[w].node} ELSE set
    /\ Goto(w, "exit")
    /\ UNCHANGED <<mode, nodes_limit, max_threads, main, list, c, threads, updated, exceptions, db, fresh,
                   found, refused, again>>

\* A worker of the search that starts after the parent was found.
TooLate(w) ==
    /\ mode = "find" /\ At(w, "fetch") /\ found # None
    /\ Goto(w, "exit")
    /\ UNCHANGED <<mode, nodes_limit, max_threads, main, list, set, c, threads, updated, exceptions, db, fresh,
                   found, failed, refused, again>>

FetchPage(w) ==
    /\ At(w, "fetch") /\ worker[w].node \in Tree
    /\ mode = "find" => found = None
    /\ Goto(w, "collect")
    /\ UNCHANGED <<mode, nodes_limit, max_threads, main, list, set, c, threads, updated, exceptions, db, fresh,
                   found, failed, refused, again>>

\* _enqueue_for_crawl for each, and the nodes that are done leave the set.
Enqueue(add, done) ==
    /\ set' = (set \ done) \cup add
    /\ list' = list \o Listed(add \ set)

\* Children in the database whose place another node takes on the page.
Replaced(n) ==
    {g \in Displaced \cap db :
        DBParent[g] \in Page(n) /\ Children(DBParent[g]) \cap Page(n) # {}}

\* The root of the page is saved at once, before the nodes below it.
save_root_node(n) ==
    /\ db' = (db \ Replaced(n)) \cup {n}
    /\ fresh' = (fresh \ Replaced(n)) \cup {n}

CollectNodes(w) ==
    LET n == worker[w].node
    IN  /\ mode = "crawl" /\ At(w, "collect")
        /\ updated' = updated + Cardinality(Page(n))
        /\ save_root_node(n)
        /\ Enqueue(ToEnqueue(n), ToDiscard(n))
        /\ Goto(w, "save")
        /\ UNCHANGED <<mode, nodes_limit, max_threads, main, c, threads, exceptions, found, failed, refused,
                       again>>

\* Mutant: the children are not marked as updated.
ForgetsPage(w) ==
    /\ At(w, "save")
    /\ db' = db \cup Page(worker[w].node)
    /\ Goto(w, "exit")
    /\ UNCHANGED <<mode, nodes_limit, max_threads, main, list, set, c, threads, updated, exceptions, fresh,
                   found, failed, refused, again>>

SavePage(w) ==
    /\ At(w, "save")
    /\ db' = db \cup Page(worker[w].node)
    /\ fresh' = fresh \cup Page(worker[w].node)
    /\ Goto(w, "exit")
    /\ UNCHANGED <<mode, nodes_limit, max_threads, main, list, set, c, threads, updated, exceptions, found,
                   failed, refused, again>>

\* Mutant: the root of the page is taken for the parent.
TargetSeenBelowRoot(w) ==
    LET n == worker[w].node
    IN  /\ mode = "find" /\ At(w, "collect")
        /\ IF Target \in Page(n) \ {n}
           THEN found' = n /\ UNCHANGED <<list, set>>
           ELSE Enqueue(ToEnqueue(n), ToDiscard(n)) /\ UNCHANGED found
        /\ Goto(w, "exit")
        /\ UNCHANGED <<mode, nodes_limit, max_threads, main, c, threads, updated, exceptions, db, fresh,
                       failed, refused, again>>

\* The target is on the page: the first to see it says who its parent is.
SearchPage(w) ==
    LET n == worker[w].node
    IN  /\ mode = "find" /\ At(w, "collect")
        /\ IF Target \in Page(n) \ {n}
           THEN /\ found' = IF found = None THEN Parent[Target] ELSE found
                /\ UNCHANGED <<list, set>>
           ELSE /\ IF found # None THEN UNCHANGED <<list, set>>
                   ELSE Enqueue(ToEnqueue(n), IF Children(n) = {} THEN {n} ELSE ToDiscard(n))
                /\ UNCHANGED found
        /\ Goto(w, "exit")
        /\ UNCHANGED <<mode, nodes_limit, max_threads, main, c, threads, updated, exceptions, db, fresh,
                       failed, refused, again>>

\* finally: the worker is counted no more.
WorkerExits(w) ==
    /\ At(w, "exit")
    /\ threads' = threads - 1
    /\ worker' = [worker EXCEPT ![w] = Idle]
    /\ UNCHANGED <<mode, nodes_limit, max_threads, main, list, set, c, updated, exceptions, db, fresh, found,
                   failed, refused, again>>

Main ==
    \/ StopAtLimit \/ StopWhenFound \/ GoesOn \/ NoException \/ HandleException
    \/ StartWorker \/ CannotStart \/ ListExhausted \/ WaitOrStop
    \/ JoinWorkers \/ RepeatCrawl \/ FinishBuild

Worker(w) ==
    \/ NoParentFound(w) \/ WorkerFails(w) \/ NoMembers(w) \/ TooLate(w) \/ FetchPage(w)
    \/ CollectNodes(w) \/ SavePage(w) \/ SearchPage(w) \/ WorkerExits(w)

Ended == main \in {"finished", "raised"}

\* The process ends once its threads have.
Done == Ended /\ Running = {} /\ UNCHANGED vars

Next == Main \/ (\E w \in Slots : Worker(w)) \/ Done

Spec == Init /\ [][Next]_vars

\* The scheduler runs every thread, and the system has a thread to give now and then.
FairSpec ==
    /\ Spec
    /\ WF_vars(Main)
    /\ SF_vars(StartWorker)
    /\ \A w \in Slots : WF_vars(Worker(w))

-----------------------------------------------------------------------------
\* Shape of the state: what the threads share, and where each of them is.
TypeOK ==
    /\ mode \in Modes /\ nodes_limit \in NodesLimits
    /\ main \in {"top", "wait", "scan", "exhausted", "crawled", "join", "raised", "finished"}
    /\ list \in Seq(Nodes) /\ set \subseteq Range(list)
    /\ c \in 0..Len(list)
    /\ max_threads \in 1..MaxThreads
    /\ threads \in -Cardinality(Slots)..Cardinality(Slots)
    /\ updated \in Nat
    /\ \A i \in DOMAIN exceptions : exceptions[i] \in [kind : {"NoParent", "Build"}, node : Nodes]
    /\ worker \in [Slots -> {Idle} \cup [node : Nodes, pc : {"fetch", "collect", "save", "exit"}]]
    /\ db \subseteq Nodes /\ fresh \subseteq db
    /\ found \in Nodes \cup {None}
    /\ failed \subseteq Nodes /\ refused \subseteq Tree
    /\ again \in BOOLEAN

\* "Maximum number of concurrent worker threads" (build_network): no more run than
\* were asked for, and the next one is started only where fewer run than are
\* allowed after the failures to start one.
AtMostMaxThreads ==
    /\ Cardinality(Running) <= MaxThreads
    /\ main = "scan" => Cardinality(Running) < max_threads

\* It is kept while the count is true: a crawl that is repeated after it has
\* stopped at its limit counts from 0 although workers of the last one still run.
LimitedWhileCounted == ~again \/ nodes_limit = 0 => AtMostMaxThreads

\* Entries that the main loop has left behind: a worker may append to the list
\* after the loop has seen its end, and be gone when it counts the threads.
Unvisited == {list[i] : i \in c + 1..Len(list)} \cap set

\* When a crawl without a limit ends, every node of the tree has been updated,
\* unless a page above it (or its own) could not be fetched, was refused or was
\* left behind: what one page discards, another has saved.
NothingLost ==
    main = "crawled" /\ nodes_limit = 0 /\ ~again =>
        \A n \in Tree :
            n \in fresh \/ AncestorsOrSelf(n) \cap (failed \cup refused \cup Unvisited) # {}

\* Whatever worker sees the target first, the parent found is its parent; and a
\* search that ends without one has missed a page or does not reach the target.
FoundIsParent ==
    /\ found # None => Target \in Tree \ {Top} /\ found = Parent[Target]
    /\ main = "finished" /\ mode = "find" /\ found = None /\ Target \in Tree \ {Top} =>
          AncestorsOrSelf(Target) \cap (failed \cup refused \cup Unvisited) # {}

\* "Node %s has no parent in network. Deleting." (tree_crawler): only such nodes
\* are deleted.  Not kept while nobody can log in.
OnlyGoneAreDeleted == InDB \cap Tree \subseteq db

\* A page is not fetched or not saved, or comes back empty.
Failure == \E w \in Slots : WorkerFails(w) \/ NoMembers(w)

\* Whatever fails, a crawl and a search come to their end.  The build, which is
\* repeated while a node is out of date, does so too, unless pages fail for ever or
\* a crawl ends for ever without having read the last of the exceptions: what
\* NoParentFound put there leaves its node in the database, to be asked for again.
Ends ==
    /\ []<>(main \in {"crawled", "finished", "raised"})
    /\ \/ <>(Ended /\ Running = {})
       \/ []<><<Failure>>_vars
       \/ []<>(main = "crawled" /\ exceptions # <<>>)
=============================================================================
