-------------------------- MODULE TreeCrawlerProofs --------------------------
(* What every build and every search does, for every tree, any number of     *)
(* threads and any failures.                                                 *)
EXTENDS TreeCrawler, FiniteSetTheorems, SequenceTheorems, WellFoundedInduction, TLAPS

-----------------------------------------------------------------------------
(* The tree.                                                                 *)

\* What holds of the root, and below every node of which it holds, holds of all.
LEMMA FromTheRoot ==
    ASSUME NEW S \in SUBSET Tree, Top \in S,
           \A n \in Tree \ {Top} : Parent[n] \in S => n \in S
    PROVE  S = Tree
  BY TreeCrawlerAssumption DEF IsTree

LEMMA ParentInTree == ASSUME NEW n \in Tree, n # Top PROVE Parent[n] \in Tree
  BY TreeCrawlerAssumption

\* The nodes above a node are closed upwards, and they are the fewest that are.
LEMMA AncestorsClosed ==
    ASSUME NEW n \in Tree
    PROVE  /\ AncestorsOrSelf(n) \subseteq Tree /\ n \in AncestorsOrSelf(n)
           /\ \A m \in AncestorsOrSelf(n) \ {Top} : Parent[m] \in AncestorsOrSelf(n)
           /\ \A S \in Upward : n \in S => AncestorsOrSelf(n) \subseteq S
<1>1. AncestorsOrSelf(n) = {m \in Tree : \A S \in Upward : n \in S => m \in S}
  BY DEF AncestorsOrSelf, Ancestors
<1>2. \A m \in AncestorsOrSelf(n) \ {Top} : Parent[m] \in AncestorsOrSelf(n)
  BY <1>1, ParentInTree DEF Upward
<1> QED BY <1>1, <1>2

LEMMA AncestorsGrow ==
    ASSUME NEW n \in Tree, NEW m \in AncestorsOrSelf(n)
    PROVE  AncestorsOrSelf(m) \subseteq AncestorsOrSelf(n)
<1>1. AncestorsOrSelf(n) \in Upward /\ m \in Tree
  BY AncestorsClosed DEF Upward
<1> QED BY <1>1, AncestorsClosed

LEMMA AncestorsOfTop == AncestorsOrSelf(Top) = {Top}
<1>1. Top \in Tree /\ {Top} \in Upward
  BY TreeCrawlerAssumption DEF Upward
<1> QED BY <1>1, AncestorsClosed

LEMMA AncestorsOfParent ==
    ASSUME NEW n \in Tree, n # Top
    PROVE  /\ AncestorsOrSelf(n) = {n} \cup AncestorsOrSelf(Parent[n])
           /\ n \notin AncestorsOrSelf(Parent[n])
<1>1. ASSUME NEW m \in Tree, m # Top
      PROVE  AncestorsOrSelf(m) = {m} \cup AncestorsOrSelf(Parent[m])
  <2>1. Parent[m] \in Tree /\ Parent[m] \in AncestorsOrSelf(m) /\ m \in AncestorsOrSelf(m)
    BY <1>1, ParentInTree, AncestorsClosed
  <2>2. {m} \cup AncestorsOrSelf(Parent[m]) \subseteq AncestorsOrSelf(m)
    BY <2>1, AncestorsGrow
  <2>3. {m} \cup AncestorsOrSelf(Parent[m]) \in Upward
    BY <2>1, AncestorsClosed DEF Upward
  <2>4. AncestorsOrSelf(m) \subseteq {m} \cup AncestorsOrSelf(Parent[m])
    BY <2>3, AncestorsClosed
  <2> QED BY <2>2, <2>4
<1> DEFINE S == {m \in Tree : m = Top \/ m \notin AncestorsOrSelf(Parent[m])}
<1>2. S \in SUBSET Tree /\ Top \in S
  BY TreeCrawlerAssumption
<1>3. ASSUME NEW m \in Tree \ {Top}, Parent[m] \in S PROVE m \in S
  <2> SUFFICES ASSUME m \in AncestorsOrSelf(Parent[m]) PROVE FALSE
    OBVIOUS
  <2> DEFINE p == Parent[m]
  <2>1. p \in Tree /\ (p = Top \/ p \notin AncestorsOrSelf(Parent[p]))
    BY <1>3
  <2>2. p # Top
    BY AncestorsOfTop
  <2>3. AncestorsOrSelf(p) = {p} \cup AncestorsOrSelf(Parent[p]) /\ Parent[p] \in Tree
    BY <1>1, <2>1, <2>2, ParentInTree
  <2>4. m # p
    BY <2>1, <2>2, <2>3, AncestorsClosed
  <2>5. m \in AncestorsOrSelf(Parent[p])
    BY <2>3, <2>4
  <2>6. p \in AncestorsOrSelf(m)
    BY AncestorsClosed
  <2>7. AncestorsOrSelf(m) \subseteq AncestorsOrSelf(Parent[p])
    BY <2>3, <2>5, AncestorsGrow
  <2> QED BY <2>1, <2>2, <2>6, <2>7
<1>4. S = Tree
  <2> HIDE DEF S
  <2> QED BY <1>2, <1>3, FromTheRoot
<1> QED BY <1>1, <1>4

LEMMA TopAboveAll == ASSUME NEW n \in Tree PROVE Top \in AncestorsOrSelf(n)
<1> DEFINE S == {m \in Tree : Top \in AncestorsOrSelf(m)}
<1>1. S \in SUBSET Tree /\ Top \in S
  BY TreeCrawlerAssumption, AncestorsClosed
<1>2. ASSUME NEW m \in Tree \ {Top}, Parent[m] \in S PROVE m \in S
  BY <1>2, AncestorsOfParent
<1>3. S = Tree
  <2> HIDE DEF S
  <2> QED BY <1>1, <1>2, FromTheRoot
<1> QED BY <1>3

\* Of two nodes above a node one is above the other.
LEMMA AncestorsInLine ==
    ASSUME NEW n \in Tree, NEW a \in AncestorsOrSelf(n), NEW b \in AncestorsOrSelf(n)
    PROVE  a \in AncestorsOrSelf(b) \/ b \in AncestorsOrSelf(a)
<1> DEFINE InLine(m) == \A x, y \in AncestorsOrSelf(m) :
                           x \in AncestorsOrSelf(y) \/ y \in AncestorsOrSelf(x)
           S == {m \in Tree : InLine(m)}
<1>1. S \in SUBSET Tree /\ Top \in S
  BY TreeCrawlerAssumption, AncestorsOfTop
<1>2. ASSUME NEW m \in Tree \ {Top}, Parent[m] \in S PROVE m \in S
  BY <1>2, AncestorsOfParent
<1>3. S = Tree
  <2> HIDE DEF S
  <2> QED BY <1>1, <1>2, FromTheRoot
<1> QED BY <1>3

\* Depths.
LEMMA DepthOf ==
    ASSUME NEW n \in Tree
    PROVE  /\ IsFiniteSet(AncestorsOrSelf(n)) /\ Depth(n) \in Nat
           /\ n # Top => Depth(n) = Depth(Parent[n]) + 1
<1>1. \A m \in Tree : IsFiniteSet(AncestorsOrSelf(m)) /\ Depth(m) \in Nat
  <2>1. IsFiniteSet(Tree)
    BY TreeCrawlerAssumption, FS_Difference DEF Tree
  <2> QED BY <2>1, AncestorsClosed, FS_Subset, FS_CardinalityType DEF Depth
<1>2. ASSUME n # Top PROVE Depth(n) = Depth(Parent[n]) + 1
  <2>1. /\ AncestorsOrSelf(n) = AncestorsOrSelf(Parent[n]) \cup {n}
        /\ n \notin AncestorsOrSelf(Parent[n]) /\ IsFiniteSet(AncestorsOrSelf(Parent[n]))
    BY <1>1, <1>2, AncestorsOfParent, ParentInTree
  <2> QED BY <2>1, FS_AddElement DEF Depth
<1> QED BY <1>1, <1>2

LEMMA DeeperBelow ==
    ASSUME NEW n \in Tree, NEW m \in AncestorsOrSelf(n), m # n
    PROVE  Depth(m) < Depth(n) /\ n \notin AncestorsOrSelf(m)
<1>1. n # Top
  BY AncestorsOfTop
<1>2. m \in AncestorsOrSelf(Parent[n]) /\ Parent[n] \in Tree /\ m \in Tree
  BY <1>1, AncestorsOfParent, ParentInTree, AncestorsClosed
<1>3. AncestorsOrSelf(m) \subseteq AncestorsOrSelf(Parent[n])
  BY <1>2, AncestorsGrow
<1>4. n \notin AncestorsOrSelf(m)
  BY <1>1, <1>3, AncestorsOfParent
<1>5. AncestorsOrSelf(m) \subseteq AncestorsOrSelf(n) /\ n \in AncestorsOrSelf(n)
  BY AncestorsGrow, AncestorsClosed
<1>6. Depth(m) <= Depth(n) /\ Depth(m) # Depth(n)
  BY <1>4, <1>5, DepthOf, FS_Subset DEF Depth
<1> QED BY <1>2, <1>4, <1>6, DepthOf

-----------------------------------------------------------------------------
(* What a page says of the tree below it.                                    *)

LEMMA OnPage ==
    ASSUME NEW a \in Tree
    PROVE  /\ Page(a) = {m \in Tree : a \in AncestorsOrSelf(m) /\ Depth(m) <= Depth(a) + Levels}
           /\ a \in Page(a)
           /\ ToEnqueue(a) \subseteq Page(a) /\ ToDiscard(a) \subseteq Page(a)
           /\ OffPage(a) \subseteq Page(a)
<1>1. Page(a) = {m \in Tree : a \in AncestorsOrSelf(m) /\ Depth(m) <= Depth(a) + Levels}
  BY DEF Page, Pages
<1>2. a \in Page(a)
  BY <1>1, AncestorsClosed, DepthOf, TreeCrawlerAssumption
<1> QED BY <1>1, <1>2 DEF ToEnqueue, ToDiscard, OffPage

\* A node below which the page does not go on is on the last level.
LEMMA OffPageIsDeep ==
    ASSUME NEW a \in Tree, NEW x \in OffPage(a)
    PROVE  Depth(x) = Depth(a) + Levels
<1>1. PICK y \in Children(x) : y \notin Page(a)
  BY DEF OffPage
<1>2. /\ x \in Tree /\ a \in AncestorsOrSelf(x) /\ Depth(x) <= Depth(a) + Levels
      /\ y \in Tree /\ y # Top /\ Parent[y] = x
  BY <1>1, OnPage DEF Children
<1>3. a \in AncestorsOrSelf(y) /\ Depth(y) = Depth(x) + 1
  BY <1>2, AncestorsOfParent, DepthOf
<1> QED BY <1>1, <1>2, <1>3, OnPage, DepthOf, TreeCrawlerAssumption

LEMMA EnqueuedIsDeep ==
    ASSUME NEW a \in Tree, NEW q \in ToEnqueue(a)
    PROVE  /\ q \in Tree /\ a \in AncestorsOrSelf(q) /\ q # a
           /\ Depth(q) = Depth(a) + Levels - 1
<1>1. PICK x \in Children(q) : x \in OffPage(a)
  BY DEF ToEnqueue
<1>2. q \in Tree /\ a \in AncestorsOrSelf(q)
  BY OnPage
<1>3. x \in Tree /\ x # Top /\ Parent[x] = q /\ Depth(x) = Depth(a) + Levels
  BY <1>1, OffPageIsDeep DEF Children
<1>4. Depth(q) = Depth(a) + Levels - 1 /\ Depth(a) \in Nat /\ Levels \in Nat /\ Levels > 1
  BY <1>2, <1>3, DepthOf, TreeCrawlerAssumption
<1> QED BY <1>2, <1>4

\* Whoever is below a node and not on its page is below a node that the page
\* adds to the list.
LEMMA BelowPage ==
    ASSUME NEW a \in Tree, NEW n \in Tree, a \in AncestorsOrSelf(n), n \notin Page(a)
    PROVE  \E q \in ToEnqueue(a) : q \in AncestorsOrSelf(n)
<1> DEFINE Above(m) == \E q \in ToEnqueue(a) : q \in AncestorsOrSelf(m)
           S == {m \in Tree : a \in AncestorsOrSelf(m) /\ m \notin Page(a) => Above(m)}
<1>1. S \in SUBSET Tree /\ Top \in S
  <2>1. a \in AncestorsOrSelf(Top) => Top \in Page(a)
    BY AncestorsOfTop, OnPage
  <2> QED BY <2>1, TreeCrawlerAssumption
<1>2. ASSUME NEW m \in Tree \ {Top}, Parent[m] \in S PROVE m \in S
  <2> SUFFICES ASSUME a \in AncestorsOrSelf(m), m \notin Page(a) PROVE Above(m)
    OBVIOUS
  <2> DEFINE p == Parent[m]
  <2>1. p \in Tree /\ a \in AncestorsOrSelf(p) /\ AncestorsOrSelf(p) \subseteq AncestorsOrSelf(m)
    BY AncestorsOfParent, ParentInTree, OnPage
  <2>2. CASE p \notin Page(a)
    BY <1>2, <2>1, <2>2
  <2>3. CASE p \in Page(a)
    <3>1. \A x \in Children(p) : Depth(x) = Depth(p) + 1
      BY DepthOf DEF Children
    <3>2. m \in Children(p)
      BY DEF Children
    <3>3. Depth(p) = Depth(a) + Levels
      <4>1. Depth(m) = Depth(p) + 1 /\ ~ (Depth(m) <= Depth(a) + Levels)
        BY <3>1, <3>2, OnPage
      <4>2. Depth(p) <= Depth(a) + Levels /\ Depth(a) \in Nat /\ Depth(p) \in Nat
        BY <2>1, <2>3, OnPage, DepthOf
      <4> QED BY <4>1, <4>2, TreeCrawlerAssumption
    <3>4. p \in OffPage(a)
      BY <2>1, <2>3, <3>1, <3>2, <3>3, OnPage, DepthOf, TreeCrawlerAssumption DEF OffPage
    <3>5. p # a /\ p # Top
      BY <2>1, <3>3, AncestorsOfTop, DepthOf, TreeCrawlerAssumption
    <3> DEFINE q == Parent[p]
    <3>6. q \in Tree /\ a \in AncestorsOrSelf(q) /\ AncestorsOrSelf(q) \subseteq AncestorsOrSelf(p)
      BY <2>1, <3>5, AncestorsOfParent, ParentInTree
    <3>7. q \in Page(a)
      BY <2>1, <3>3, <3>5, <3>6, OnPage, DepthOf, TreeCrawlerAssumption
    <3>8. q \in ToEnqueue(a)
      BY <2>1, <3>4, <3>5, <3>7 DEF ToEnqueue, Children
    <3> QED BY <2>1, <3>6, <3>8, AncestorsClosed
  <2> QED BY <2>2, <2>3
<1>3. S = Tree
  <2> HIDE DEF S
  <2> QED BY <1>1, <1>2, FromTheRoot
<1> QED BY <1>3

\* What a page takes out of the set below a node that it adds has no children.
LEMMA DiscardedIsLast ==
    ASSUME NEW a \in Tree, NEW q \in ToEnqueue(a), NEW b \in Page(a) \ OffPage(a),
           q \in AncestorsOrSelf(b), q # b
    PROVE  Children(b) = {}
<1>1. b \in Tree /\ Depth(b) <= Depth(a) + Levels /\ Depth(q) = Depth(a) + Levels - 1
  BY OnPage, EnqueuedIsDeep
<1>2. Depth(b) = Depth(a) + Levels
  BY <1>1, DeeperBelow, DepthOf, EnqueuedIsDeep, TreeCrawlerAssumption
<1>3. \A x \in Children(b) : x \notin Page(a)
  BY <1>1, <1>2, OnPage, DepthOf, TreeCrawlerAssumption DEF Children
<1> QED BY <1>1, <1>3 DEF OffPage

LEMMA LastHasNoneBelow ==
    ASSUME NEW b \in Tree, Children(b) = {}, NEW n \in Tree, b \in AncestorsOrSelf(n)
    PROVE  n = b
<1> DEFINE S == {m \in Tree : b \in AncestorsOrSelf(m) => m = b}
<1>1. S \in SUBSET Tree /\ Top \in S
  BY AncestorsOfTop, TreeCrawlerAssumption
<1>2. ASSUME NEW m \in Tree \ {Top}, Parent[m] \in S PROVE m \in S
  BY <1>2, AncestorsOfParent DEF Children
<1>3. S = Tree
  <2> HIDE DEF S
  <2> QED BY <1>1, <1>2, FromTheRoot
<1> QED BY <1>3

-----------------------------------------------------------------------------
(* Lists.                                                                    *)

LEMMA LeastOf ==
    ASSUME NEW S \in SUBSET Nat, S # {}
    PROVE  \E i \in S : \A j \in S : i <= j
<1> DEFINE Less == OpToRel(<, Nat)
<1>1. IsWellFoundedOn(Less, Nat)
  BY NatLessThanWellFounded
<1>2. PICK i \in S : \A j \in S : ~ (<<j, i>> \in Less)
  BY <1>1, WFMin
<1>3. \A j \in S : ~ (j < i)
  BY <1>2 DEF OpToRel
<1> QED BY <1>3

\* The next entry is the first one left in the set, if there is one.
LEMMA NextEntryIs ==
    ASSUME list \in Seq(Nodes), c \in 0..Len(list)
    PROVE  /\ NextEntry \in c + 1..Len(list) + 1
           /\ NextEntry <= Len(list) => list[NextEntry] \in set \cap Nodes
           /\ \A i \in c + 1..Len(list) : list[i] \in set => NextEntry <= i
<1> DEFINE left == {i \in c + 1..Len(list) : list[i] \in set}
<1>1. CASE left = {}
  BY <1>1 DEF NextEntry
<1>2. CASE left # {}
  <2>1. left \in SUBSET Nat
    OBVIOUS
  <2>2. \E i \in left : \A j \in left : i <= j
    <3> HIDE DEF left
    <3> QED BY <1>2, <2>1, LeastOf
  <2>3. NextEntry \in left /\ \A j \in left : NextEntry <= j
    BY <1>2, <2>2 DEF NextEntry
  <2> QED BY <2>3
<1> QED BY <1>1, <1>2

\* A list of nodes has each of them.
LEMMA ListedIs ==
    ASSUME NEW S \in SUBSET Nodes
    PROVE  /\ Listed(S) \in Seq(S)
           /\ \A n \in S : \E i \in 1..Len(Listed(S)) : Listed(S)[i] = n
<1> DEFINE k == Cardinality(S)  f == [n \in S |-> Before(n, S) + 1]
<1>1. IsFiniteSet(S) /\ k \in Nat
  BY TreeCrawlerAssumption, FS_Subset, FS_CardinalityType
<1>2. ASSUME NEW n \in S PROVE Before(n, S) \in Nat /\ Before(n, S) < k
  <2>1. {m \in S : Rank[m] < Rank[n]} \subseteq S /\ n \notin {m \in S : Rank[m] < Rank[n]}
    BY TreeCrawlerAssumption
  <2>2. /\ Cardinality({m \in S : Rank[m] < Rank[n]}) <= k
        /\ Cardinality({m \in S : Rank[m] < Rank[n]}) # k
        /\ Cardinality({m \in S : Rank[m] < Rank[n]}) \in Nat
    BY <1>1, <2>1, FS_Subset, FS_CardinalityType
  <2> QED BY <1>1, <2>2 DEF Before
<1>3. ASSUME NEW m \in S, NEW n \in S, Rank[m] < Rank[n] PROVE Before(m, S) < Before(n, S)
  <2> DEFINE T == {x \in S : Rank[x] < Rank[n]}  R == {x \in S : Rank[x] < Rank[m]}
  <2>1. \A x \in S : Rank[x] \in Nat
    BY TreeCrawlerAssumption
  <2>2. R \subseteq T /\ m \in T /\ m \notin R /\ IsFiniteSet(T)
    BY <1>1, <1>3, <2>1, FS_Subset
  <2>3. Cardinality(R) <= Cardinality(T) /\ Cardinality(R) # Cardinality(T)
        /\ Cardinality(R) \in Nat /\ Cardinality(T) \in Nat
    <3> HIDE DEF R, T
    <3> QED BY <2>2, FS_Subset, FS_CardinalityType
  <2> QED BY <2>3 DEF Before
<1>4. \A m, n \in S : Before(m, S) = Before(n, S) => m = n
  <2> SUFFICES ASSUME NEW m \in S, NEW n \in S, Before(m, S) = Before(n, S) PROVE m = n
    OBVIOUS
  <2>1. Rank[m] \in Nat /\ Rank[n] \in Nat /\ (Rank[m] = Rank[n] => m = n)
    BY TreeCrawlerAssumption
  <2> QED BY <1>2, <1>3, <2>1
<1>5. f \in Injection(S, 1..k)
  BY <1>1, <1>2, <1>4 DEF Injection, IsInjective
<1>6. IsFiniteSet(1..k) /\ Cardinality(1..k) = k
  BY <1>1, FS_Interval
<1>7. f \in Surjection(S, 1..k)
  <2> HIDE DEF f, k
  <2> QED BY <1>1, <1>5, <1>6, FS_Injection DEF k
<1>8. \A i \in 1..k : \E n \in S : Before(n, S) = i - 1
  <2> SUFFICES ASSUME NEW i \in 1..k PROVE \E n \in S : Before(n, S) = i - 1
    OBVIOUS
  <2>1. PICK n \in S : f[n] = i
    <3> HIDE DEF f
    <3> QED BY <1>7 DEF Surjection
  <2> QED BY <1>1, <1>2, <2>1
<1>9. \A i \in 1..k : Listed(S)[i] \in S /\ Before(Listed(S)[i], S) = i - 1
  BY <1>8 DEF Listed
<1>10. Listed(S) \in Seq(S) /\ Len(Listed(S)) = k
  BY <1>1, <1>9 DEF Listed
<1>11. ASSUME NEW n \in S PROVE \E i \in 1..k : Listed(S)[i] = n
  <2>1. Before(n, S) + 1 \in 1..k
    BY <1>1, <1>2
  <2>2. Before(Listed(S)[Before(n, S) + 1], S) = Before(n, S)
    BY <1>1, <1>2, <1>9, <2>1
  <2> QED BY <1>4, <1>9, <2>1, <2>2
<1> QED BY <1>10, <1>11

LEMMA FirstOfIs ==
    ASSUME NEW S \in SUBSET Nodes
    PROVE  /\ FirstOf(S) \in Seq(S)
           /\ \A n \in S : Before(n, S) < Batch =>
                 \E i \in 1..Len(FirstOf(S)) : FirstOf(S)[i] = n
<1> DEFINE T == {n \in S : Before(n, S) < Batch}
<1>1. T \in SUBSET Nodes /\ T \subseteq S
  OBVIOUS
<1>2. FirstOf(S) = Listed(T)
  BY DEF FirstOf
<1>3. /\ Listed(T) \in Seq(T)
      /\ \A n \in T : \E i \in 1..Len(Listed(T)) : Listed(T)[i] = n
  <2> HIDE DEF T
  <2> QED BY <1>1, ListedIs
<1>4. Seq(T) \subseteq Seq(S)
  <2> HIDE DEF T
  <2> QED BY <1>1
<1> QED BY <1>2, <1>3, <1>4

-----------------------------------------------------------------------------
(* The inductive invariant.                                                  *)

Mains == {"top", "wait", "scan", "exhausted", "crawled", "join", "raised", "finished"}
AtWork(n, pc) == [node |-> n, pc |-> pc]
Jobs == {Idle} \cup [node : Nodes, pc : {"fetch", "exit"}]
               \cup [node : Tree, pc : {"collect", "save"}]
Told(ex, fails, refusals) == IF ex.kind = "Build" THEN ex.node \in fails
                             ELSE ex.node \in Gone \cup refusals

\* What is shared is typed, and every exception is about a node that has failed or
\* was refused.
Typed ==
    /\ mode \in {"crawl", "find"} /\ nodes_limit \in Nat
    /\ main \in Mains
    /\ list \in Seq(Nodes) /\ set \subseteq Nodes /\ db \subseteq Nodes
    /\ c \in 0..Len(list)
    /\ worker \in [Slots -> Jobs]
    /\ again \in BOOLEAN /\ max_threads \in 1..MaxThreads
    /\ exceptions \in Seq([kind : {"Build", "NoParent"}, node : Nodes])
    /\ \A i \in DOMAIN exceptions : Told(exceptions[i], failed, refused)

\* The count of the threads is true, and who starts one has seen room for it.
Counted ==
    ~again \/ nodes_limit = 0 =>
        /\ IsFiniteSet(Running) /\ threads = Cardinality(Running)
        /\ threads <= MaxThreads /\ (main = "scan" => threads < max_threads)
        /\ main = "crawled" /\ nodes_limit = 0 => Running = {}

\* A search has no limit and saves nothing; it does not end without an answer while
\* workers are out, and it looks at no page of the target until it has seen it.
Searching ==
    /\ mode # "find" => found = None
    /\ mode = "find" =>
        /\ nodes_limit = 0 /\ main # "crawled" /\ ~again
        /\ fresh = {} /\ \A w \in Slots : worker[w].pc # "save"
        /\ found # None => Target \in Tree \ {Top} /\ found = Parent[Target]
        /\ main \in {"join", "finished"} /\ found = None => Running = {}
        /\ found = None /\ Target # Top =>
              /\ \A i \in 1..Len(list) : list[i] # Target
              /\ \A w \in Slots : worker[w].node # Target

\* What is still to be found out: every node, or the target.
Sought == IF mode = "crawl" THEN Tree
          ELSE IF found = None THEN {Target} \cap (Tree \ {Top}) ELSE {}

\* A node n below p has been updated, or is below a node that failed or was refused,
\* or is about to be seen from p on: an entry of the list or a worker leads to it.
Sees(job, b) == job \in {AtWork(b, "fetch"), AtWork(b, "collect")}
Leads(b) == b \in Unvisited \/ \E w \in Slots : Sees(worker[w], b)
Saves(b) == \E w \in Slots : worker[w] = AtWork(b, "save")
Covers(b, p, n) ==
    \/ b \in failed \cup refused
    \/ p \in AncestorsOrSelf(b) /\ Leads(b)
    \/ n \in Page(b) /\ Saves(b)
Covered(p, n) == n \in fresh \/ \E b \in AncestorsOrSelf(n) : Covers(b, p, n)

\* The root is among the nodes that the database is asked for at the beginning.
RootIsAsked == Top \in InDB /\ Before(Top, InDB) < Batch

\* It is so from the root, and from every node that the set has: what a page takes
\* out of the set is covered from the nodes that it leaves there.
AllCovered ==
    ~again /\ (mode = "crawl" => RootIsAsked) =>
        \A n \in Sought : \A p \in (set \cap Tree) \cup {Top} :
            p \in AncestorsOrSelf(n) => Covered(p, n)

IInv == Typed /\ Counted /\ Searching /\ AllCovered

-----------------------------------------------------------------------------
(* Steps.                                                                    *)

LEMMA JobIs ==
    ASSUME NEW j \in Jobs, j # Idle
    PROVE  /\ j = AtWork(j.node, j.pc) /\ j.node \in Nodes
           /\ j.pc \in {"fetch", "collect", "save", "exit"}
           /\ j.pc \in {"collect", "save"} => j.node \in Tree
<1>1. CASE j \in [node : Nodes, pc : {"fetch", "exit"}]
  BY <1>1 DEF AtWork
<1>2. CASE j \in [node : Tree, pc : {"collect", "save"}]
  BY <1>2 DEF AtWork, Tree
<1> QED BY <1>1, <1>2 DEF Jobs

\* A worker that goes on is at the same node, and runs as before.
LEMMA WorkerGoesOn ==
    ASSUME Typed, NEW w \in Slots, worker[w] # Idle, NEW pc, pc # "idle", Goto(w, pc)
    PROVE  /\ worker' = [worker EXCEPT ![w] = AtWork(worker[w].node, pc)]
           /\ Running' = Running
<1>1. worker[w] = AtWork(worker[w].node, worker[w].pc) /\ worker \in [Slots -> Jobs]
  BY JobIs DEF Typed
<1>2. [worker[w] EXCEPT !.pc = pc] = AtWork(worker[w].node, pc)
  BY <1>1 DEF AtWork
<1>3. worker' = [worker EXCEPT ![w] = AtWork(worker[w].node, pc)]
  BY <1>1, <1>2 DEF Goto
<1>4. AtWork(worker[w].node, pc) # Idle
  BY DEF AtWork, Idle
<1>5. worker'[w] # Idle /\ \A v \in Slots \ {w} : worker'[v] = worker[v]
  BY <1>1, <1>3, <1>4
<1> QED BY <1>3, <1>5 DEF Running

\* What the steps of the model say of where a worker is.
LEMMA WorkerIsAt ==
    ASSUME Typed, NEW w \in Slots, NEW pc, pc # "idle", At(w, pc)
    PROVE  /\ worker[w] # Idle /\ worker[w] = AtWork(worker[w].node, pc)
           /\ worker[w].node \in Nodes
           /\ pc \in {"collect", "save"} => worker[w].node \in Tree
<1>1. worker[w] # Idle /\ worker[w] \in Jobs /\ worker[w].pc = pc
  BY DEF Typed, At, Idle
<1> QED BY <1>1, JobIs

\* The workers go their way.
LEMMA WorkerTyped ==
    ASSUME Typed, NEW w \in Slots, Worker(w)
    PROVE  worker' \in [Slots -> Jobs] /\ worker[w] # Idle
<1>1. worker \in [Slots -> Jobs] /\ Idle \in Jobs
  BY DEF Typed, Jobs
<1>2. ASSUME NEW pc \in {"fetch", "collect", "save"}, At(w, pc), Goto(w, "exit")
      PROVE  worker' \in [Slots -> Jobs] /\ worker[w] # Idle
  <2>1. AtWork(worker[w].node, "exit") \in Jobs
    BY <1>2, WorkerIsAt DEF AtWork, Jobs
  <2> QED BY <1>1, <1>2, <2>1, WorkerIsAt, WorkerGoesOn
<1>3. ASSUME NEW pc \in {"fetch", "collect"}, At(w, pc), worker[w].node \in Tree,
             NEW next \in {"collect", "save"}, Goto(w, next)
      PROVE  worker' \in [Slots -> Jobs] /\ worker[w] # Idle
  <2>1. AtWork(worker[w].node, next) \in Jobs
    BY <1>3 DEF AtWork, Jobs
  <2> QED BY <1>1, <1>3, <2>1, WorkerIsAt, WorkerGoesOn
<1>4. CASE FetchPage(w)
  BY <1>3, <1>4 DEF FetchPage
<1>5. CASE CollectNodes(w)
  <2>1. worker[w].node \in Tree
    BY <1>5, WorkerIsAt DEF CollectNodes
  <2> QED BY <1>3, <1>5, <2>1 DEF CollectNodes
<1>6. CASE WorkerExits(w)
  BY <1>1, <1>6, WorkerIsAt DEF WorkerExits
<1>7. CASE NoParentFound(w) \/ WorkerFails(w) \/ NoMembers(w) \/ TooLate(w) \/ SavePage(w)
           \/ SearchPage(w)
  BY <1>2, <1>7 DEF NoParentFound, WorkerFails, NoMembers, TooLate, SavePage, SearchPage
<1> QED BY <1>4, <1>5, <1>6, <1>7 DEF Worker

\* Every exception stays about a node that failed or was refused.
LEMMA PutsTyped ==
    ASSUME Typed, NEW n \in Nodes, NEW kind \in {"Build", "NoParent"}, Puts(kind, n),
           failed \subseteq failed', refused \subseteq refused',
           Told([kind |-> kind, node |-> n], failed', refused')
    PROVE  /\ exceptions' \in Seq([kind : {"Build", "NoParent"}, node : Nodes])
           /\ \A i \in DOMAIN exceptions' : Told(exceptions'[i], failed', refused')
<1> DEFINE ex == [kind |-> kind, node |-> n]
<1>1. /\ exceptions' = Append(exceptions, ex)
      /\ exceptions \in Seq([kind : {"Build", "NoParent"}, node : Nodes])
      /\ ex \in [kind : {"Build", "NoParent"}, node : Nodes]
      /\ \A i \in DOMAIN exceptions : Told(exceptions[i], failed', refused')
  BY DEF Puts, Typed, Told
<1>2. Told(ex, failed', refused')
  OBVIOUS
<1> HIDE DEF ex
<1>3. \A i \in DOMAIN exceptions' :
         exceptions'[i] = ex \/ (i \in DOMAIN exceptions /\ exceptions'[i] = exceptions[i])
  BY <1>1
<1>4. exceptions' \in Seq([kind : {"Build", "NoParent"}, node : Nodes])
  BY <1>1
<1> QED BY <1>1, <1>2, <1>3, <1>4

\* Nodes of a page are added to the list and taken out of the set.
LEMMA EnqueueTyped ==
    ASSUME Typed, NEW a \in Tree, NEW done, Enqueue(ToEnqueue(a), done)
    PROVE  /\ set' \subseteq Nodes /\ list' \in Seq(Nodes) /\ Len(list) <= Len(list')
           /\ \A i \in 1..Len(list) : list'[i] = list[i]
           /\ \A q \in ToEnqueue(a) \ set : \E i \in Len(list) + 1..Len(list') : list'[i] = q
           /\ \A i \in Len(list) + 1..Len(list') : list'[i] \in ToEnqueue(a)
<1> DEFINE S == ToEnqueue(a) \ set  added == Listed(S)
<1>1. ToEnqueue(a) \subseteq Nodes
  BY OnPage DEF Tree
<1>2. added \in Seq(S) /\ \A n \in S : \E i \in 1..Len(added) : added[i] = n
  BY <1>1, ListedIs
<1>3. list' = list \o added /\ set' = (set \ done) \cup ToEnqueue(a)
  BY DEF Enqueue
<1>4. list \in Seq(Nodes) /\ set \subseteq Nodes /\ S \subseteq Nodes
  BY <1>1 DEF Typed
<1>5. added \in Seq(Nodes) /\ Len(added) \in Nat /\ Len(list) \in Nat
  <2> HIDE DEF S, added
  <2> QED BY <1>2, <1>4
<1>6. /\ list' \in Seq(Nodes) /\ Len(list') = Len(list) + Len(added)
      /\ \A i \in 1..Len(list) : list'[i] = list[i]
      /\ \A i \in 1..Len(added) : list'[Len(list) + i] = added[i]
  <2> HIDE DEF added, S
  <2> QED BY <1>3, <1>4, <1>5
<1>7. \A q \in S : \E i \in Len(list) + 1..Len(list') : list'[i] = q
  <2> HIDE DEF added, S
  <2> SUFFICES ASSUME NEW q \in S PROVE \E i \in Len(list) + 1..Len(list') : list'[i] = q
    OBVIOUS
  <2>1. PICK j \in 1..Len(added) : added[j] = q
    BY <1>2
  <2>2. Len(list) + j \in Len(list) + 1..Len(list') /\ list'[Len(list) + j] = q
    BY <1>5, <1>6, <2>1
  <2> QED BY <2>2
<1>8. ASSUME NEW i \in Len(list) + 1..Len(list') PROVE list'[i] \in S
  <2> HIDE DEF added, S
  <2> DEFINE j == i - Len(list)
  <2>1. j \in 1..Len(added) /\ i = Len(list) + j
    BY <1>5, <1>6
  <2>2. list'[i] = added[j]
    BY <1>6, <2>1
  <2>3. added[j] \in S
    BY <1>2, <2>1
  <2> QED BY <2>2, <2>3
<1>9. set' \subseteq Nodes /\ S \subseteq ToEnqueue(a)
  BY <1>1, <1>3, <1>4
<1>10. Len(list) <= Len(list')
  BY <1>5, <1>6
<1> HIDE DEF added
<1> QED BY <1>6, <1>7, <1>8, <1>9, <1>10

LEMMA InitTyped == Init => Typed
<1> SUFFICES ASSUME Init PROVE Typed
  OBVIOUS
<1>1. InDB \subseteq Nodes /\ NodesLimits \subseteq Nat /\ Top \in Nodes /\ MaxThreads \in 1..MaxThreads
  BY TreeCrawlerAssumption DEF Tree
<1>2. list \in Seq(Nodes) /\ nodes_limit \in Nat /\ mode \in {"crawl", "find"}
  <2>1. CASE build_network
    <3>1. FirstOf(InDB) \in Seq(InDB) /\ Seq(InDB) \subseteq Seq(Nodes)
      BY <1>1, FirstOfIs
    <3> QED BY <1>1, <2>1, <3>1 DEF build_network
  <2>2. CASE find_parent
    BY <1>1, <2>2 DEF find_parent
  <2> QED BY <2>1, <2>2 DEF Init
<1>3. set \subseteq Nodes
  BY <1>2 DEF Init, Range
<1>4. worker \in [Slots -> Jobs]
  BY DEF Init, Jobs
<1>5. again \in BOOLEAN /\ max_threads \in 1..MaxThreads
  BY <1>1 DEF Init
<1>6. exceptions \in Seq([kind : {"Build", "NoParent"}, node : Nodes]) /\ DOMAIN exceptions = {}
  BY DEF Init
<1>7. main \in Mains /\ c \in 0..Len(list) /\ db \subseteq Nodes
  BY <1>1, <1>2 DEF Init, Mains
<1> QED BY <1>2, <1>3, <1>4, <1>5, <1>6, <1>7 DEF Typed

LEMMA MainTyped ==
    ASSUME Typed, Main
    PROVE  Typed'
<1>1. CASE \/ StopAtLimit \/ StopWhenFound \/ GoesOn \/ NoException \/ WaitOrStop
           \/ JoinWorkers \/ FinishBuild
  BY <1>1 DEF Typed, Mains, StopAtLimit, StopWhenFound, GoesOn, NoException, WaitOrStop,
     JoinWorkers, FinishBuild
<1>2. CASE HandleException
  <2>1. /\ exceptions' \in Seq([kind : {"Build", "NoParent"}, node : Nodes])
        /\ \A i \in DOMAIN exceptions' : i + 1 \in DOMAIN exceptions /\ exceptions'[i] = exceptions[i + 1]
    BY <1>2 DEF HandleException, Typed
  <2>2. \A i \in DOMAIN exceptions' : Told(exceptions'[i], failed', refused')
    BY <1>2, <2>1 DEF HandleException, Typed
  <2> QED BY <1>2, <2>1, <2>2 DEF HandleException, Typed, Mains
<1>3. CASE StartWorker
  <2>1. NextEntry \in c + 1..Len(list) + 1 /\ NextEntry <= Len(list) /\ list[NextEntry] \in Nodes
    BY <1>3, NextEntryIs DEF Typed, StartWorker
  <2>2. [node |-> list[NextEntry], pc |-> "fetch"] \in Jobs
    BY <2>1 DEF Jobs
  <2> QED BY <1>3, <2>1, <2>2 DEF StartWorker, Typed, Mains
<1>4. CASE CannotStart
  <2>1. NextEntry \in c + 1..Len(list) + 1 /\ NextEntry <= Len(list)
    BY <1>4, NextEntryIs DEF Typed, CannotStart
  <2>2. max_threads' \in 1..MaxThreads
    BY <1>4, TreeCrawlerAssumption DEF CannotStart, Typed
  <2> QED BY <1>4, <2>1, <2>2 DEF CannotStart, Typed, Mains
<1>5. CASE ListExhausted
  BY <1>5 DEF ListExhausted, Typed, Mains
<1>6. CASE RepeatCrawl
  <2>1. db \ fresh \subseteq Nodes
    BY DEF Typed
  <2>2. FirstOf(db \ fresh) \in Seq(db \ fresh) /\ Seq(db \ fresh) \subseteq Seq(Nodes)
    BY <2>1, FirstOfIs
  <2>3. list' \in Seq(Nodes) /\ set' = Range(list') /\ c' = 0 /\ exceptions' = <<>>
    BY <1>6, <2>2 DEF RepeatCrawl, Start, get_nodes_to_crawl
  <2>4. set' \subseteq Nodes
    BY <2>3 DEF Range
  <2> QED BY <1>6, <2>3, <2>4 DEF RepeatCrawl, Typed, Mains
<1> QED BY <1>1, <1>2, <1>3, <1>4, <1>5, <1>6 DEF Main

LEMMA WorkerKeepsTyped ==
    ASSUME Typed, NEW w \in Slots, Worker(w)
    PROVE  Typed'
<1> DEFINE n == worker[w].node
<1>1. worker' \in [Slots -> Jobs]
  BY WorkerTyped
<1>2. CASE NoParentFound(w)
  <2>1. n \in Nodes /\ refused \subseteq refused' /\ n \in Gone \cup refused'
    BY <1>2, WorkerIsAt DEF NoParentFound
  <2>2. ASSUME Puts("NoParent", n) PROVE /\ exceptions' \in Seq([kind : {"Build", "NoParent"}, node : Nodes])
                                          /\ \A i \in DOMAIN exceptions' : Told(exceptions'[i], failed', refused')
    BY <1>2, <2>1, <2>2, PutsTyped DEF NoParentFound, Told
  <2> QED BY <1>1, <1>2, <2>1, <2>2 DEF NoParentFound, Typed, Told
<1>3. CASE WorkerFails(w)
  <2>1. n \in Nodes /\ failed \subseteq failed' /\ n \in failed'
    BY <1>3, WorkerIsAt DEF WorkerFails
  <2>2. /\ exceptions' \in Seq([kind : {"Build", "NoParent"}, node : Nodes])
        /\ \A i \in DOMAIN exceptions' : Told(exceptions'[i], failed', refused')
    BY <1>3, <2>1, PutsTyped DEF WorkerFails, Told
  <2> QED BY <1>1, <1>3, <2>2 DEF WorkerFails, Typed
<1>4. CASE NoMembers(w)
  BY <1>1, <1>4 DEF NoMembers, Typed, Told
<1>5. CASE TooLate(w) \/ FetchPage(w) \/ WorkerExits(w)
  BY <1>1, <1>5 DEF TooLate, FetchPage, WorkerExits, Typed
<1>6. CASE CollectNodes(w)
  <2>1. n \in Tree /\ n \in Nodes
    BY <1>6, WorkerIsAt DEF CollectNodes
  <2>2. set' \subseteq Nodes /\ list' \in Seq(Nodes) /\ Len(list) <= Len(list')
    BY <1>6, <2>1, EnqueueTyped DEF CollectNodes
  <2> QED BY <1>1, <1>6, <2>1, <2>2 DEF CollectNodes, save_root_node, Typed
<1>7. CASE SavePage(w)
  <2>1. Page(n) \subseteq Nodes
    BY <1>7, WorkerIsAt, OnPage DEF SavePage, Tree
  <2> QED BY <1>1, <1>7, <2>1 DEF SavePage, Typed
<1>8. CASE SearchPage(w)
  <2>1. n \in Tree
    BY <1>8, WorkerIsAt DEF SearchPage
  <2>2. set' \subseteq Nodes /\ list' \in Seq(Nodes) /\ Len(list) <= Len(list')
    <3>1. CASE UNCHANGED <<list, set>>
      BY <3>1 DEF Typed
    <3>2. CASE Enqueue(ToEnqueue(n), IF Children(n) = {} THEN {n} ELSE ToDiscard(n))
      BY <2>1, <3>2, EnqueueTyped
    <3> QED BY <1>8, <3>1, <3>2 DEF SearchPage
  <2> QED BY <1>1, <1>8, <2>2 DEF SearchPage, Typed
<1> QED BY <1>2, <1>3, <1>4, <1>5, <1>6, <1>7, <1>8 DEF Worker

-----------------------------------------------------------------------------
(* How many threads there are.                                               *)

LEMMA CountKeeps ==
    ASSUME Typed, Counted, Searching, Next
    PROVE  Counted'
<1>1. ASSUME NEW w \in Slots, Worker(w), ~ WorkerExits(w)
      PROVE  Running' = Running /\ UNCHANGED <<threads, main, nodes_limit, max_threads, again>>
  <2>1. \E pc : pc # "idle" /\ Goto(w, pc)
    BY <1>1 DEF Worker, NoParentFound, WorkerFails, NoMembers, TooLate, FetchPage, CollectNodes,
       SavePage, SearchPage
  <2>2. Running' = Running
    BY <1>1, <2>1, WorkerTyped, WorkerGoesOn
  <2> QED BY <1>1, <2>2 DEF Worker, NoParentFound, WorkerFails, NoMembers, TooLate, FetchPage,
          CollectNodes, SavePage, SearchPage
<1>2. CASE \E w \in Slots : Worker(w) /\ ~ WorkerExits(w)
  BY <1>1, <1>2 DEF Counted
<1>3. ASSUME NEW w \in Slots, WorkerExits(w) PROVE Counted'
  <2>1. w \in Running /\ Running' = Running \ {w} /\ threads' = threads - 1
    BY <1>3, WorkerIsAt DEF WorkerExits, Typed, Running
  <2>2. /\ IsFiniteSet(Running)
             => /\ IsFiniteSet(Running') /\ Cardinality(Running') = Cardinality(Running) - 1
                /\ Cardinality(Running) \in Nat
    BY <2>1, FS_RemoveElement, FS_CardinalityType
  <2> QED BY <1>3, <2>1, <2>2, TreeCrawlerAssumption DEF WorkerExits, Counted, Typed
<1>4. CASE StartWorker
  <2>1. PICK w \in Slots \ Running :
           worker' = [worker EXCEPT ![w] = [node |-> list[NextEntry], pc |-> "fetch"]]
    BY <1>4 DEF StartWorker
  <2>2. Running' = Running \cup {w} /\ w \notin Running
    BY <2>1 DEF Running, Typed, Idle
  <2>3. IsFiniteSet(Running)
           => /\ IsFiniteSet(Running') /\ Cardinality(Running') = Cardinality(Running) + 1
              /\ Cardinality(Running) \in Nat
    BY <2>2, FS_AddElement, FS_CardinalityType
  <2> QED BY <1>4, <2>3, TreeCrawlerAssumption DEF StartWorker, Counted, Typed
<1>5. CASE RepeatCrawl
  <2>1. again' /\ nodes_limit' = nodes_limit /\ threads' = 0 /\ Running' = Running /\ main' = "top"
    BY <1>5 DEF RepeatCrawl, Typed, Start, Running
  <2>2. nodes_limit = 0 => Running = {}
    BY <1>5 DEF RepeatCrawl, Counted
  <2> QED BY <2>1, <2>2, FS_EmptySet, TreeCrawlerAssumption DEF Counted
<1>6. CASE WaitOrStop
  <2>1. threads = Cardinality(Running) /\ IsFiniteSet(Running) /\ ~ (threads >= 1) => Running = {}
    BY FS_EmptySet, FS_CardinalityType
  <2> QED BY <1>6, <2>1 DEF WaitOrStop, Counted, Running
<1>7. CASE \/ StopAtLimit \/ StopWhenFound \/ GoesOn \/ NoException \/ HandleException \/ CannotStart
           \/ ListExhausted \/ JoinWorkers \/ FinishBuild
  <2>1. /\ UNCHANGED <<threads, nodes_limit, again>> /\ Running' = Running
        /\ main' = "scan" => threads < max_threads /\ max_threads' = max_threads
        /\ main' = "crawled" => nodes_limit # 0
    BY <1>7 DEF StopAtLimit, LimitReached, StopWhenFound, GoesOn, NoException, Proceeds, HandleException, CannotStart,
       ListExhausted, JoinWorkers, FinishBuild, Running, Typed
  <2> QED BY <2>1 DEF Counted
<1>8. CASE Done
  BY <1>8 DEF Done, vars, Counted, Running
<1> QED BY <1>2, <1>3, <1>4, <1>5, <1>6, <1>7, <1>8 DEF Next, Main

-----------------------------------------------------------------------------
(* The search.                                                               *)

LEMMA SearchKeepsMain ==
    ASSUME Typed, Counted, Searching, Main
    PROVE  Searching'
<1> SUFFICES ASSUME mode = "find" PROVE Searching'
  BY DEF Searching, Main, StopAtLimit, StopWhenFound, GoesOn, NoException, HandleException, StartWorker,
     CannotStart, ListExhausted, WaitOrStop, JoinWorkers, RepeatCrawl, FinishBuild
<1>1. CASE \/ StopWhenFound \/ GoesOn \/ NoException \/ HandleException \/ CannotStart
           \/ ListExhausted \/ JoinWorkers
  BY <1>1 DEF Searching, StopWhenFound, GoesOn, NoException, HandleException, CannotStart,
     ListExhausted, JoinWorkers, Running
<1>2. CASE StartWorker
  <2>1. PICK w \in Slots \ Running :
           worker' = [worker EXCEPT ![w] = [node |-> list[NextEntry], pc |-> "fetch"]]
    BY <1>2 DEF StartWorker
  <2>2. NextEntry \in 1..Len(list)
    BY <1>2, NextEntryIs DEF Typed, StartWorker
  <2>3. \A v \in Slots : worker'[v] = worker[v] \/ worker'[v] = [node |-> list[NextEntry], pc |-> "fetch"]
    BY <2>1 DEF Typed
  <2>4. \A v \in Slots : worker'[v].pc # "save"
    BY <2>3 DEF Searching
  <2>5. found = None /\ Target # Top =>
           /\ \A i \in 1..Len(list) : list[i] # Target
           /\ \A v \in Slots : worker'[v].node # Target
    BY <2>2, <2>3 DEF Searching
  <2> QED BY <1>2, <2>4, <2>5 DEF StartWorker, Searching
<1>3. CASE WaitOrStop
  <2>1. threads = Cardinality(Running) /\ IsFiniteSet(Running) /\ ~ (threads >= 1) => Running = {}
    BY FS_EmptySet, FS_CardinalityType
  <2> QED BY <1>3, <2>1 DEF WaitOrStop, Counted, Searching, Running
<1>4. CASE StopAtLimit \/ RepeatCrawl \/ FinishBuild
  BY <1>4 DEF StopAtLimit, LimitReached, RepeatCrawl, FinishBuild, Searching
<1> QED BY <1>1, <1>2, <1>3, <1>4 DEF Main

\* What a search sees below the root of a page names the parent of the target.
LEMMA TargetOnPage ==
    ASSUME NEW n \in Tree, Target \in Page(n) \ {n}
    PROVE  Target \in Tree \ {Top} /\ Parent[Target] \in Nodes
<1>1. Target \in Tree /\ Target # Top
  BY OnPage, AncestorsOfTop
<1> QED BY <1>1, ParentInTree DEF Tree

LEMMA SearchKeepsWorker ==
    ASSUME Typed, Searching, NEW w \in Slots, Worker(w)
    PROVE  Searching'
<1> SUFFICES ASSUME mode = "find" PROVE Searching'
  BY DEF Searching, Worker, NoParentFound, WorkerFails, NoMembers, TooLate, FetchPage, CollectNodes,
     SavePage, SearchPage, WorkerExits
<1>1. w \in Running
  BY WorkerTyped DEF Running
<1>2. main \in {"join", "finished"} => found # None
  BY <1>1 DEF Searching
<1>3. ASSUME NEW pc \in {"collect", "exit"}, Goto(w, pc)
      PROVE  /\ \A v \in Slots : worker'[v].pc # "save"
             /\ \A v \in Slots : worker'[v].node = worker[v].node
  <2>1. worker' = [worker EXCEPT ![w] = AtWork(worker[w].node, pc)]
    BY <1>3, WorkerTyped, WorkerGoesOn
  <2> QED BY <2>1 DEF Typed, AtWork, Searching
<1>4. CASE NoParentFound(w) \/ WorkerFails(w) \/ NoMembers(w) \/ TooLate(w) \/ FetchPage(w)
  <2>1. \E pc \in {"collect", "exit"} : Goto(w, pc)
    BY <1>4 DEF NoParentFound, WorkerFails, NoMembers, TooLate, FetchPage
  <2>2. UNCHANGED <<mode, nodes_limit, main, list, fresh, found, again>>
    BY <1>4 DEF NoParentFound, WorkerFails, NoMembers, TooLate, FetchPage
  <2> QED BY <1>2, <1>3, <2>1, <2>2 DEF Searching
<1>5. CASE CollectNodes(w) \/ SavePage(w)
  BY <1>5 DEF CollectNodes, SavePage, At, Searching
<1>6. CASE WorkerExits(w)
  <2>1. worker' = [worker EXCEPT ![w] = Idle]
    BY <1>6 DEF WorkerExits
  <2>2. \A v \in Slots : worker'[v] = worker[v] \/ worker'[v] = Idle
    BY <2>1 DEF Typed
  <2>3. Target # None
    BY TreeCrawlerAssumption, NodeAssumption
  <2> QED BY <1>2, <1>6, <2>2, <2>3 DEF WorkerExits, Searching, Idle
<1>7. CASE SearchPage(w)
  <2> DEFINE n == worker[w].node
  <2>1. n \in Tree /\ Goto(w, "exit") /\ UNCHANGED <<mode, nodes_limit, main, fresh, again>>
    BY <1>7, WorkerIsAt DEF SearchPage
  <2>2. CASE Target \in Page(n) \ {n}
    <3>1. found' = IF found = None THEN Parent[Target] ELSE found
      BY <1>7, <2>2 DEF SearchPage
    <3>2. Target \in Tree \ {Top} /\ Parent[Target] \in Nodes /\ None \notin Nodes
      BY <2>1, <2>2, TargetOnPage, NodeAssumption
    <3>3. found' # None /\ found' = Parent[Target]
      BY <3>1, <3>2 DEF Searching
    <3> QED BY <1>3, <2>1, <3>2, <3>3 DEF Searching
  <2>3. CASE Target \notin Page(n) \ {n} /\ found # None
    <3>1. UNCHANGED <<found, list>>
      BY <1>7, <2>3 DEF SearchPage
    <3> QED BY <1>3, <2>1, <2>3, <3>1 DEF Searching
  <2>4. CASE Target \notin Page(n) \ {n} /\ found = None
    <3>1. found' = None /\ Enqueue(ToEnqueue(n), IF Children(n) = {} THEN {n} ELSE ToDiscard(n))
      BY <1>7, <2>4 DEF SearchPage
    <3>2. ASSUME Target # Top PROVE \A i \in 1..Len(list') : list'[i] # Target
      <4>1. n # Target
        BY <2>4, <3>2 DEF Searching
      <4>2. Target \notin ToEnqueue(n)
        BY <2>1, <2>4, <4>1, OnPage
      <4>3. /\ \A i \in 1..Len(list) : list'[i] = list[i] /\ list[i] # Target
            /\ \A i \in Len(list) + 1..Len(list') : list'[i] # Target
            /\ list \in Seq(Nodes) /\ list' \in Seq(Nodes)
        <5>1. /\ \A i \in 1..Len(list) : list[i] # Target
              /\ list \in Seq(Nodes)
          BY <2>4, <3>2 DEF Searching, Typed
        <5>2. /\ \A i \in 1..Len(list) : list'[i] = list[i]
              /\ \A i \in Len(list) + 1..Len(list') : list'[i] \in ToEnqueue(n)
              /\ list' \in Seq(Nodes)
          BY <2>1, <3>1, EnqueueTyped
        <5> QED BY <4>2, <5>1, <5>2
      <4> QED BY <4>3
    <3> QED BY <1>2, <1>3, <2>1, <2>4, <3>1, <3>2 DEF Searching
  <2> QED BY <2>2, <2>3, <2>4
<1> QED BY <1>4, <1>5, <1>6, <1>7 DEF Worker

-----------------------------------------------------------------------------
(* What is covered stays covered.                                            *)

\* A step that takes nothing from the list but what a worker has begun, failed or
\* was refused, and lets no worker go before it has saved its page.
Onward ==
    /\ mode' = mode /\ (~again' => ~again) /\ set' \subseteq set /\ Sought' \subseteq Sought
    /\ failed \subseteq failed' /\ refused \subseteq refused'
    /\ \A n \in Tree \cap fresh : n \in fresh' \cup refused'
    /\ \A b \in Tree : Leads(b) => Leads(b)' \/ b \in failed' \cup refused'
    /\ \A b \in Tree : Saves(b) => Saves(b)' \/ b \in failed' \cup refused' \/ Page(b) \subseteq fresh'

LEMMA SoughtInTree == Sought \subseteq Tree
  BY DEF Sought

LEMMA OnwardKeeps ==
    ASSUME AllCovered, Onward
    PROVE  AllCovered'
<1> SUFFICES ASSUME ~again' /\ (mode' = "crawl" => RootIsAsked),
                    NEW n \in Sought', NEW p \in (set' \cap Tree) \cup {Top}, p \in AncestorsOrSelf(n)
             PROVE  Covered(p, n)'
  BY DEF AllCovered
<1>1. n \in Tree /\ AncestorsOrSelf(n) \subseteq Tree /\ n \in AncestorsOrSelf(n)
  BY SoughtInTree, AncestorsClosed DEF Onward
<1>2. Covered(p, n)
  BY DEF AllCovered, Onward
<1>3. CASE n \in fresh
  <2>1. n \in fresh' \/ n \in refused'
    BY <1>1, <1>3 DEF Onward
  <2> QED BY <1>1, <2>1 DEF Covered, Covers
<1>4. ASSUME NEW b \in AncestorsOrSelf(n), Covers(b, p, n)
      PROVE  n \in fresh' \/ Covers(b, p, n)'
  BY <1>1, <1>4 DEF Onward, Covers
<1> QED BY <1>2, <1>3, <1>4 DEF Covered

\* The entries left are those behind c, and a worker leads on while it is at work.
LEMMA UnvisitedStays ==
    ASSUME Typed, NEW b, b \in Unvisited,
           c' = c, list' = list, b \in set'
    PROVE  b \in Unvisited'
  BY DEF Unvisited

LEMMA OthersStay ==
    ASSUME Typed, NEW w \in Slots, NEW from, NEW to,
           worker[w] = from, worker' = [worker EXCEPT ![w] = to]
    PROVE  \A b : /\ Leads(b) => b \in Unvisited \/ Leads(b)' \/ Sees(from, b)
                  /\ b \in Unvisited' \/ Sees(to, b) => Leads(b)'
                  /\ Saves(b) => Saves(b)' \/ from = AtWork(b, "save")
                  /\ to = AtWork(b, "save") => Saves(b)'
<1>1. worker'[w] = to /\ \A v \in Slots \ {w} : worker'[v] = worker[v]
  BY DEF Typed
<1> QED BY <1>1 DEF Leads, Saves

LEMMA MainOnward ==
    ASSUME Typed, Main, ~again'
    PROVE  Onward
<1>1. ~ RepeatCrawl
  BY DEF RepeatCrawl, Typed
<1>2. CASE \/ StopAtLimit \/ StopWhenFound \/ GoesOn \/ NoException \/ WaitOrStop
           \/ JoinWorkers \/ FinishBuild
  <2>1. UNCHANGED <<mode, again, set, list, c, worker, fresh, failed, refused, found>>
    BY <1>2 DEF StopAtLimit, StopWhenFound, GoesOn, NoException, WaitOrStop, JoinWorkers,
       FinishBuild
  <2> QED BY <2>1 DEF Onward, Sought, Leads, Saves, Unvisited
<1>3. CASE CannotStart \/ ListExhausted
  <2>1. UNCHANGED <<mode, again, set, list, worker, fresh, failed, refused, found>>
    BY <1>3 DEF CannotStart, ListExhausted
  <2>2. \A i \in c + 1..Len(list) : list[i] \in set => i \in c' + 1..Len(list)
    <3>1. NextEntry \in c + 1..Len(list) + 1
          /\ \A i \in c + 1..Len(list) : list[i] \in set => NextEntry <= i
      BY NextEntryIs DEF Typed
    <3> QED BY <1>3, <3>1 DEF CannotStart, ListExhausted, Typed
  <2>3. \A b : b \in Unvisited => b \in Unvisited'
    BY <2>1, <2>2 DEF Unvisited
  <2> QED BY <2>1, <2>3 DEF Onward, Sought, Leads, Saves
<1>4. CASE StartWorker
  <2> DEFINE a == list[NextEntry]
  <2>1. PICK w \in Slots \ Running : worker' = [worker EXCEPT ![w] = [node |-> a, pc |-> "fetch"]]
    BY <1>4 DEF StartWorker
  <2>2. UNCHANGED <<mode, again, set, list, fresh, failed, refused, found>> /\ c' = NextEntry
    BY <1>4 DEF StartWorker
  <2>3. NextEntry \in c + 1..Len(list)
        /\ \A i \in c + 1..Len(list) : list[i] \in set => NextEntry <= i
    BY <1>4, NextEntryIs DEF Typed, StartWorker
  <2>4. worker'[w] = AtWork(a, "fetch") /\ worker[w] = Idle
    BY <2>1 DEF Typed, AtWork, Running
  <2>5. \A b : b \in Unvisited => b \in Unvisited' \/ b = a
    <3>1. \A i \in c + 1..Len(list) : list[i] \in set => i \in c' + 1..Len(list) \/ i = NextEntry
      BY <2>2, <2>3 DEF Typed
    <3> QED BY <2>2, <3>1 DEF Unvisited
  <2>8. \A b : /\ Leads(b) => b \in Unvisited \/ Leads(b)' \/ Sees(Idle, b)
               /\ b \in Unvisited' \/ Sees(AtWork(a, "fetch"), b) => Leads(b)'
               /\ Saves(b) => Saves(b)' \/ Idle = AtWork(b, "save")
    <3>1. worker' = [worker EXCEPT ![w] = AtWork(a, "fetch")]
      BY <2>1 DEF AtWork
    <3> QED BY <2>4, <3>1, OthersStay
  <2>6. \A b \in Tree : Leads(b) => Leads(b)'
    <3>1. Sees(AtWork(a, "fetch"), a) /\ \A b : ~ Sees(Idle, b)
      BY DEF Sees, AtWork, Idle
    <3> QED BY <2>4, <2>5, <2>8, <3>1
  <2>7. \A b \in Tree : Saves(b) => Saves(b)'
    <3>1. \A b : Idle # AtWork(b, "save")
      BY DEF AtWork, Idle
    <3> QED BY <2>8, <3>1
  <2> QED BY <2>2, <2>6, <2>7 DEF Onward, Sought
<1>5. CASE HandleException
  <2> DEFINE ex == Head(exceptions)
  <2>1. UNCHANGED <<mode, again, list, c, worker, failed, refused, found>>
    BY <1>5 DEF HandleException
  <2>2. Told(ex, failed, refused) /\ ex.kind \in {"Build", "NoParent"}
    <3>1. exceptions # <<>> /\ exceptions \in Seq([kind : {"Build", "NoParent"}, node : Nodes])
      BY <1>5 DEF HandleException, Typed
    <3> DEFINE E == [kind : {"Build", "NoParent"}, node : Nodes]
    <3>2. 1 \in 1..Len(exceptions) /\ ex = exceptions[1] /\ DOMAIN exceptions = 1..Len(exceptions)
      BY <3>1
    <3>3. exceptions[1] \in E
      <4>1. exceptions \in Seq(E)
        BY <3>1
      <4> HIDE DEF E
      <4> QED BY <3>2, <4>1, ElementOfSeq
    <3> QED BY <3>2, <3>3 DEF Typed
  <2>3. set' \subseteq set /\ \A b \in set \ set' : b \in failed
    BY <1>5, <2>2 DEF HandleException, Told
  <2>4. \A n \in Tree \cap fresh : n \in fresh' \cup refused
    BY <1>5, <2>2 DEF HandleException, Told, Tree
  <2>5. \A b : b \in Unvisited => b \in Unvisited' \/ b \in failed
    BY <2>1, <2>3 DEF Unvisited
  <2> QED BY <2>1, <2>3, <2>4, <2>5 DEF Onward, Sought, Leads, Saves
<1> QED BY <1>1, <1>2, <1>3, <1>4, <1>5 DEF Main

\* A worker that goes on leads on, unless its node failed or was refused.
LEMMA WorkerOnward ==
    ASSUME Typed, NEW w \in Slots, Worker(w),
           ~ CollectNodes(w), ~ SearchPage(w), ~ TooLate(w)
    PROVE  Onward
<1> DEFINE n == worker[w].node
<1>1. worker[w] \in Jobs /\ worker[w] # Idle /\ worker[w] = AtWork(n, worker[w].pc) /\ worker \in [Slots -> Jobs]
  BY WorkerTyped, JobIs DEF Typed
<1>2. ASSUME NEW pc, Goto(w, pc), pc # "idle" PROVE worker' = [worker EXCEPT ![w] = AtWork(n, pc)]
  BY <1>1, <1>2, WorkerGoesOn
<1>9. \A b, m : /\ ~ Sees(Idle, b) /\ ~ Sees(AtWork(m, "exit"), b) /\ ~ Sees(AtWork(m, "save"), b)
                /\ Sees(AtWork(m, "fetch"), b) <=> m = b
                /\ Sees(AtWork(m, "collect"), b) <=> m = b
                /\ \A pc : AtWork(m, pc) = AtWork(b, "save") <=> m = b /\ pc = "save"
  BY DEF Sees, AtWork, Idle
<1>3. CASE NoParentFound(w)
  <2>1. /\ worker' = [worker EXCEPT ![w] = AtWork(n, "exit")] /\ worker[w] = AtWork(n, "fetch")
        /\ UNCHANGED <<mode, again, list, c, fresh, failed, found>> /\ set \ {n} \subseteq set' /\ set' \subseteq set
        /\ n \in Gone \cup refused' /\ refused \subseteq refused'
    BY <1>2, <1>3, WorkerIsAt DEF NoParentFound
  <2>2. \A b \in Tree : b \in Unvisited => b \in Unvisited' \/ b \in refused'
    BY <2>1 DEF Unvisited, Tree
  <2>3. \A b \in Tree : /\ Leads(b) => Leads(b)' \/ b \in refused'
                        /\ Saves(b) => Saves(b)'
    <3>1. \A b : /\ Leads(b) => b \in Unvisited \/ Leads(b)' \/ Sees(AtWork(n, "fetch"), b)
                 /\ b \in Unvisited' => Leads(b)'
                 /\ Saves(b) => Saves(b)' \/ AtWork(n, "fetch") = AtWork(b, "save")
      BY <2>1, OthersStay
    <3> QED BY <1>9, <2>1, <2>2, <3>1 DEF Tree
  <2> QED BY <2>1, <2>3 DEF Onward, Sought
<1>4. CASE WorkerFails(w) \/ NoMembers(w)
  <2>1. /\ worker' = [worker EXCEPT ![w] = AtWork(n, "exit")]
        /\ UNCHANGED <<mode, again, list, c, fresh, refused, found>> /\ set \ {n} \subseteq set' /\ set' \subseteq set
        /\ n \in failed' /\ failed \subseteq failed'
    BY <1>2, <1>4 DEF WorkerFails, NoMembers
  <2>2. \A b \in Tree : b \in Unvisited => b \in Unvisited' \/ b \in failed'
    BY <2>1 DEF Unvisited
  <2>3. \A b \in Tree : /\ Leads(b) => Leads(b)' \/ b \in failed'
                        /\ Saves(b) => Saves(b)' \/ b \in failed'
    <3>1. \A b : /\ Leads(b) => b \in Unvisited \/ Leads(b)' \/ Sees(worker[w], b)
                 /\ b \in Unvisited' => Leads(b)'
                 /\ Saves(b) => Saves(b)' \/ worker[w] = AtWork(b, "save")
      BY <2>1, OthersStay
    <3>2. \A b : Sees(worker[w], b) \/ worker[w] = AtWork(b, "save") => b = n
      BY <1>1 DEF Sees, AtWork
    <3> QED BY <2>1, <2>2, <3>1, <3>2
  <2> QED BY <2>1, <2>3 DEF Onward, Sought
<1>5. ASSUME NEW from, NEW to, worker[w] = from, worker' = [worker EXCEPT ![w] = to],
             UNCHANGED <<mode, again, set, list, c, failed, refused, found>>
      PROVE  \A b : /\ Leads(b) => Leads(b)' \/ Sees(from, b)
                    /\ Sees(to, b) => Leads(b)'
                    /\ Saves(b) => Saves(b)' \/ from = AtWork(b, "save")
  <2>1. \A b : b \in Unvisited => b \in Unvisited'
    BY <1>5 DEF Unvisited
  <2> QED BY <1>5, <2>1, OthersStay
<1>6. CASE FetchPage(w)
  <2>1. /\ worker' = [worker EXCEPT ![w] = AtWork(n, "collect")] /\ worker[w] = AtWork(n, "fetch")
        /\ UNCHANGED <<mode, again, set, list, c, fresh, failed, refused, found>>
    BY <1>2, <1>6, WorkerIsAt DEF FetchPage
  <2>2. \A b : /\ Leads(b) => Leads(b)' \/ Sees(AtWork(n, "fetch"), b)
               /\ Sees(AtWork(n, "collect"), b) => Leads(b)'
               /\ Saves(b) => Saves(b)' \/ AtWork(n, "fetch") = AtWork(b, "save")
    BY <1>5, <2>1
  <2>3. \A b : (Leads(b) => Leads(b)') /\ (Saves(b) => Saves(b)')
    BY <1>9, <2>2
  <2> QED BY <2>1, <2>3 DEF Onward, Sought
<1>7. CASE SavePage(w)
  <2>1. /\ worker' = [worker EXCEPT ![w] = AtWork(n, "exit")] /\ worker[w] = AtWork(n, "save")
        /\ UNCHANGED <<mode, again, set, list, c, failed, refused, found>>
        /\ fresh' = fresh \cup Page(n)
    BY <1>2, <1>7, WorkerIsAt DEF SavePage
  <2>2. \A b : /\ Leads(b) => Leads(b)' \/ Sees(AtWork(n, "save"), b)
               /\ Saves(b) => Saves(b)' \/ AtWork(n, "save") = AtWork(b, "save")
    BY <1>5, <2>1
  <2>3. \A b : (Leads(b) => Leads(b)') /\ (Saves(b) => Saves(b)' \/ b = n)
    BY <1>9, <2>2
  <2> QED BY <2>1, <2>3 DEF Onward, Sought
<1>8. CASE WorkerExits(w)
  <2>1. /\ worker' = [worker EXCEPT ![w] = Idle] /\ worker[w] = AtWork(n, "exit")
        /\ UNCHANGED <<mode, again, set, list, c, fresh, failed, refused, found>>
    BY <1>8, WorkerIsAt DEF WorkerExits
  <2>2. \A b : /\ Leads(b) => Leads(b)' \/ Sees(AtWork(n, "exit"), b)
               /\ Saves(b) => Saves(b)' \/ AtWork(n, "exit") = AtWork(b, "save")
    BY <1>5, <2>1
  <2>3. \A b : (Leads(b) => Leads(b)') /\ (Saves(b) => Saves(b)')
    BY <1>9, <2>2
  <2> QED BY <2>1, <2>3 DEF Onward, Sought
<1> QED BY <1>3, <1>4, <1>6, <1>7, <1>8 DEF Worker

\* A page that has been looked at: what it adds to the list and takes out of the
\* set, and who will save it, if anything on it is sought.
Looked(w, a, done) ==
    /\ a \in Tree /\ worker[w] = AtWork(a, "collect")
    /\ \E pc \in {"save", "exit"} : worker' = [worker EXCEPT ![w] = AtWork(a, pc)]
    /\ UNCHANGED <<mode, again, c, failed, refused>> /\ Sought' \subseteq Sought
    /\ Enqueue(ToEnqueue(a), done) /\ done \subseteq Page(a) \ (ToEnqueue(a) \cup OffPage(a))
    /\ \A n \in Tree \cap fresh : n \in fresh'
    /\ \A n \in Sought' \cap Page(a) : Saves(a)'

LEMMA LookedLeads ==
    ASSUME Typed, NEW w \in Slots, NEW a, NEW done, Looked(w, a, done)
    PROVE  /\ \A q \in ToEnqueue(a) \ set : Leads(q)'
           /\ \A b : Leads(b) => Leads(b)' \/ b = a \/ b \in done
           /\ \A b : Saves(b) => Saves(b)'
<1>1. /\ list \in Seq(Nodes) /\ list' \in Seq(Nodes) /\ Len(list) <= Len(list') /\ c' = c
      /\ c \in 0..Len(list)
      /\ \A i \in 1..Len(list) : list'[i] = list[i]
      /\ \A q \in ToEnqueue(a) \ set : \E i \in Len(list) + 1..Len(list') : list'[i] = q
      /\ set' = (set \ done) \cup ToEnqueue(a)
  BY EnqueueTyped DEF Looked, Typed, Enqueue
<1>2. ASSUME NEW q \in ToEnqueue(a) \ set PROVE q \in Unvisited'
  <2>1. PICK i \in Len(list) + 1..Len(list') : list'[i] = q
    BY <1>1
  <2>2. i \in c' + 1..Len(list')
    BY <1>1
  <2> QED BY <1>1, <2>1, <2>2 DEF Unvisited
<1>3. ASSUME NEW b, b \in Unvisited, b \notin done PROVE b \in Unvisited'
  <2>1. PICK i \in c + 1..Len(list) : list[i] = b /\ b \in set
    BY <1>3 DEF Unvisited
  <2>2. i \in c' + 1..Len(list') /\ list'[i] = b
    BY <1>1, <2>1
  <2> QED BY <1>1, <1>3, <2>1, <2>2 DEF Unvisited
<1>4. PICK pc \in {"save", "exit"} : worker' = [worker EXCEPT ![w] = AtWork(a, pc)]
  BY DEF Looked
<1>5. worker[w] = AtWork(a, "collect")
  BY DEF Looked
<1>6. \A b : /\ Leads(b) => b \in Unvisited \/ Leads(b)' \/ Sees(AtWork(a, "collect"), b)
             /\ b \in Unvisited' => Leads(b)'
             /\ Saves(b) => Saves(b)' \/ AtWork(a, "collect") = AtWork(b, "save")
  BY <1>4, <1>5, OthersStay
<1>7. \A b : /\ Sees(AtWork(a, "collect"), b) => b = a
             /\ AtWork(a, "collect") # AtWork(b, "save")
  BY DEF Sees, AtWork
<1> QED BY <1>2, <1>3, <1>6, <1>7

\* A page takes over what led to it: what is on it, its worker saves, and what is
\* below it is covered from a node that it adds to the list, or has found there.
LEMMA LookedKeeps ==
    ASSUME Typed, AllCovered, NEW w \in Slots, NEW a, NEW done, Looked(w, a, done)
    PROVE  AllCovered'
<1>1. /\ a \in Tree /\ UNCHANGED <<mode, again, failed, refused>>
      /\ done \subseteq Page(a) \ (ToEnqueue(a) \cup OffPage(a))
      /\ set' = (set \ done) \cup ToEnqueue(a)
      /\ \A n \in Tree \cap fresh : n \in fresh'
      /\ \A n \in Sought' \cap Page(a) : Saves(a)'
      /\ Sought' \subseteq Sought /\ Sought \subseteq Tree
  BY SoughtInTree DEF Looked, Enqueue
<1> SUFFICES ASSUME ~again' /\ (mode' = "crawl" => RootIsAsked),
                    NEW n \in Sought', NEW p \in (set' \cap Tree) \cup {Top}, p \in AncestorsOrSelf(n)
             PROVE  Covered(p, n)'
  BY DEF AllCovered
<1>2. n \in Tree /\ n \in Sought /\ AncestorsOrSelf(n) \subseteq Tree
  BY <1>1, AncestorsClosed
<1>3. \A q \in (set \cap Tree) \cup {Top} : q \in AncestorsOrSelf(n) => Covered(q, n)
  BY <1>1, <1>2 DEF AllCovered
<1>4. /\ \A q \in ToEnqueue(a) \ set : Leads(q)'
      /\ \A b : Leads(b) => Leads(b)' \/ b = a \/ b \in done
      /\ \A b : Saves(b) => Saves(b)'
  BY LookedLeads
<1>5. ASSUME a \in AncestorsOrSelf(n), n \in Page(a) PROVE Covered(p, n)'
  BY <1>1, <1>5 DEF Covered, Covers
\* What was covered and did not lead through this page, or what the page discards.
<1>6. ASSUME NEW q, Covered(q, n),
             \A b \in AncestorsOrSelf(n) : q \in AncestorsOrSelf(b) /\ Leads(b)
                 => Covered(p, n)' \/ (p \in AncestorsOrSelf(b) /\ Leads(b)')
      PROVE  Covered(p, n)'
  <2>1. CASE n \in fresh
    BY <1>1, <1>2, <2>1 DEF Covered
  <2>2. CASE \E b \in AncestorsOrSelf(n) : Covers(b, q, n)
    BY <1>1, <1>4, <1>6, <2>2 DEF Covered, Covers
  <2> QED BY <1>6, <2>1, <2>2 DEF Covered
\* From a node that the page adds.
<1>7. ASSUME NEW q \in ToEnqueue(a), p \in AncestorsOrSelf(q), q \in AncestorsOrSelf(n)
      PROVE  Covered(p, n)'
  <2>1. q \in Tree /\ a \in AncestorsOrSelf(q) /\ q # a
    BY <1>1, EnqueuedIsDeep
  <2>2. CASE q \notin set
    BY <1>4, <1>7, <2>2 DEF Covered, Covers
  <2>3. CASE q \in set
    <3>1. Covered(q, n)
      BY <1>3, <1>7, <2>1, <2>3
    <3>2. ASSUME NEW b \in AncestorsOrSelf(n), q \in AncestorsOrSelf(b), Leads(b)
          PROVE  Covered(p, n)' \/ (p \in AncestorsOrSelf(b) /\ Leads(b)')
      <4>1. b \in Tree /\ p \in AncestorsOrSelf(b)
        BY <1>2, <1>7, <3>2, AncestorsGrow
      <4>2. b # a
        BY <1>1, <2>1, <3>2, DeeperBelow
      <4>3. CASE b \in done
        <5>1. b \in Page(a) \ OffPage(a) /\ q # b /\ a \in AncestorsOrSelf(b)
          BY <1>1, <1>7, <4>3, OnPage
        <5>2. n = b
          BY <1>1, <1>2, <1>7, <3>2, <4>1, <5>1, DiscardedIsLast, LastHasNoneBelow
        <5> QED BY <1>5, <5>1, <5>2
      <4> QED BY <1>4, <3>2, <4>1, <4>2, <4>3
    <3> QED BY <1>6, <3>1, <3>2
  <2> QED BY <2>2, <2>3
<1>8. CASE p \in ToEnqueue(a)
  BY <1>2, <1>7, <1>8, AncestorsClosed
<1>9. CASE p \in (set \cap Tree) \cup {Top}
  <2>1. Covered(p, n)
    BY <1>3, <1>9
  <2>2. ASSUME NEW b \in AncestorsOrSelf(n), p \in AncestorsOrSelf(b), Leads(b)
        PROVE  Covered(p, n)' \/ (p \in AncestorsOrSelf(b) /\ Leads(b)')
    <3> SUFFICES ASSUME b = a \/ b \in done PROVE Covered(p, n)'
      BY <1>4, <2>2
    <3>1. b \in Tree /\ b \in Page(a) \ ToEnqueue(a) /\ a \in AncestorsOrSelf(b)
      BY <1>1, <1>2, OnPage, EnqueuedIsDeep
    <3>2. a \in AncestorsOrSelf(n)
      BY <1>2, <3>1, AncestorsGrow
    <3>3. ASSUME n \notin Page(a) PROVE Covered(p, n)'
      <4>1. PICK q \in ToEnqueue(a) : q \in AncestorsOrSelf(n)
        BY <1>1, <1>2, <3>2, <3>3, BelowPage
      <4>2. q \in Tree /\ a \in AncestorsOrSelf(q) /\ q # a /\ q # b
        BY <1>1, <3>1, EnqueuedIsDeep
      <4>3. CASE b \in AncestorsOrSelf(q)
        BY <1>7, <2>2, <4>1, <4>2, <4>3, AncestorsGrow
      <4>4. CASE q \in AncestorsOrSelf(b)
        <5>1. b # a
          BY <1>1, <4>2, <4>4, DeeperBelow
        <5>2. b \in Page(a) \ OffPage(a)
          BY <1>1, <5>1
        <5>3. n = b
          BY <1>1, <1>2, <3>1, <4>2, <4>4, <5>2, DiscardedIsLast, LastHasNoneBelow
        <5> QED BY <3>1, <3>3, <5>3
      <4> QED BY <1>2, <4>1, <4>3, <4>4, AncestorsInLine
    <3> QED BY <1>5, <3>2, <3>3
  <2> QED BY <1>6, <2>1, <2>2
<1> QED BY <1>1, <1>8, <1>9

\* A build looks at a page, and saves it next.
LEMMA CollectLooks ==
    ASSUME Typed, NEW w \in Slots, CollectNodes(w)
    PROVE  \E a, done : Looked(w, a, done)
<1> PICK n : n = worker[w].node
  OBVIOUS
<1>1. n \in Tree /\ worker[w] = AtWork(n, "collect") /\ worker[w] # Idle
  BY WorkerIsAt DEF CollectNodes
<1>2. worker' = [worker EXCEPT ![w] = AtWork(n, "save")]
  BY <1>1, WorkerGoesOn DEF CollectNodes
<1>3. Saves(n)'
  <2>1. worker'[w] = AtWork(n, "save")
    BY <1>2 DEF Typed
  <2> QED BY <2>1 DEF Saves
<1>4. \A m \in Tree \cap fresh : m \in fresh'
  BY TreeCrawlerAssumption DEF CollectNodes, save_root_node, Replaced, Tree
<1>5. ToDiscard(n) \subseteq Page(n) \ (ToEnqueue(n) \cup OffPage(n))
  BY DEF ToDiscard
<1>6. /\ UNCHANGED <<mode, again, c, failed, refused>> /\ Sought' = Sought
      /\ Enqueue(ToEnqueue(n), ToDiscard(n))
  BY DEF CollectNodes, Sought
<1>7. \E pc \in {"save", "exit"} : worker' = [worker EXCEPT ![w] = AtWork(n, pc)]
  BY <1>2
<1>8. Looked(w, n, ToDiscard(n))
  BY <1>1, <1>3, <1>4, <1>5, <1>6, <1>7 DEF Looked
<1> QED BY <1>8

\* A search looks at a page that does not show the target.
LEMMA SearchLooks ==
    ASSUME Typed, Searching, NEW w \in Slots, SearchPage(w),
           found = None, Target \notin Page(worker[w].node) \ {worker[w].node}
    PROVE  \E a, done : Looked(w, a, done)
<1> PICK n : n = worker[w].node
  OBVIOUS
<1> DEFINE done == IF Children(n) = {} THEN {n} ELSE ToDiscard(n)
<1>1. n \in Tree /\ worker[w] = AtWork(n, "collect") /\ worker[w] # Idle
  BY WorkerIsAt DEF SearchPage
<1>2. worker' = [worker EXCEPT ![w] = AtWork(n, "exit")]
  BY <1>1, WorkerGoesOn DEF SearchPage
<1>3. /\ UNCHANGED <<mode, again, c, fresh, failed, refused, found>>
      /\ Enqueue(ToEnqueue(n), done) /\ mode = "find"
  BY DEF SearchPage
<1>4. Sought' = Sought /\ Sought \cap Page(n) = {}
  BY <1>3 DEF Sought, Searching
<1>5. done \subseteq Page(n) \ (ToEnqueue(n) \cup OffPage(n))
  <2>1. CASE Children(n) = {}
    BY <1>1, <2>1, OnPage, EnqueuedIsDeep DEF OffPage
  <2>2. CASE Children(n) # {}
    BY <2>2 DEF ToDiscard
  <2> QED BY <2>1, <2>2
<1> HIDE DEF done
<1>6. \E pc \in {"save", "exit"} : worker' = [worker EXCEPT ![w] = AtWork(n, pc)]
  BY <1>2
<1>7. Looked(w, n, done)
  BY <1>1, <1>3, <1>4, <1>5, <1>6 DEF Looked
<1> QED BY <1>7

\* Every step keeps the tree covered.
LEMMA CoverKeeps ==
    ASSUME Typed, Searching, AllCovered, Next
    PROVE  AllCovered'
<1>1. CASE Main
  BY <1>1, MainOnward, OnwardKeeps DEF AllCovered
<1>2. ASSUME mode' = "find", found' # None PROVE AllCovered'
  BY <1>2 DEF AllCovered, Sought
<1>3. ASSUME NEW w \in Slots, Worker(w) PROVE AllCovered'
  <2> DEFINE n == worker[w].node
  <2>1. CASE CollectNodes(w)
    BY <2>1, CollectLooks, LookedKeeps
  <2>2. CASE TooLate(w)
    BY <1>2, <2>2 DEF TooLate
  <2>3. CASE SearchPage(w)
    <3>1. CASE Target \in Page(n) \ {n}
      <4>1. mode' = "find" /\ found' = IF found = None THEN Parent[Target] ELSE found
        BY <2>3, <3>1 DEF SearchPage
      <4>2. n \in Tree
        BY <2>3, WorkerIsAt DEF SearchPage
      <4>3. Parent[Target] \in Nodes /\ None \notin Nodes
        BY <3>1, <4>2, TargetOnPage, NodeAssumption
      <4> QED BY <1>2, <4>1, <4>3
    <3>2. CASE Target \notin Page(n) \ {n} /\ found # None
      BY <1>2, <2>3, <3>2 DEF SearchPage
    <3>3. CASE Target \notin Page(n) \ {n} /\ found = None
      BY <2>3, <3>3, SearchLooks, LookedKeeps
    <3> QED BY <3>1, <3>2, <3>3
  <2>4. CASE ~ CollectNodes(w) /\ ~ SearchPage(w) /\ ~ TooLate(w)
    BY <1>3, <2>4, WorkerOnward, OnwardKeeps
  <2> QED BY <2>1, <2>2, <2>3, <2>4
<1>4. CASE Done
  <2>1. UNCHANGED <<mode, again, set, list, c, worker, fresh, failed, refused, found>>
    BY <1>4 DEF Done, vars
  <2>2. Onward
    BY <2>1 DEF Onward, Sought, Leads, Saves, Unvisited
  <2> QED BY <2>2, OnwardKeeps
<1> QED BY <1>1, <1>3, <1>4 DEF Next

LEMMA InitInv == Init => IInv
<1> SUFFICES ASSUME Init PROVE IInv
  OBVIOUS
<1>1. Typed
  BY InitTyped
<1>2. Running = {}
  BY DEF Init, Running
<1>3. Counted
  BY <1>2, FS_EmptySet, TreeCrawlerAssumption DEF Init, Counted
<1>4. mode = "find" => list = <<Top>> /\ nodes_limit = 0
  BY DEF Init, build_network, find_parent
<1>5. Searching
  <2>1. Target # None
    BY TreeCrawlerAssumption, NodeAssumption
  <2>2. \A w \in Slots : worker[w].pc # "save" /\ worker[w].node = None
    BY DEF Init, Idle
  <2>3. mode = "find" => \A i \in 1..Len(list) : list[i] = Top
    BY <1>4
  <2> QED BY <1>2, <1>4, <2>1, <2>2, <2>3 DEF Init, Searching
<1>6. ASSUME mode = "crawl" => RootIsAsked PROVE Top \in Unvisited
  <2>1. \E i \in 1..Len(list) : list[i] = Top
    <3>1. CASE mode = "crawl"
      <4>1. list = FirstOf(InDB) /\ InDB \in SUBSET Nodes
        BY <3>1, TreeCrawlerAssumption DEF Init, build_network, find_parent
      <4> QED BY <1>6, <3>1, <4>1, FirstOfIs DEF RootIsAsked
    <3>2. CASE mode # "crawl"
      BY <1>1, <1>4, <3>2 DEF Typed
    <3> QED BY <3>1, <3>2
  <2>2. c = 0 /\ set = Range(list) /\ list \in Seq(Nodes)
    BY <1>1 DEF Init, Typed
  <2> QED BY <2>1, <2>2 DEF Unvisited, Range
<1>7. AllCovered
  <2> SUFFICES ASSUME mode = "crawl" => RootIsAsked,
                      NEW n \in Sought, NEW p \in (set \cap Tree) \cup {Top}, p \in AncestorsOrSelf(n)
               PROVE  Covered(p, n)
    BY DEF AllCovered
  <2>1. n \in Tree /\ Top \in AncestorsOrSelf(n)
    BY SoughtInTree, TopAboveAll
  <2>2. CASE p = Top
    BY <1>6, <2>1, <2>2, AncestorsOfTop DEF Covered, Covers, Leads
  <2>3. CASE p \in set \cap Tree
    <3>1. p \in Unvisited
      <4>1. c = 0 /\ set = Range(list) /\ list \in Seq(Nodes)
        BY <1>1 DEF Init, Typed
      <4> QED BY <2>3, <4>1 DEF Unvisited, Range
    <3>2. p \in AncestorsOrSelf(p)
      BY <2>3, AncestorsClosed
    <3> QED BY <3>1, <3>2 DEF Covered, Covers, Leads
  <2> QED BY <2>2, <2>3
<1> QED BY <1>1, <1>3, <1>5, <1>7 DEF IInv

LEMMA StepInv == IInv /\ [Next]_vars => IInv'
<1> SUFFICES ASSUME IInv, [Next]_vars PROVE IInv'
  OBVIOUS
<1>1. CASE Next
  <2>1. Typed'
    BY <1>1, MainTyped, WorkerKeepsTyped DEF IInv, Next, Done, vars, Typed
  <2>2. Searching'
    BY <1>1, SearchKeepsMain, SearchKeepsWorker DEF IInv, Next, Done, vars, Searching, Running
  <2> QED BY <1>1, <2>1, <2>2, CountKeeps, CoverKeeps DEF IInv
<1>2. CASE UNCHANGED vars
  BY <1>2 DEF vars, IInv, Typed, Counted, Searching, AllCovered, Running, Sought, Covered, Covers,
     Leads, Saves, Unvisited
<1> QED BY <1>1, <1>2

\* What the threads share holds together, and the tree is covered, in every state.
THEOREM CrawlInvariant == Spec => []IInv
BY InitInv, StepInv, PTL DEF Spec

-----------------------------------------------------------------------------
(* What follows.                                                             *)

\* "Maximum number of concurrent worker threads" (build_network): however many are
\* asked for and however often that is lowered, whatever is looked up or fails, no
\* more of them run, as long as the count is the count of this crawl.
THEOREM CrawlLimited == Spec => []LimitedWhileCounted
<1>1. IInv => LimitedWhileCounted
  BY DEF IInv, Counted, LimitedWhileCounted, AtMostMaxThreads
<1> QED BY <1>1, CrawlInvariant, PTL

\* Nothing leads on from a node once the workers are gone but the entries of the list.
LEMMA CoveredAtTheEnd ==
    ASSUME Running = {}, NEW n \in Tree, Covered(Top, n)
    PROVE  n \in fresh \/ AncestorsOrSelf(n) \cap (failed \cup refused \cup Unvisited) # {}
<1>1. \A w \in Slots : \A b : ~ Sees(worker[w], b) /\ worker[w] # AtWork(b, "save")
  BY DEF Running, Sees, AtWork, Idle
<1> QED BY <1>1 DEF Covered, Covers, Leads, Saves

\* A build that has no limit and begins with the root updates every node of every
\* tree, whatever the order in which the pages come, but those below a page that
\* failed, was refused or was left behind on the list.
THEOREM CrawlLosesNothing == ASSUME RootIsAsked PROVE Spec => []NothingLost
<1>1. IInv => NothingLost
  <2> SUFFICES ASSUME IInv, main = "crawled", nodes_limit = 0, ~again, NEW n \in Tree
               PROVE  n \in fresh
                      \/ AncestorsOrSelf(n) \cap (failed \cup refused \cup Unvisited) # {}
    BY DEF NothingLost
  <2>1. Running = {} /\ mode = "crawl"
    BY DEF IInv, Counted, Searching, Typed
  <2>2. Covered(Top, n)
    BY <2>1, TopAboveAll DEF IInv, AllCovered, Sought
  <2> QED BY <2>1, <2>2, CoveredAtTheEnd
<1> QED BY <1>1, CrawlInvariant, PTL

\* Whichever worker sees the target first, the parent found is the parent; and a
\* search of any tree that ends without one has missed a page above the target.
THEOREM SearchFinds == Spec => []FoundIsParent
<1>1. IInv => FoundIsParent
  <2> SUFFICES ASSUME IInv PROVE FoundIsParent
    OBVIOUS
  <2>1. ASSUME found # None PROVE Target \in Tree \ {Top} /\ found = Parent[Target]
    BY <2>1 DEF IInv, Searching
  <2>2. ASSUME main = "finished", mode = "find", found = None, Target \in Tree \ {Top}
        PROVE  AncestorsOrSelf(Target) \cap (failed \cup refused \cup Unvisited) # {}
    <3>1. Running = {} /\ fresh = {} /\ Target \in Sought
      BY <2>2 DEF IInv, Searching, Sought
    <3>2. Covered(Top, Target)
      <4>1. ~again /\ mode # "crawl" /\ Top \in AncestorsOrSelf(Target)
        BY <2>2, TopAboveAll DEF IInv, Searching
      <4> QED BY <3>1, <4>1 DEF IInv, AllCovered
    <3> QED BY <2>2, <3>1, <3>2, CoveredAtTheEnd
  <2> QED BY <2>1, <2>2 DEF FoundIsParent
<1> QED BY <1>1, CrawlInvariant, PTL
=============================================================================
