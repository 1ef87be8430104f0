----------------------------- MODULE LinkGraph ------------------------------
(***************************************************************************)
(* The explorer's link graph (build_graph and structural_metrics in        *)
(* src/src/explorer/graph.rs): nodes and links from the page files,        *)
(* betweenness (Brandes) and articulation points (Tarjan, with a stack of  *)
(* its own instead of recursion).                                          *)
(*                                                                         *)
(* One action per turn of a loop.  Shares of shortest paths are floating   *)
(* point numbers in the code; here they are whole multiples of 1/Scale.    *)
(***************************************************************************)
EXTENDS PageLinks, Integers, Sequences, SequencesExt, FiniteSetsExt

CONSTANTS
    Wikis,      \* bound: the wikis looked at
    RawFile,    \* the raw ids that resolve to a file under ./raw/
    ExactMax,   \* BETWEENNESS_EXACT_MAX
    Pivots,     \* BETWEENNESS_PIVOTS
    Scale       \* a multiple of every number of shortest paths (ScaleAssumption)

ASSUME GraphAssumption ==
    /\ ExactMax \in Nat /\ Pivots \in Nat \ {0} /\ Scale \in Nat \ {0}
    /\ \A w \in Wikis : w \in [File -> Page \cup {NoFile}] /\ IsFiniteSet(NodeIds(w))

VARIABLES
    pages,          \* the page files
    n,              \* how many nodes they make
    links,          \* <<source, target, kind>>, nodes by their position
    pc,             \* the loop that is running
    s,              \* Brandes: the source it starts from,
    dist, sigma,    \*   distance from it, and shortest paths from it,
    preds,          \*   the predecessors on those,
    queue, order,   \*   what is to be visited, and was, in this order;
    delta,          \*   the dependency of the source on every node,
    betweenness,    \*   summed over the sources,
    top,            \*   and the largest sum, which all are divided by
    root,           \* Tarjan: where this tree started,
    disc, low,      \*   when a node was found, and what it reaches back to,
    time,
    stack,          \*   the path from the root, the next neighbour for each,
    children,       \*   the root's children in the tree
    articulation

graph == <<pages, n, links, top>>
brandes == <<s, dist, sigma, preds, queue, order, delta, betweenness>>
tarjan == <<root, disc, low, time, stack, children, articulation>>
graphVars == <<graph, pc, brandes, tarjan>>

-----------------------------------------------------------------------------
(***************************************************************************)
(* The nodes are numbered in the order of their ids.                       *)
(***************************************************************************)
Position(ids, id) == Cardinality({i \in ids : i <= id})

Numbered(ids, l) == <<Position(ids, l[1]), Position(ids, l[2]), l[3]>>

LinksOf(wiki) == {Numbered(NodeIds(wiki), l) : l \in GraphLinks(wiki)}

Node == 1..n
Unseen == n     \* usize::MAX: no distance and no time gets this far

(***************************************************************************)
(* Undirected, no loops, every neighbour once, in order.                   *)
(***************************************************************************)
Undirected(nodes, ends, v) == {w \in nodes \ {v} : \E l \in ends : {l[1], l[2]} = {v, w}}

Neighbours(v) == Undirected(Node, links, v)

Ascending(nodes) ==
    [k \in 1..Cardinality(nodes) |-> CHOOSE w \in nodes : Position(nodes, w) = k]

Adjacency(v) == Ascending(Neighbours(v))

Stride == IF n <= ExactMax THEN 1
          ELSE Max({1, (n + Pivots - 1) \div Pivots})

GraphInit == /\ pages \in Wikis
             /\ n = Cardinality(NodeIds(pages))
             /\ links = LinksOf(pages)
             /\ pc = "source" /\ s = 1
             /\ dist = [v \in Node |-> Unseen]
             /\ sigma = [v \in Node |-> 0]
             /\ preds = [v \in Node |-> {}]
             /\ queue = <<>> /\ order = <<>>
             /\ delta = [v \in Node |-> 0]
             /\ betweenness = [v \in Node |-> 0]
             /\ top = 0
             /\ root = 1
             /\ disc = [v \in Node |-> Unseen]
             /\ low = [v \in Node |-> 0]
             /\ time = 0
             /\ stack = <<>>
             /\ children = 0
             /\ articulation = [v \in Node |-> FALSE]

-----------------------------------------------------------------------------
StartSource ==
    /\ pc = "source" /\ s <= n
    /\ dist' = [v \in Node |-> IF v = s THEN 0 ELSE Unseen]
    /\ sigma' = [v \in Node |-> IF v = s THEN 1 ELSE 0]
    /\ preds' = [v \in Node |-> {}]
    /\ delta' = [v \in Node |-> 0]
    /\ queue' = <<s>> /\ order' = <<>>
    /\ pc' = "visit"
    /\ UNCHANGED <<graph, s, betweenness, tarjan>>

\* Wrong on purpose: only the path a node was found by counts.
VisitFirstPathOnly ==
    /\ pc = "visit" /\ queue # <<>>
    /\ LET v     == Head(queue)
           Found == {w \in Neighbours(v) : dist[w] = Unseen}
       IN  /\ dist' = [w \in Node |-> IF w \in Found THEN dist[v] + 1 ELSE dist[w]]
           /\ sigma' = [w \in Node |-> IF w \in Found THEN sigma[w] + sigma[v] ELSE sigma[w]]
           /\ preds' = [w \in Node |-> IF w \in Found THEN preds[w] \cup {v} ELSE preds[w]]
           /\ queue' = Tail(queue) \o Ascending(Found)
           /\ order' = Append(order, v)
    /\ UNCHANGED <<graph, pc, s, delta, betweenness, tarjan>>

(***************************************************************************)
(* The next node of the queue and all its neighbours.                      *)
(***************************************************************************)
Visit ==
    /\ pc = "visit" /\ queue # <<>>
    /\ LET v     == Head(queue)
           Found == {w \in Neighbours(v) : dist[w] = Unseen}
           Below == {w \in Neighbours(v) : w \in Found \/ dist[w] = dist[v] + 1}
       IN  /\ dist' = [w \in Node |-> IF w \in Found THEN dist[v] + 1 ELSE dist[w]]
           /\ sigma' = [w \in Node |-> IF w \in Below THEN sigma[w] + sigma[v] ELSE sigma[w]]
           /\ preds' = [w \in Node |-> IF w \in Below THEN preds[w] \cup {v} ELSE preds[w]]
           /\ queue' = Tail(queue) \o Ascending(Found)
           /\ order' = Append(order, v)
    /\ UNCHANGED <<graph, pc, s, delta, betweenness, tarjan>>

VisitedAll ==
    /\ pc = "visit" /\ queue = <<>>
    /\ pc' = "back"
    /\ UNCHANGED <<graph, brandes, tarjan>>

(***************************************************************************)
(* Farthest first, every node hands its predecessors their shares.         *)
(***************************************************************************)
Back ==
    /\ pc = "back" /\ order # <<>>
    /\ LET w == Last(order)
       IN  /\ delta' = [v \in Node |-> IF v \in preds[w]
                                       THEN delta[v] + (sigma[v] * (Scale + delta[w])) \div sigma[w]
                                       ELSE delta[v]]
           /\ betweenness' = IF w = s THEN betweenness
                             ELSE [betweenness EXCEPT ![w] = @ + delta[w]]
    /\ order' = Front(order)
    /\ UNCHANGED <<graph, pc, s, dist, sigma, preds, queue, tarjan>>

NextSource ==
    /\ pc = "back" /\ order = <<>>
    /\ s' = s + Stride
    /\ pc' = "source"
    /\ UNCHANGED <<graph, dist, sigma, preds, queue, order, delta, betweenness, tarjan>>

Normalise ==
    /\ pc = "source" /\ s > n
    /\ top' = Max({0} \cup {betweenness[v] : v \in Node})
    /\ pc' = "root"
    /\ UNCHANGED <<pages, n, links, brandes, tarjan>>

-----------------------------------------------------------------------------
Discover(w) == /\ disc' = [disc EXCEPT ![w] = time]
               /\ time' = time + 1

Frame(w, parent) == [node |-> w, parent |-> parent, next |-> 1]

StartRoot ==
    /\ pc = "root" /\ root <= n /\ disc[root] = Unseen
    /\ Discover(root)
    /\ low' = [low EXCEPT ![root] = time]
    /\ stack' = <<Frame(root, 0)>>
    /\ children' = 0
    /\ pc' = "tree"
    /\ UNCHANGED <<graph, brandes, root, articulation>>

SkipRoot ==
    /\ pc = "root" /\ root <= n /\ disc[root] # Unseen
    /\ root' = root + 1
    /\ UNCHANGED <<graph, pc, brandes, disc, low, time, stack, children, articulation>>

Top == Last(stack)

\* The stack with its top frame at the next neighbour.
Advanced == [stack EXCEPT ![Len(stack)].next = @ + 1]

HasNext == stack # <<>> /\ Top.next <= Len(Adjacency(Top.node))

Neighbour == Adjacency(Top.node)[Top.next]

Descend ==
    /\ pc = "tree" /\ HasNext /\ disc[Neighbour] = Unseen
    /\ Discover(Neighbour)
    /\ low' = [low EXCEPT ![Neighbour] = time]
    /\ stack' = Append(Advanced, Frame(Neighbour, Top.node))
    /\ UNCHANGED <<graph, pc, brandes, root, children, articulation>>

(***************************************************************************)
(* The neighbour was found before: a link back, unless it is the link the  *)
(* node was found by.                                                      *)
(***************************************************************************)
LookBack ==
    /\ pc = "tree" /\ HasNext /\ disc[Neighbour] # Unseen
    /\ low' = IF Neighbour = Top.parent THEN low
              ELSE [low EXCEPT ![Top.node] = Min({@, disc[Neighbour]})]
    /\ stack' = Advanced
    /\ UNCHANGED <<graph, pc, brandes, root, disc, time, children, articulation>>

\* Wrong on purpose: a child that reaches its parent but not beyond is missed.
ReturnStrict ==
    /\ pc = "tree" /\ stack # <<>> /\ ~ HasNext
    /\ stack' = Front(stack)
    /\ LET v == Top.node
           p == Top.parent
       IN  IF p = 0 THEN UNCHANGED <<low, children, articulation>>
           ELSE /\ low' = [low EXCEPT ![p] = Min({@, low[v]})]
                /\ children' = IF p = root THEN children + 1 ELSE children
                /\ articulation' = IF p # root /\ low[v] > disc[p]
                                   THEN [articulation EXCEPT ![p] = TRUE] ELSE articulation
    /\ UNCHANGED <<graph, pc, brandes, root, disc, time>>

(***************************************************************************)
(* The top has no more neighbours: its parent takes over what it reaches.  *)
(***************************************************************************)
Return ==
    /\ pc = "tree" /\ stack # <<>> /\ ~ HasNext
    /\ stack' = Front(stack)
    /\ LET v == Top.node
           p == Top.parent
       IN  IF p = 0 THEN UNCHANGED <<low, children, articulation>>
           ELSE /\ low' = [low EXCEPT ![p] = Min({@, low[v]})]
                /\ children' = IF p = root THEN children + 1 ELSE children
                /\ articulation' = IF p # root /\ low[v] >= disc[p]
                                   THEN [articulation EXCEPT ![p] = TRUE] ELSE articulation
    /\ UNCHANGED <<graph, pc, brandes, root, disc, time>>

EndRoot ==
    /\ pc = "tree" /\ stack = <<>>
    /\ articulation' = [articulation EXCEPT ![root] = children > 1]
    /\ root' = root + 1
    /\ pc' = "root"
    /\ UNCHANGED <<graph, brandes, disc, low, time, stack, children>>

Finish ==
    /\ pc = "root" /\ root > n
    /\ pc' = "done"
    /\ UNCHANGED <<graph, brandes, tarjan>>

GraphNext == \/ StartSource \/ Visit \/ VisitedAll \/ Back \/ NextSource \/ Normalise
             \/ StartRoot \/ SkipRoot \/ Descend \/ LookBack \/ Return \/ EndRoot \/ Finish

GraphSpec == GraphInit /\ [][GraphNext]_graphVars
=============================================================================
