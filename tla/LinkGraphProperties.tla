------------------------ MODULE LinkGraphProperties -------------------------
(***************************************************************************)
(* What the measures mean, said without the algorithms.                    *)
(***************************************************************************)
EXTENDS LinkGraph

(***************************************************************************)
(* The definitions, for the nodes 1..m and the neighbours N.  The walks of *)
(* k links from a, by where they end: the shortest there are to b are the  *)
(* shortest paths to b.                                                    *)
(***************************************************************************)
Walks(m, N, a) ==
    LET walks[k \in 0..m] ==
          [b \in 1..m |-> IF k = 0 THEN (IF a = b THEN 1 ELSE 0)
                          ELSE MapThenSumSet(LAMBDA c : walks[k - 1][c], N[b])]
    IN  walks

\* For every node the distance and the number of shortest paths from a; m and 0 if none.
Shortest(m, N, a) ==
    LET walks == Walks(m, N, a)
    IN  [b \in 1..m |->
           IF \A k \in 0..(m - 1) : walks[k][b] = 0 THEN [far |-> m, paths |-> 0]
           ELSE LET k == CHOOSE k \in 0..(m - 1) :
                             walks[k][b] # 0 /\ \A j \in 0..(k - 1) : walks[j][b] = 0
                IN  [far |-> k, paths |-> walks[k][b]]]

\* No share of a path is rounded.
ScaleFits(m, N) ==
    \A a \in 1..m : LET sp == Shortest(m, N, a)
                   IN  \A b \in 1..m : sp[b].paths # 0 => Scale % sp[b].paths = 0

ASSUME ScaleAssumption ==
    \A w \in Wikis : LET m == Cardinality(NodeIds(w))
                        ends == LinksOf(w)
                    IN  ScaleFits(m, [v \in 1..m |-> Undirected(1..m, ends, v)])

Near == [v \in Node |-> Neighbours(v)]

Sources == {a \in Node : (a - 1) % Stride = 0}

\* The share of the shortest paths from a to b that run through v, times Scale.
Through(sp, v, a, b) ==
    IF sp[a][b].far < n /\ sp[a][v].far + sp[v][b].far = sp[a][b].far
    THEN (Scale * sp[a][v].paths * sp[v][b].paths) \div sp[a][b].paths
    ELSE 0

(***************************************************************************)
(* "How many shortest paths between other nodes run through this one":     *)
(* the sum over all pairs (from the pivots, above ExactMax), relative to   *)
(* the largest of these sums.                                              *)
(***************************************************************************)
BetweennessIsExact ==
    pc = "done" =>
        LET sp == [a \in Node |-> Shortest(n, Near, a)]
            sum == [v \in Node |->
                      MapThenSumSet(LAMBDA ab : Through(sp, v, ab[1], ab[2]),
                                    (Sources \ {v}) \X (Node \ {v}))]
        IN  betweenness = sum /\ top = Max({0} \cup {sum[v] : v \in Node})

\* The nodes that can be reached from a without going through those in cut: those
\* in every set that a is in and that no link leads out of, but to cut.
Reach(a, cut) ==
    {b \in Node : \A S \in SUBSET Node :
                     a \in S /\ (\A w \in S : Neighbours(w) \ cut \subseteq S) => b \in S}

(***************************************************************************)
(* "Removing this node alone disconnects its component": two of its        *)
(* neighbours cannot reach each other without it.                          *)
(***************************************************************************)
ArticulationIsCut ==
    pc = "done" =>
        \A v \in Node :
            articulation[v] <=> \E a, b \in Neighbours(v) : b \notin Reach(a, {v})

-----------------------------------------------------------------------------
(***************************************************************************)
(* The two readers agree on what is missing: the pages lint says links     *)
(* lead to in vain are those the graph draws dim, the sources it misses    *)
(* are those the graph has no raw file for, and a page is reported as an   *)
(* orphan exactly if no other page's link into it is drawn.  Except: only  *)
(* the graph follows a link with an anchor to its page, and only lint      *)
(* counts a link of a page to itself.  So a vault lint calls clean, strict *)
(* or not, is drawn with nothing missing; strict, no page stands alone.    *)
(***************************************************************************)
AnchoredInto(link) == link.anchored /\ link.id \in ExistingSlugs(pages)

ReadDifferently(slug) ==
    \E f \in Files(pages) : \E l \in pages[f].wikilinks :
        l.id = slug /\ (l.anchored \/ SlugOf[f] = slug)

LintAgreesWithGraph ==
    pc = "done" /\ CanLint(pages) =>
        /\ {b[2].id : b \in {k \in BrokenLinks(pages) : ~AnchoredInto(k[2])}} = MissingNodes(pages)
        /\ {m[2] : m \in MissingSources(pages, RawFile)}
             = CitedRaws(pages) \ RawFile
        /\ \A strict \in BOOLEAN :
              IsClean(pages, RawFile, strict) =>
                  /\ MissingNodes(pages) = {} /\ CitedRaws(pages) \subseteq RawFile
                  /\ strict => \A f \in Files(pages) :
                        \/ ReadDifferently(SlugOf[f]) \/ ExemptFromOrphanCheck(KindOf[f])
                        \/ \E l \in GraphLinks(pages) : l[2] = SlugOf[f]
        /\ \A f \in Files(pages) :
              ~ReadDifferently(SlugOf[f]) /\ ~ExemptFromOrphanCheck(KindOf[f]) =>
                  (f \in OrphanPages(pages) <=>
                       \A l \in GraphLinks(pages) : l[2] = SlugOf[f] => l[3] # "wikilink")
=============================================================================
