--------------------------- MODULE ExplorerProofs ---------------------------
(***************************************************************************)
(* What is proved of the explorer, for any wikis, sessions and calls:      *)
(* lint and the graph agree (first section); the nodes structural_metrics  *)
(* marks as articulation points are those that cut; and one explorer per   *)
(* session and vault, and refreshes that are not undone (last sections).   *)
(*                                                                         *)
(* The second takes the longest argument here.  The lemmas of its first    *)
(* sections are about depth first search of any graph, away from the       *)
(* state: m nodes, N their neighbours, p the path from the root to the     *)
(* node at work, of length L, c what each node of it has looked at, d the  *)
(* times nodes were found at, m for never, l their low points, t the       *)
(* clock, h the children of the root, R the nodes marked.  Then come the   *)
(* stack as the code keeps it, the steps of the loop on it, and the        *)
(* actions of LinkGraph.                                                   *)
(***************************************************************************)
EXTENDS Explorer, LinkGraphProperties, NaturalsInduction, WellFoundedInduction, FiniteSetTheorems,
        TLAPS

(***************************************************************************)
(* The two readers of the pages, element by element.  None of these needs  *)
(* to know what is in a page.                                              *)
(***************************************************************************)
LEMMA BrokenLinkOf ==
    ASSUME NEW w, NEW b
    PROVE  b \in BrokenLinks(w) <=>
               \E f \in Files(w) : \E l \in w[f].wikilinks : b = <<f, l>> /\ IsBroken(w, l)
  BY DEF BrokenLinks

\* A link that the graph draws to a page is one to another page.
LEMMA WikilinkDrawn ==
    ASSUME NEW w, NEW k
    PROVE  k \in GraphLinks(w) /\ k[3] = "wikilink" <=>
               \E f \in Files(w) : \E l \in w[f].wikilinks :
                   l.id # SlugOf[f] /\ k = <<SlugOf[f], l.id, "wikilink">>
<1> DEFINE to(f, ids, kind) == {<<SlugOf[f], id, kind>> : id \in ids}
<1>1. ASSUME NEW f
      PROVE  k \in LinksFrom(w, f) /\ k[3] = "wikilink" <=> k \in to(f, Targets(w, f), "wikilink")
  BY DEF LinksFrom
<1>2. ASSUME NEW f
      PROVE  k \in to(f, Targets(w, f), "wikilink") <=>
                 \E l \in w[f].wikilinks : l.id # SlugOf[f] /\ k = <<SlugOf[f], l.id, "wikilink">>
  BY DEF Targets
<1>3. k \in GraphLinks(w) <=> \E f \in Files(w) : k \in LinksFrom(w, f)
  BY DEF GraphLinks
<1> HIDE DEF to
<1> QED  BY <1>1, <1>2, <1>3

\* Once all pages parse, every source that one of them names is drawn.
LEMMA SourceDrawn ==
    ASSUME NEW w, CanLint(w), NEW k
    PROVE  k \in GraphLinks(w) /\ k[3] = "source" <=>
               \E f \in Files(w) : \E r \in w[f].sources : k = <<SlugOf[f], r, "source">>
<1>1. ASSUME NEW f \in Files(w)
      PROVE  k \in LinksFrom(w, f) /\ k[3] = "source" <=>
                 \E r \in w[f].sources : k = <<SlugOf[f], r, "source">>
  BY DEF LinksFrom, CanLint
<1>2. k \in GraphLinks(w) <=> \E f \in Files(w) : k \in LinksFrom(w, f)
  BY DEF GraphLinks
<1> QED  BY <1>1, <1>2

(***************************************************************************)
(* The pages lint misses are those drawn dim: a link of a page to itself   *)
(* is not drawn, but it is not broken either.                              *)
(***************************************************************************)
LEMMA SamePagesMissing ==
    {b[2].id : b \in {k \in BrokenLinks(pages) : ~AnchoredInto(k[2])}} = MissingNodes(pages)
<1>1. ASSUME NEW b \in BrokenLinks(pages), ~AnchoredInto(b[2])
      PROVE  b[2].id \in MissingNodes(pages)
  <2>0. PICK f \in Files(pages) : \E l \in pages[f].wikilinks : b = <<f, l>> /\ IsBroken(pages, l)
    BY <1>1, BrokenLinkOf
  <2>1. PICK l \in pages[f].wikilinks : b = <<f, l>> /\ IsBroken(pages, l)
    BY <2>0
  <2>2. l.id \notin ExistingSlugs(pages) /\ SlugOf[f] \in ExistingSlugs(pages)
    BY <1>1, <2>1 DEF IsBroken, AnchoredInto, ExistingSlugs
  <2>3. <<SlugOf[f], l.id, "wikilink">> \in GraphLinks(pages)
    BY <2>2, WikilinkDrawn
  <2> QED  BY <2>1, <2>2, <2>3 DEF MissingNodes
<1>2. ASSUME NEW id \in MissingNodes(pages)
      PROVE  \E b \in BrokenLinks(pages) : ~AnchoredInto(b[2]) /\ b[2].id = id
  <2>1. PICK k \in GraphLinks(pages) : k[3] = "wikilink" /\ k[2] = id
    BY DEF MissingNodes
  <2>2. PICK f \in Files(pages) :
            \E l \in pages[f].wikilinks : l.id # SlugOf[f] /\ k = <<SlugOf[f], l.id, "wikilink">>
    BY <2>1, WikilinkDrawn
  <2>3. PICK l \in pages[f].wikilinks : k = <<SlugOf[f], l.id, "wikilink">>
    BY <2>2
  <2>4. l.id = id /\ id \notin ExistingSlugs(pages)
    BY <2>1, <2>3 DEF MissingNodes
  <2>5. <<f, l>> \in BrokenLinks(pages)
    BY <2>4, BrokenLinkOf DEF IsBroken
  <2> QED  BY <2>4, <2>5 DEF AnchoredInto
<1> QED  BY <1>1, <1>2

LEMMA SameSourcesMissing ==
    ASSUME CanLint(pages)
    PROVE  {m[2] : m \in MissingSources(pages, RawFile)} = CitedRaws(pages) \ RawFile
<1>1. \A m : m \in MissingSources(pages, RawFile) <=>
          \E f \in Files(pages) : \E r \in pages[f].sources : r \notin RawFile /\ m = <<f, r>>
  BY DEF MissingSources
<1>2. ASSUME NEW r
      PROVE  r \in CitedRaws(pages) <=> \E f \in Files(pages) : r \in pages[f].sources
  <2>1. r \in CitedRaws(pages) <=> \E k \in GraphLinks(pages) : k[3] = "source" /\ k[2] = r
    BY DEF CitedRaws
  <2>2. ASSUME NEW k \in GraphLinks(pages), k[3] = "source", k[2] = r
        PROVE  \E f \in Files(pages) : r \in pages[f].sources
    <3>1. PICK f \in Files(pages) : \E x \in pages[f].sources : k = <<SlugOf[f], x, "source">>
      BY <2>2, SourceDrawn
    <3> QED  BY <2>2, <3>1
  <2>3. ASSUME NEW f \in Files(pages), r \in pages[f].sources
        PROVE  \E k \in GraphLinks(pages) : k[3] = "source" /\ k[2] = r
    <3>1. <<SlugOf[f], r, "source">> \in GraphLinks(pages)
      BY <2>3, SourceDrawn
    <3> QED  BY <3>1
  <2> QED  BY <2>1, <2>2, <2>3
<1>3. ASSUME NEW r
      PROVE  r \in {m[2] : m \in MissingSources(pages, RawFile)} <=>
                 \E f \in Files(pages) : r \in pages[f].sources /\ r \notin RawFile
  <2>1. ASSUME NEW f \in Files(pages), r \in pages[f].sources, r \notin RawFile
        PROVE  \E m \in MissingSources(pages, RawFile) : m[2] = r
    <3>1. <<f, r>> \in MissingSources(pages, RawFile)
      BY <1>1, <2>1
    <3> QED  BY <3>1
  <2>2. ASSUME NEW m \in MissingSources(pages, RawFile), m[2] = r
        PROVE  \E f \in Files(pages) : r \in pages[f].sources /\ r \notin RawFile
    BY <1>1, <2>2
  <2> QED  BY <2>1, <2>2
<1> QED  BY <1>2, <1>3

\* A page's name is linked for lint if a link into the page is drawn, save for what they read differently.
LEMMA SameOrphans ==
    ASSUME NEW f \in Files(pages), ~ReadDifferently(SlugOf[f])
    PROVE  SlugOf[f] \in LinkedSlugs(pages) <=>
               \E k \in GraphLinks(pages) : k[2] = SlugOf[f] /\ k[3] = "wikilink"
<1>1. SlugOf[f] \in LinkedSlugs(pages) <=>
          \E g \in Files(pages) : \E l \in pages[g].wikilinks : ~l.anchored /\ l.id = SlugOf[f]
  BY DEF LinkedSlugs
<1>2. (\E k \in GraphLinks(pages) : k[2] = SlugOf[f] /\ k[3] = "wikilink") <=>
          \E g \in Files(pages) : \E l \in pages[g].wikilinks :
              l.id # SlugOf[g] /\ l.id = SlugOf[f]
  <2>1. ASSUME NEW k \in GraphLinks(pages), k[2] = SlugOf[f], k[3] = "wikilink"
        PROVE  \E g \in Files(pages) : \E l \in pages[g].wikilinks :
                   l.id # SlugOf[g] /\ l.id = SlugOf[f]
    <3>1. PICK g \in Files(pages) :
              \E l \in pages[g].wikilinks : l.id # SlugOf[g] /\ k = <<SlugOf[g], l.id, "wikilink">>
      BY <2>1, WikilinkDrawn
    <3> QED  BY <2>1, <3>1
  <2>2. ASSUME NEW g \in Files(pages), NEW l \in pages[g].wikilinks,
               l.id # SlugOf[g], l.id = SlugOf[f]
        PROVE  \E k \in GraphLinks(pages) : k[2] = SlugOf[f] /\ k[3] = "wikilink"
    <3>1. <<SlugOf[g], l.id, "wikilink">> \in GraphLinks(pages)
      BY <2>2, WikilinkDrawn
    <3> QED  BY <2>2, <3>1
  <2> QED  BY <2>1, <2>2
<1>3. \A g \in Files(pages) : \A l \in pages[g].wikilinks :
          l.id = SlugOf[f] => ~l.anchored /\ SlugOf[g] # SlugOf[f]
  BY DEF ReadDifferently
<1> QED  BY <1>1, <1>2, <1>3

(***************************************************************************)
(* Lint and the graph agree on what is missing and what stands alone,      *)
(* whatever the pages and the raw files are, but for the two things the    *)
(* property names: anchors and links of a page to itself (lint_bundle and  *)
(* build_graph each read the page files anew).                             *)
(***************************************************************************)
THEOREM ReadersAgree == GraphSpec => []LintAgreesWithGraph
<1>1. LintAgreesWithGraph
  <2> SUFFICES ASSUME CanLint(pages)
               PROVE  LintAgreesWithGraph
    BY DEF LintAgreesWithGraph
  <2>1. {b[2].id : b \in {k \in BrokenLinks(pages) : ~AnchoredInto(k[2])}} = MissingNodes(pages)
    BY SamePagesMissing
  <2>2. {m[2] : m \in MissingSources(pages, RawFile)} = CitedRaws(pages) \ RawFile
    BY SameSourcesMissing
  <2>3. ASSUME NEW f \in Files(pages), ~ReadDifferently(SlugOf[f]), ~ExemptFromOrphanCheck(KindOf[f])
        PROVE  f \in OrphanPages(pages) <=>
                   \A l \in GraphLinks(pages) : l[2] = SlugOf[f] => l[3] # "wikilink"
    BY <2>3, SameOrphans DEF OrphanPages
  <2>4. ASSUME NEW strict \in BOOLEAN, IsClean(pages, RawFile, strict)
        PROVE  /\ MissingNodes(pages) = {} /\ CitedRaws(pages) \subseteq RawFile
               /\ strict => \A f \in Files(pages) :
                     \/ ReadDifferently(SlugOf[f]) \/ ExemptFromOrphanCheck(KindOf[f])
                     \/ \E l \in GraphLinks(pages) : l[2] = SlugOf[f]
    <3>1. BrokenLinks(pages) = {} /\ MissingSources(pages, RawFile) = {}
      BY <2>4 DEF IsClean, HasErrors
    <3>2. MissingNodes(pages) = {} /\ CitedRaws(pages) \subseteq RawFile
      BY <2>1, <2>2, <3>1
    <3>3. strict => OrphanPages(pages) = {}
      BY <2>4 DEF IsClean
    <3> QED  BY <2>3, <3>2, <3>3
  <2> QED  BY <2>1, <2>2, <2>3, <2>4 DEF LintAgreesWithGraph
<1> QED  BY <1>1, PTL

-----------------------------------------------------------------------------
LEMMA LeastExists ==
    ASSUME NEW S, S \subseteq Nat, S # {}
    PROVE  \E d \in S : \A e \in S : d <= e
<1> DEFINE Less == OpToRel(<, Nat)
<1>1. IsWellFoundedOn(Less, Nat)
  BY NatLessThanWellFounded
<1>2. PICK d \in S : \A e \in S : ~(<<e, d>> \in Less)
  <2> HIDE DEF Less
  <2> QED  BY <1>1, WFMin
<1>3. \A e, f \in Nat : <<e, f>> \in Less <=> e < f
  BY DEF OpToRel
<1> HIDE DEF Less
<1>4. \A e \in S : ~(e < d)
  BY <1>2, <1>3
<1> QED  BY <1>4

(***************************************************************************)
(* Graphs, and what it means that a node cuts: two of its neighbours are   *)
(* in no common piece once it is gone.  y is linked to x but through v     *)
(* when it is in every set that x is in and no link leads out of, but to   *)
(* v.                                                                      *)
(***************************************************************************)
IsGraph(m, N) ==
    /\ m \in Nat /\ N \in [1..m -> SUBSET (1..m)]
    /\ \A v \in 1..m : v \notin N[v] /\ \A w \in N[v] : v \in N[w]

LinkedBut(m, N, v, x, y) ==
    \A S \in SUBSET (1..m) : x \in S /\ (\A w \in S : N[w] \ {v} \subseteq S) => y \in S

IsCut(m, N, v) == \E x, y \in N[v] : ~LinkedBut(m, N, v, x, y)

LEMMA LinkedSelf ==
    ASSUME NEW m, NEW N, NEW v, NEW x
    PROVE  LinkedBut(m, N, v, x, x)
BY DEF LinkedBut

LEMMA LinkedThen ==
    ASSUME NEW m, NEW N, NEW v, NEW x, NEW y, NEW z,
           LinkedBut(m, N, v, x, y), LinkedBut(m, N, v, y, z)
    PROVE  LinkedBut(m, N, v, x, z)
BY DEF LinkedBut

LEMMA LinkedStep ==
    ASSUME NEW m, NEW N, IsGraph(m, N), NEW v, NEW x \in 1..m, NEW y \in N[x], y # v
    PROVE  LinkedBut(m, N, v, x, y)
BY DEF LinkedBut, IsGraph

LEMMA LinkedBack ==
    ASSUME NEW m, NEW N, IsGraph(m, N), NEW v, NEW x \in 1..m, NEW y \in 1..m, x # v, y # v,
           LinkedBut(m, N, v, x, y)
    PROVE  LinkedBut(m, N, v, y, x)
<1> SUFFICES ASSUME NEW S \in SUBSET (1..m), y \in S, \A w \in S : N[w] \ {v} \subseteq S, x \notin S
             PROVE  FALSE
  BY DEF LinkedBut
<1> DEFINE T == {w \in 1..m : w \notin S /\ w # v}
<1>1. T \in SUBSET (1..m) /\ x \in T /\ y \notin T
  OBVIOUS
<1>2. ASSUME NEW w \in T, NEW z \in N[w] \ {v}
      PROVE  z \in T
  <2>1. w \in 1..m /\ w \notin S /\ w # v
    OBVIOUS
  <2>2. z \in 1..m /\ w \in N[z]
    BY <1>2, <2>1 DEF IsGraph
  <2>3. z \notin S
    BY <2>1, <2>2
  <2> QED
    BY <1>2, <2>2, <2>3
<1> HIDE DEF T
<1>3. \A w \in T : N[w] \ {v} \subseteq T
  BY <1>2
<1> QED
  BY <1>1, <1>3 DEF LinkedBut

\* Along a path that does not go through v.
LEMMA LinkedAlong ==
    ASSUME NEW m, NEW N, IsGraph(m, N), NEW v, NEW i \in Nat, NEW j \in Nat, i <= j, NEW p,
           \A k \in i..j : p[k] \in 1..m /\ p[k] # v,
           \A k \in i..j : k < j => p[k + 1] \in N[p[k]]
    PROVE  LinkedBut(m, N, v, p[i], p[j])
<1> SUFFICES ASSUME NEW S \in SUBSET (1..m), p[i] \in S, \A w \in S : N[w] \ {v} \subseteq S, p[j] \notin S
             PROVE  FALSE
  BY DEF LinkedBut
<1> DEFINE Out == {k \in i..j : p[k] \notin S}
<1>1. Out \in SUBSET Nat /\ Out # {}
  OBVIOUS
<1>2. PICK k \in Out : \A h \in Out : k <= h
  <2> HIDE DEF Out
  <2> QED
    BY <1>1, LeastExists
<1>3. k \in i..j /\ p[k] \notin S /\ k # i
  OBVIOUS
<1>4. k - 1 \in i..j /\ k - 1 < j /\ (k - 1) + 1 = k
  BY <1>3
<1>5. p[k - 1] \in S
  BY <1>2, <1>4
<1>6. p[k] \in N[p[k - 1]]
  BY <1>4
<1>7. p[k] # v
  BY <1>3
<1> QED
  BY <1>3, <1>5, <1>6, <1>7

-----------------------------------------------------------------------------
(***************************************************************************)
(* The search at any moment.  Zone k is what hangs behind the k-th node of *)
(* the path: found after it, and before the next node of the path.  Nodes  *)
(* of earlier trees are closed: their neighbours are all of earlier trees. *)
(* What is in zone k links into it, or to nodes of the path up to the      *)
(* k-th.                                                                   *)
(***************************************************************************)
Zone(m, d, L, p, k) == {w \in 1..m : d[w] # m /\ d[p[k]] < d[w] /\ (k < L => d[w] < d[p[k + 1]])}

DfsTypes(m, L, p, c, d, t) ==
    /\ L \in Nat /\ L >= 1 /\ p \in [1..L -> 1..m] /\ c \in [1..L -> SUBSET (1..m)]
    /\ d \in [1..m -> 0..m] /\ t \in 0..m

Timed(m, d, t) ==
    /\ \A w \in 1..m : d[w] # m => d[w] < t
    /\ \A v, w \in 1..m : d[v] = d[w] /\ d[v] # m => v = w

IsPath(m, N, L, p, d) ==
    /\ \A k \in 1..L : d[p[k]] # m /\ (k < L => p[k + 1] \in N[p[k]])
    /\ \A i, k \in 1..L : i < k => d[p[i]] < d[p[k]]

Scanned(m, N, L, p, c, d) ==
    \A k \in 1..L : c[k] \subseteq N[p[k]] /\ \A w \in c[k] : d[w] # m

OldIsClosed(m, N, d, r) ==
    \A w \in 1..m : d[w] < d[r] => \A x \in N[w] : d[x] < d[r]

ZoneIsClosed(m, N, L, p, d, k) ==
    \A w \in Zone(m, d, L, p, k) : \A x \in N[w] :
        x \in Zone(m, d, L, p, k) \/ \E i \in 1..k : x = p[i]

Dfs(m, N, L, p, c, d, t) ==
    /\ DfsTypes(m, L, p, c, d, t) /\ Timed(m, d, t) /\ IsPath(m, N, L, p, d)
    /\ Scanned(m, N, L, p, c, d) /\ OldIsClosed(m, N, d, p[1])
    /\ \A k \in 1..L : ZoneIsClosed(m, N, L, p, d, k)

\* Whatever was found is of an earlier tree, on the path, or behind one node of it.
LEMMA Located ==
    ASSUME NEW m, NEW N, IsGraph(m, N), NEW L, NEW p, NEW c, NEW d, NEW t, DfsTypes(m, L, p, c, d, t),
           Timed(m, d, t), IsPath(m, N, L, p, d), NEW w \in 1..m, d[w] # m, ~(d[w] < d[p[1]])
    PROVE  \E k \in 1..L : w = p[k] \/ w \in Zone(m, d, L, p, k)
<1> DEFINE After == {k \in Nat : \E i \in 1..L : d[p[i]] <= d[w] /\ k = L - i}
<1> USE DEF DfsTypes
<1>0. m \in Nat /\ d[w] \in 0..m /\ \A k \in 1..L : p[k] \in 1..m /\ d[p[k]] \in 0..m
  BY DEF IsGraph
<1>1. After \in SUBSET Nat /\ After # {}
  <2>1. 1 \in 1..L /\ d[p[1]] <= d[w] /\ L - 1 \in Nat
    BY <1>0
  <2> QED  BY <2>1
<1>2. PICK h \in After : \A k \in After : h <= k
  <2> HIDE DEF After
  <2> QED  BY <1>1, LeastExists
<1>3. PICK i \in 1..L : d[p[i]] <= d[w] /\ h = L - i
  OBVIOUS
<1>4. ASSUME i < L
      PROVE  d[w] < d[p[i + 1]]
  <2>1. i + 1 \in 1..L /\ L - (i + 1) \in Nat /\ ~(h <= L - (i + 1))
    BY <1>3, <1>4
  <2>2. ~(d[p[i + 1]] <= d[w])
    BY <1>2, <2>1
  <2> QED  BY <1>0, <2>1, <2>2
<1>5. CASE d[p[i]] = d[w]
  BY <1>0, <1>3, <1>5 DEF Timed
<1>6. CASE d[p[i]] # d[w]
  <2>1. d[p[i]] < d[w]
    BY <1>0, <1>3, <1>6
  <2> QED  BY <1>4, <2>1 DEF Zone
<1> QED  BY <1>5, <1>6

\* A node whose neighbours were all looked at has them behind it or before it on the path.
LEMMA ToppedOut ==
    ASSUME NEW m, NEW N, IsGraph(m, N), NEW L, NEW p, NEW c, NEW d, NEW t, Dfs(m, N, L, p, c, d, t),
           c[L] = N[p[L]], NEW x \in N[p[L]]
    PROVE  x \in Zone(m, d, L, p, L) \/ \E i \in 1..(L - 1) : x = p[i]
<1> USE DEF Dfs, DfsTypes
<1>0. /\ m \in Nat /\ L \in 1..L /\ p[L] \in 1..m /\ x \in 1..m /\ p[L] \in N[x] /\ x # p[L]
      /\ 1 \in 1..L /\ p[1] \in 1..m
      /\ \A w \in 1..m : d[w] \in 0..m
  BY DEF IsGraph
<1>1. d[x] # m
  BY <1>0 DEF Scanned
<1>2. ~(d[x] < d[p[1]])
  <2>1. SUFFICES ASSUME d[x] < d[p[1]] PROVE FALSE
    OBVIOUS
  <2>2. d[p[L]] < d[p[1]]
    BY <1>0, <2>1 DEF OldIsClosed
  <2>3. L = 1 \/ d[p[1]] < d[p[L]]
    <3>1. IsPath(m, N, L, p, d) /\ L \in Nat /\ L >= 1 /\ 1 \in 1..L /\ L \in 1..L
      BY <1>0
    <3>2. 1 < L => d[p[1]] < d[p[L]]
      BY ONLY <3>1 DEF IsPath
    <3> QED  BY ONLY <3>1, <3>2
  <2> QED  BY <1>0, <2>2, <2>3
<1>3. PICK k \in 1..L : x = p[k] \/ x \in Zone(m, d, L, p, k)
  BY <1>0, <1>1, <1>2, Located
<1>4. ASSUME x \in Zone(m, d, L, p, k), k < L
      PROVE  FALSE
  <2>1. p[L] \in Zone(m, d, L, p, k) \/ \E i \in 1..k : p[L] = p[i]
    BY <1>0, <1>4 DEF ZoneIsClosed
  <2>2. \A i \in 1..k : d[p[i]] < d[p[L]]
    <3>1. \A i \in 1..k : i \in 1..L /\ i < L
      BY <1>0, <1>4
    <3> QED  BY <1>0, <3>1 DEF IsPath
  <2>3. k + 1 \in 1..L /\ (k + 1 < L => d[p[k + 1]] < d[p[L]])
    <3>1. k + 1 \in 1..L /\ L \in 1..L
      BY ONLY <1>0, <1>4, k \in 1..L
    <3>2. IsPath(m, N, L, p, d)
      OBVIOUS
    <3> QED  BY ONLY <3>1, <3>2 DEF IsPath
  <2>4. ~(d[p[L]] < d[p[k + 1]])
    BY <1>0, <2>3
  <2>5. p[L] \notin Zone(m, d, L, p, k)
    BY <1>4, <2>4 DEF Zone
  <2>6. \A i \in 1..k : p[L] # p[i]
    BY <1>0, <2>2
  <2> QED  BY <2>1, <2>5, <2>6
<1> QED  BY <1>0, <1>3, <1>4

-----------------------------------------------------------------------------
(***************************************************************************)
(* The steps of the search: a neighbour of the last node of the path is    *)
(* pushed as its next, or the last node is popped, into the zone of the    *)
(* one before.                                                             *)
(***************************************************************************)
Added(L, c, w, e) == \A k \in 1..L : e[k] = IF k = L THEN c[k] \cup {w} ELSE c[k]

Pushed(m, L, p, c, q, e, w) ==
    /\ q \in [1..(L + 1) -> 1..m] /\ e \in [1..(L + 1) -> SUBSET (1..m)]
    /\ \A k \in 1..L : q[k] = p[k]
    /\ Added(L, c, w, e)
    /\ q[L + 1] = w /\ e[L + 1] = {}

Found(m, d, w, t, f) == f \in [1..m -> 0..m] /\ \A v \in 1..m : f[v] = IF v = w THEN t ELSE d[v]

\* Pushing a found node opens an empty zone behind it and leaves the others.
LEMMA PushedZones ==
    ASSUME NEW m, NEW N, IsGraph(m, N), NEW L, NEW p, NEW c, NEW d, NEW t, Dfs(m, N, L, p, c, d, t),
           t < m, NEW w \in N[p[L]], d[w] = m, NEW q, NEW e, Pushed(m, L, p, c, q, e, w),
           NEW f, Found(m, d, w, t, f)
    PROVE  /\ \A k \in 1..L : Zone(m, f, L + 1, q, k) = Zone(m, d, L, p, k)
           /\ Zone(m, f, L + 1, q, L + 1) = {}
<1>0. /\ m \in Nat /\ L \in Nat /\ L \in 1..L /\ L >= 1 /\ w \in 1..m /\ t \in 0..m /\ f \in [1..m -> 0..m]
      /\ \A v \in 1..m : d[v] \in 0..m /\ f[v] = IF v = w THEN t ELSE d[v]
      /\ \A v \in 1..m : d[v] # m => d[v] < t
  BY DEF IsGraph, Dfs, DfsTypes, Timed, Found
<1>1. \A k \in 1..L : q[k] = p[k] /\ p[k] \in 1..m /\ d[p[k]] # m /\ p[k] # w /\ f[p[k]] = d[p[k]]
  BY <1>0 DEF Dfs, DfsTypes, IsPath, Pushed, Added
<1>2. q[L + 1] = w /\ f[w] = t
  BY <1>0 DEF Pushed, Added
<1>3. ASSUME NEW k \in 1..L
      PROVE  Zone(m, f, L + 1, q, k) = Zone(m, d, L, p, k)
  <2>0. Zone(m, f, L + 1, q, k) \subseteq 1..m /\ Zone(m, d, L, p, k) \subseteq 1..m
    BY DEF Zone
  <2>1. ASSUME NEW v \in 1..m
        PROVE  v \in Zone(m, f, L + 1, q, k) <=> v \in Zone(m, d, L, p, k)
    <3>1. /\ v \in Zone(m, d, L, p, k) <=> d[v] # m /\ d[p[k]] < d[v] /\ (k < L => d[v] < d[p[k + 1]])
          /\ v \in Zone(m, f, L + 1, q, k) <=>
                f[v] # m /\ f[q[k]] < f[v] /\ (k < L + 1 => f[v] < f[q[k + 1]])
      BY DEF Zone
    <3>2. f[q[k]] = d[p[k]] /\ k < L + 1 /\ d[p[k]] \in 0..m /\ d[v] \in 0..m
      BY <1>0, <1>1
    <3>3. CASE k = L
      <4>1. f[q[k + 1]] = t
        BY <1>2, <3>3
      <4>2. CASE v = w
        BY <1>0, <1>2, <3>1, <3>2, <4>1, <4>2
      <4>3. CASE v # w
        <5>1. f[v] = d[v] /\ (d[v] # m => d[v] < t)
          BY <1>0, <4>3
        <5> QED  BY <3>1, <3>2, <3>3, <4>1, <5>1
      <4> QED  BY <4>2, <4>3
    <3>4. CASE k < L
      <4>0. k + 1 \in 1..L
        BY <1>0, <3>4
      <4>1. f[q[k + 1]] = d[p[k + 1]] /\ d[p[k + 1]] < t /\ d[p[k + 1]] \in 0..m
        BY <1>0, <1>1, <4>0
      <4>2. CASE v = w
        BY <1>0, <1>2, <3>1, <3>2, <4>1, <4>2
      <4>3. CASE v # w
        <5>1. f[v] = d[v]
          BY <1>0, <4>3
        <5> QED  BY <3>1, <3>2, <3>4, <4>1, <5>1
      <4> QED  BY <4>2, <4>3
    <3> QED  BY <1>0, <3>3, <3>4
  <2> QED  BY <2>0, <2>1
<1>4. Zone(m, f, L + 1, q, L + 1) = {}
  <2>1. Zone(m, f, L + 1, q, L + 1) = {v \in 1..m : f[v] # m /\ t < f[v]}
    BY <1>0, <1>2 DEF Zone
  <2>2. \A v \in 1..m : ~(f[v] # m /\ t < f[v])
    BY <1>0
  <2> QED  BY <2>1, <2>2
<1> QED  BY <1>3, <1>4

LEMMA PushedDfs ==
    ASSUME NEW m, NEW N, IsGraph(m, N), NEW L, NEW p, NEW c, NEW d, NEW t, Dfs(m, N, L, p, c, d, t),
           t < m, NEW w \in N[p[L]], d[w] = m, NEW q, NEW e, Pushed(m, L, p, c, q, e, w),
           NEW f, Found(m, d, w, t, f)
    PROVE  Dfs(m, N, L + 1, q, e, f, t + 1)
<1>0. /\ m \in Nat /\ L \in Nat /\ L \in 1..L /\ L >= 1 /\ w \in 1..m /\ t \in 0..m /\ f \in [1..m -> 0..m]
      /\ \A v \in 1..m : d[v] \in 0..m /\ f[v] = IF v = w THEN t ELSE d[v]
      /\ \A v \in 1..m : d[v] # m => d[v] < t
      /\ \A v \in 1..m : N[v] \subseteq 1..m
  <2>1. DfsTypes(m, L, p, c, d, t) /\ Timed(m, d, t)
    BY DEF Dfs
  <2>2. m \in Nat /\ \A v \in 1..m : N[v] \subseteq 1..m
    BY DEF IsGraph
  <2>3. L \in Nat /\ L >= 1 /\ p \in [1..L -> 1..m] /\ d \in [1..m -> 0..m] /\ t \in 0..m
    BY ONLY <2>1 DEF DfsTypes
  <2>4. L \in 1..L /\ p[L] \in 1..m
    BY ONLY <2>3
  <2>5. w \in 1..m
    BY <2>2, <2>4
  <2>6. f \in [1..m -> 0..m] /\ \A v \in 1..m : f[v] = IF v = w THEN t ELSE d[v]
    BY DEF Found
  <2>7. \A v \in 1..m : d[v] # m => d[v] < t
    BY ONLY <2>1 DEF Timed
  <2>8. \A v \in 1..m : d[v] \in 0..m
    BY ONLY <2>3
  <2> QED  BY ONLY <2>2, <2>3, <2>4, <2>5, <2>6, <2>7, <2>8
<1>1. \A k \in 1..L : q[k] = p[k] /\ p[k] \in 1..m /\ d[p[k]] # m /\ p[k] # w /\ f[p[k]] = d[p[k]]
  BY <1>0 DEF Dfs, DfsTypes, IsPath, Pushed, Added
<1>2. q[L + 1] = w /\ f[w] = t
  BY <1>0 DEF Pushed, Added
<1>3. /\ \A k \in 1..L : Zone(m, f, L + 1, q, k) = Zone(m, d, L, p, k)
      /\ Zone(m, f, L + 1, q, L + 1) = {}
  BY PushedZones
<1>4. DfsTypes(m, L + 1, q, e, f, t + 1)
  BY <1>0 DEF DfsTypes, Pushed, Added
<1>5. Timed(m, f, t + 1)
  <2>1. ASSUME NEW v \in 1..m, f[v] # m
        PROVE  f[v] < t + 1
    <3>1. d[v] \in 0..m /\ f[v] = IF v = w THEN t ELSE d[v]
      BY <1>0
    <3>2. v = w \/ d[v] < t
      BY <1>0, <2>1, <3>1
    <3> QED  BY <1>0, <3>1, <3>2
  <2>2. \A u, v \in 1..m : d[u] = d[v] /\ d[u] # m => u = v
    BY DEF Dfs, Timed
  <2>3. \A u, v \in 1..m : f[u] = f[v] /\ f[u] # m => u = v
    BY <1>0, <2>2
  <2> QED  BY <2>1, <2>3 DEF Timed
<1>6. IsPath(m, N, L + 1, q, f)
  <2>0. IsPath(m, N, L, p, d)
    BY DEF Dfs
  <2>1. ASSUME NEW k \in 1..(L + 1)
        PROVE  f[q[k]] # m /\ (k < L + 1 => q[k + 1] \in N[q[k]])
    <3>1. CASE k \in 1..L /\ k < L
      <4>1. k + 1 \in 1..L
        BY <1>0, <3>1
      <4> QED  BY <1>0, <1>1, <2>0, <3>1, <4>1 DEF IsPath
    <3>2. CASE k = L
      BY <1>0, <1>1, <1>2, <3>2
    <3>3. CASE k = L + 1
      BY <1>0, <1>2, <3>3
    <3> QED  BY <1>0, <3>1, <3>2, <3>3
  <2>2. ASSUME NEW i \in 1..(L + 1), NEW k \in 1..(L + 1), i < k
        PROVE  f[q[i]] < f[q[k]]
    <3>1. i \in 1..L /\ (k \in 1..L \/ k = L + 1)
      BY <1>0, <2>2
    <3>2. CASE k \in 1..L
      BY <1>1, <2>0, <2>2, <3>1, <3>2 DEF IsPath
    <3>3. CASE k = L + 1
      <4>1. d[p[i]] < t
        BY <1>0, <1>1, <3>1
      <4> QED  BY <1>1, <1>2, <3>1, <3>3, <4>1
    <3> QED  BY <3>1, <3>2, <3>3
  <2> QED  BY <2>1, <2>2 DEF IsPath
<1>7. Scanned(m, N, L + 1, q, e, f)
  <2> SUFFICES ASSUME NEW k \in 1..(L + 1)
               PROVE  e[k] \subseteq N[q[k]] /\ \A v \in e[k] : f[v] # m
    BY DEF Scanned
  <2>1. CASE k = L + 1
    BY <2>1 DEF Pushed, Added
  <2>2. CASE k \in 1..L
    <3>1. c[k] \subseteq N[p[k]] /\ \A v \in c[k] : d[v] # m
      BY <2>2 DEF Dfs, Scanned
    <3>2. e[k] = IF k = L THEN c[k] \cup {w} ELSE c[k]
      BY <2>2 DEF Pushed, Added
    <3>3. c[k] \subseteq 1..m
      BY <1>0, <1>1, <2>2, <3>1
    <3>4. e[k] \subseteq N[q[k]]
      BY <1>1, <2>2, <3>1, <3>2
    <3>5. \A v \in e[k] : v = w \/ v \in c[k]
      BY <3>2
    <3> QED  BY <1>0, <3>1, <3>3, <3>4, <3>5
  <2> QED  BY <1>0, <2>1, <2>2
<1>8. OldIsClosed(m, N, f, q[1])
  <2>0. 1 \in 1..L
    BY <1>0
  <2>1. q[1] = p[1] /\ p[1] \in 1..m /\ f[q[1]] = d[p[1]] /\ d[p[1]] # m
    BY <1>1, <2>0
  <2>2. d[p[1]] < t /\ d[p[1]] \in 0..m
    BY <1>0, <2>1
  <2>4. ASSUME NEW v \in 1..m
        PROVE  f[v] < d[p[1]] <=> d[v] < d[p[1]]
    <3>1. CASE v = w
      BY <1>0, <1>2, <2>2, <3>1
    <3>2. CASE v # w
      BY <1>0, <3>2
    <3> QED  BY <3>1, <3>2
  <2>3. OldIsClosed(m, N, d, p[1])
    BY DEF Dfs
  <2> QED  BY <1>0, <2>1, <2>3, <2>4 DEF OldIsClosed
<1>9. ASSUME NEW k \in 1..(L + 1)
      PROVE  ZoneIsClosed(m, N, L + 1, q, f, k)
  <2>1. CASE k = L + 1
    BY <1>3, <2>1 DEF ZoneIsClosed
  <2>2. CASE k \in 1..L
    <3>1. ZoneIsClosed(m, N, L, p, d, k)
      BY <2>2 DEF Dfs
    <3>2. ASSUME NEW i \in 1..k
          PROVE  q[i] = p[i]
      <4>1. i \in 1..L
        BY ONLY <1>0, <2>2, i \in 1..k
      <4> QED  BY ONLY <1>1, <4>1
    <3>3. \A i \in 1..k : q[i] = p[i]
      BY ONLY <3>2
    <3> QED  BY <1>3, <2>2, <3>1, <3>3 DEF ZoneIsClosed
  <2> QED  BY <1>0, <2>1, <2>2
<1> QED  BY <1>4, <1>5, <1>6, <1>7, <1>8, <1>9 DEF Dfs

-----------------------------------------------------------------------------
\* Looking at a neighbour found before changes no zone.
LEMMA LookedDfs ==
    ASSUME NEW m, NEW N, NEW L, NEW p, NEW c, NEW d, NEW t, Dfs(m, N, L, p, c, d, t),
           NEW w \in N[p[L]], w \in 1..m, d[w] # m,
           NEW e \in [1..L -> SUBSET (1..m)], Added(L, c, w, e)
    PROVE  Dfs(m, N, L, p, e, d, t)
<1>1. DfsTypes(m, L, p, e, d, t)
  BY DEF Dfs, DfsTypes
<1>2. Scanned(m, N, L, p, e, d)
  BY DEF Dfs, Scanned, Added
<1> QED  BY <1>1, <1>2 DEF Dfs

-----------------------------------------------------------------------------
Popped(m, L, p, c, q, e) ==
    /\ L > 1
    /\ q \in [1..(L - 1) -> 1..m] /\ e \in [1..(L - 1) -> SUBSET (1..m)]
    /\ \A k \in 1..(L - 1) : q[k] = p[k] /\ e[k] = c[k]

\* Popping a node puts it and its zone into the zone of its parent.
LEMMA PoppedZones ==
    ASSUME NEW m, NEW N, IsGraph(m, N), NEW L, NEW p, NEW c, NEW d, NEW t, Dfs(m, N, L, p, c, d, t),
           NEW q, NEW e, Popped(m, L, p, c, q, e)
    PROVE  /\ \A k \in 1..(L - 2) : Zone(m, d, L - 1, q, k) = Zone(m, d, L, p, k)
           /\ Zone(m, d, L - 1, q, L - 1) = Zone(m, d, L, p, L - 1) \cup {p[L]} \cup Zone(m, d, L, p, L)
<1>0. /\ m \in Nat /\ L \in Nat /\ L > 1 /\ L \in 1..L /\ L - 1 \in 1..L /\ (L - 1) + 1 = L
      /\ \A v \in 1..m : d[v] \in 0..m
      /\ \A k \in 1..L : p[k] \in 1..m /\ d[p[k]] # m
      /\ \A k \in 1..(L - 1) : q[k] = p[k]
  BY DEF IsGraph, Dfs, DfsTypes, IsPath, Popped
<1>1. ASSUME NEW k \in 1..(L - 2)
      PROVE  Zone(m, d, L - 1, q, k) = Zone(m, d, L, p, k)
  <2>1. /\ k \in 1..(L - 1) /\ k + 1 \in 1..(L - 1) /\ k < L - 1 /\ k < L
    BY <1>0
  <2>2. q[k] = p[k] /\ q[k + 1] = p[k + 1]
    BY <1>0, <2>1
  <2> QED  BY <2>1, <2>2 DEF Zone
<1>2. ASSUME NEW v \in 1..m
      PROVE  v \in Zone(m, d, L - 1, q, L - 1)
                <=> v \in Zone(m, d, L, p, L - 1) \cup {p[L]} \cup Zone(m, d, L, p, L)
  <2>1. q[L - 1] = p[L - 1]
    BY <1>0
  <2>2. /\ v \in Zone(m, d, L - 1, q, L - 1) <=> d[v] # m /\ d[p[L - 1]] < d[v]
        /\ v \in Zone(m, d, L, p, L - 1) <=> d[v] # m /\ d[p[L - 1]] < d[v] /\ d[v] < d[p[L]]
        /\ v \in Zone(m, d, L, p, L) <=> d[v] # m /\ d[p[L]] < d[v]
    BY <1>0, <2>1 DEF Zone
  <2>3. d[p[L - 1]] < d[p[L]] /\ d[p[L]] # m /\ d[p[L]] \in 0..m /\ d[p[L - 1]] \in 0..m /\ d[v] \in 0..m
    BY <1>0 DEF Dfs, IsPath
  <2>4. d[v] = d[p[L]] => v = p[L]
    BY <1>0, <2>3 DEF Dfs, Timed
  <2> QED  BY <2>2, <2>3, <2>4
<1>3. Zone(m, d, L - 1, q, L - 1) \subseteq 1..m
      /\ Zone(m, d, L, p, L - 1) \cup {p[L]} \cup Zone(m, d, L, p, L) \subseteq 1..m
  BY <1>0 DEF Zone
<1>4. Zone(m, d, L - 1, q, L - 1) = Zone(m, d, L, p, L - 1) \cup {p[L]} \cup Zone(m, d, L, p, L)
  BY <1>2, <1>3
<1> QED  BY <1>1, <1>4

LEMMA PoppedDfs ==
    ASSUME NEW m, NEW N, IsGraph(m, N), NEW L, NEW p, NEW c, NEW d, NEW t, Dfs(m, N, L, p, c, d, t),
           c[L] = N[p[L]], NEW q, NEW e, Popped(m, L, p, c, q, e)
    PROVE  Dfs(m, N, L - 1, q, e, d, t)
<1>0. /\ m \in Nat /\ L \in Nat /\ L > 1 /\ L \in 1..L /\ 1 \in 1..(L - 1)
      /\ \A k \in 1..(L - 1) : k \in 1..L /\ k < L /\ q[k] = p[k] /\ e[k] = c[k]
  BY DEF IsGraph, Dfs, DfsTypes, Popped
<1>1. DfsTypes(m, L - 1, q, e, d, t)
  BY <1>0 DEF Dfs, DfsTypes, Popped
<1>2. IsPath(m, N, L - 1, q, d)
  <2>1. \A k \in 1..(L - 1) : k < L - 1 => k + 1 \in 1..(L - 1)
    BY <1>0
  <2> QED  BY <1>0, <2>1 DEF Dfs, IsPath
<1>3. Scanned(m, N, L - 1, q, e, d)
  BY <1>0 DEF Dfs, Scanned
<1>4. OldIsClosed(m, N, d, q[1])
  BY <1>0 DEF Dfs
<1>5. ASSUME NEW k \in 1..(L - 1)
      PROVE  ZoneIsClosed(m, N, L - 1, q, d, k)
  <2>0. /\ \A i \in 1..(L - 2) : Zone(m, d, L - 1, q, i) = Zone(m, d, L, p, i)
        /\ Zone(m, d, L - 1, q, L - 1) = Zone(m, d, L, p, L - 1) \cup {p[L]} \cup Zone(m, d, L, p, L)
    BY PoppedZones
  <2>1. ZoneIsClosed(m, N, L, p, d, k) /\ ZoneIsClosed(m, N, L, p, d, L) /\ \A i \in 1..k : q[i] = p[i]
    BY <1>0 DEF Dfs
  <2>2. CASE k \in 1..(L - 2)
    BY <2>0, <2>1, <2>2 DEF ZoneIsClosed
  <2>3. CASE k = L - 1
    <3> SUFFICES ASSUME NEW v \in Zone(m, d, L - 1, q, k), NEW x \in N[v]
                 PROVE  x \in Zone(m, d, L - 1, q, k) \/ \E i \in 1..k : x = q[i]
      BY DEF ZoneIsClosed
    <3>1. CASE v \in Zone(m, d, L, p, k)
      BY <2>0, <2>1, <2>3, <3>1 DEF ZoneIsClosed
    <3>2. CASE v = p[L]
      <4>1. x \in Zone(m, d, L, p, L) \/ \E i \in 1..(L - 1) : x = p[i]
        BY <3>2, ToppedOut
      <4> QED  BY <2>0, <2>1, <2>3, <4>1
    <3>3. CASE v \in Zone(m, d, L, p, L)
      <4>1. x \in Zone(m, d, L, p, L) \/ \E i \in 1..L : x = p[i]
        BY <2>1, <3>3 DEF ZoneIsClosed
      <4>2. \A i \in 1..L : i = L \/ i \in 1..(L - 1)
        BY <1>0
      <4> QED  BY <2>0, <2>1, <2>3, <4>1, <4>2
    <3> QED  BY <2>0, <2>3, <3>1, <3>2, <3>3
  <2> QED  BY <1>0, <2>2, <2>3
<1> QED  BY <1>1, <1>2, <1>3, <1>4, <1>5 DEF Dfs

-----------------------------------------------------------------------------
(***************************************************************************)
(* What the low points and the marks say.  The zone behind v hangs on it:  *)
(* all of it can be reached through the zone.  The low point of a node on  *)
(* the path is the time of something its zone links to, and is no later    *)
(* than any node of the path that its zone links to, or that it has looked *)
(* at itself, its parent not counted.  A node v that was pushed from u and *)
(* is not marked cuts nothing of its zone off from u; a marked one cuts.   *)
(* The root cuts exactly if it had two children.                           *)
(***************************************************************************)
Hangs(m, N, v, Z) ==
    \A S \in SUBSET (1..m) :
        v \in S /\ (\A w \in S : w \in {v} \cup Z => N[w] \cap Z \subseteq S) => Z \subseteq S

LowIsReal(N, d, l, v, Z) ==
    l[v] <= d[v] /\ (l[v] = d[v] \/ \E w \in {v} \cup Z : \E x \in N[w] : d[x] = l[v])

LowIsLeast(N, p, c, d, l, k, Z) ==
    \A i \in 1..(k - 1) :
        (\E w \in Z : p[i] \in N[w]) \/ (p[i] \in c[k] /\ i < k - 1) => l[p[k]] <= d[p[i]]

Judged(m, N, u, v, R, Z) ==
    IF v \in R THEN IsCut(m, N, v) ELSE \A w \in Z : LinkedBut(m, N, v, w, u)

RootJudged(m, N, r, h, Z) ==
    /\ h = 0 => Z = {}
    /\ h = 1 => \A x, y \in Z : LinkedBut(m, N, r, x, y)
    /\ h >= 1 => \E x \in Z : x \in N[r]
    /\ h >= 2 => IsCut(m, N, r)

\* When v is popped its zone joins that of u, and hangs on u with it.
LEMMA HangsMerge ==
    ASSUME NEW m, NEW N, NEW u \in 1..m, NEW v \in N[u], v \in 1..m, NEW Y \in SUBSET (1..m), NEW Z \in SUBSET (1..m),
           Hangs(m, N, u, Y), Hangs(m, N, v, Z)
    PROVE  Hangs(m, N, u, Y \cup {v} \cup Z)
<1> SUFFICES ASSUME NEW S \in SUBSET (1..m), u \in S,
                    \A w \in S : w \in {u} \cup Y \cup {v} \cup Z => N[w] \cap (Y \cup {v} \cup Z) \subseteq S
             PROVE  Y \cup {v} \cup Z \subseteq S
  BY DEF Hangs
<1>1. Y \subseteq S
  <2>1. \A w \in S : w \in {u} \cup Y => N[w] \cap Y \subseteq S
    OBVIOUS
  <2> QED  BY <2>1 DEF Hangs
<1>2. v \in S
  OBVIOUS
<1>3. Z \subseteq S
  <2>1. \A w \in S : w \in {v} \cup Z => N[w] \cap Z \subseteq S
    OBVIOUS
  <2> QED  BY <1>2, <2>1 DEF Hangs
<1> QED  BY <1>1, <1>2, <1>3

\* What is behind a node is linked to its neighbour without going through a third.
LEMMA LinkedInside ==
    ASSUME NEW m, NEW N, NEW v, NEW Z \in SUBSET (1..m), Hangs(m, N, v, Z), NEW x, x # v, x \notin Z, NEW w \in {v} \cup Z
    PROVE  LinkedBut(m, N, x, v, w)
<1> SUFFICES ASSUME NEW S \in SUBSET (1..m), v \in S, \A y \in S : N[y] \ {x} \subseteq S
             PROVE  w \in S
  BY DEF LinkedBut
<1>1. \A y \in S : y \in {v} \cup Z => N[y] \cap Z \subseteq S
  OBVIOUS
<1> QED  BY <1>1 DEF Hangs

\* A closed piece that holds some neighbours of v and not others is cut off by v.
LEMMA CutOff ==
    ASSUME NEW m, NEW N, NEW u, NEW B \in SUBSET (1..m), \A w \in B : N[w] \ {u} \subseteq B,
           NEW x \in N[u], x \in B, NEW y \in N[u], y \notin B
    PROVE  IsCut(m, N, u)
BY DEF IsCut, LinkedBut

\* If all pieces around v are linked but through v, v does not cut.
LEMMA NoCut ==
    ASSUME NEW m, NEW N, IsGraph(m, N), NEW v \in 1..m, NEW u \in 1..m, u # v,
           \A x \in N[v] : LinkedBut(m, N, v, x, u)
    PROVE  ~IsCut(m, N, v)
<1> SUFFICES ASSUME NEW x \in N[v], NEW y \in N[v]
             PROVE  LinkedBut(m, N, v, x, y)
  BY DEF IsCut
<1>1. x \in 1..m /\ y \in 1..m /\ x # v /\ y # v
  BY DEF IsGraph
<1>2. LinkedBut(m, N, v, u, y)
  BY <1>1, LinkedBack
<1> QED  BY <1>2, LinkedThen

-----------------------------------------------------------------------------
LEMMA OnPath ==
    ASSUME NEW m, NEW N, IsGraph(m, N), NEW L, NEW p, NEW c, NEW d, NEW t, Dfs(m, N, L, p, c, d, t), NEW k \in 1..L
    PROVE  /\ L \in Nat /\ L \in 1..L /\ L >= 1 /\ k \in Nat /\ p[k] \in 1..m /\ d[p[k]] \in 0..m /\ d[p[k]] # m
           /\ \A i \in 1..L : i < k => d[p[i]] < d[p[k]] /\ p[i] # p[k]
           /\ \A i \in 1..L : k < i => d[p[k]] < d[p[i]] /\ p[i] # p[k]
           /\ Zone(m, d, L, p, k) \in SUBSET (1..m)
           /\ \A w \in Zone(m, d, L, p, k) : d[p[k]] < d[w] /\ d[w] # m /\ w # p[k]
           /\ \A i \in 1..L : p[i] \notin Zone(m, d, L, p, k)
<1>1. /\ m \in Nat /\ L \in Nat /\ L \in 1..L /\ L >= 1 /\ k \in Nat
      /\ \A i \in 1..L : p[i] \in 1..m /\ d[p[i]] \in 0..m /\ d[p[i]] # m
  BY DEF IsGraph, Dfs, DfsTypes, IsPath
<1>2. \A i, j \in 1..L : i < j => d[p[i]] < d[p[j]]
  BY DEF Dfs, IsPath
<1>3. \A i, j \in 1..L : i < j => p[i] # p[j]
  BY <1>1, <1>2
<1>4. Zone(m, d, L, p, k) \in SUBSET (1..m) /\ \A w \in Zone(m, d, L, p, k) : d[p[k]] < d[w] /\ d[w] # m
  BY DEF Zone
<1>5. \A w \in Zone(m, d, L, p, k) : w # p[k]
  BY <1>1, <1>4
<1>6. ASSUME NEW i \in 1..L
      PROVE  p[i] \notin Zone(m, d, L, p, k)
  <2>1. CASE i <= k
    <3>1. d[p[i]] <= d[p[k]]
      BY <1>1, <1>2, <2>1
    <3> QED  BY <1>1, <1>4, <3>1
  <2>2. CASE k < i
    <3>1. k + 1 \in 1..L /\ k < L /\ (k + 1 = i \/ k + 1 < i)
      BY <1>1, <2>2
    <3>2. d[p[k + 1]] <= d[p[i]]
      BY <1>1, <1>2, <3>1
    <3>3. ~(d[p[i]] < d[p[k + 1]])
      BY <1>1, <3>1, <3>2
    <3> QED  BY <3>1, <3>3 DEF Zone
  <2> QED  BY <1>1, <2>1, <2>2
<1> QED  BY <1>1, <1>2, <1>3, <1>4, <1>5, <1>6

\* What hangs below the top node leads on to nodes of the path only.
LEMMA BelowTop ==
    ASSUME NEW m, NEW N, IsGraph(m, N), NEW L, NEW p, NEW c, NEW d, NEW t, Dfs(m, N, L, p, c, d, t),
           c[L] = N[p[L]], NEW w \in {p[L]} \cup Zone(m, d, L, p, L), NEW x \in N[w]
    PROVE  x \in {p[L]} \cup Zone(m, d, L, p, L) \/ \E i \in 1..(L - 1) : x = p[i]
<1>1. L \in Nat /\ L >= 1 /\ L \in 1..L
  BY DEF Dfs, DfsTypes
<1>2. CASE w = p[L]
  BY <1>2, ToppedOut
<1>3. CASE w \in Zone(m, d, L, p, L)
  <2>1. x \in Zone(m, d, L, p, L) \/ \E i \in 1..L : x = p[i]
    BY <1>1, <1>3 DEF Dfs, ZoneIsClosed
  <2>2. \A i \in 1..L : i = L \/ i \in 1..(L - 1)
    BY <1>1
  <2> QED  BY <2>1, <2>2
<1> QED  BY <1>2, <1>3

-----------------------------------------------------------------------------
\* A child that reaches back no further than its parent is cut off by it.
LEMMA ChildCuts ==
    ASSUME NEW m, NEW N, IsGraph(m, N), NEW L, NEW p, NEW c, NEW d, NEW t, Dfs(m, N, L, p, c, d, t),
           c[L] = N[p[L]], L > 2, NEW l, l \in [1..m -> 0..m],
           LowIsLeast(N, p, c, d, l, L, Zone(m, d, L, p, L)), l[p[L]] >= d[p[L - 1]]
    PROVE  IsCut(m, N, p[L - 1])
<1> DEFINE B == {p[L]} \cup Zone(m, d, L, p, L)
<1>1. L \in Nat /\ L \in 1..L /\ L - 1 \in 1..L /\ L - 2 \in 1..L /\ m \in Nat
  BY DEF Dfs, DfsTypes, IsGraph
<1>2. B \in SUBSET (1..m)
  BY <1>1, OnPath
<1>3. ASSUME NEW w \in B, NEW x \in N[w], x # p[L - 1]
      PROVE  x \in B
  <2>1. SUFFICES ASSUME x \notin B PROVE FALSE
    OBVIOUS
  <2>2. PICK i \in 1..(L - 1) : x = p[i]
    BY <2>1, BelowTop
  <2>3. i \in 1..L /\ i < L - 1
    BY <1>1, <1>3, <2>2
  <2>4. l[p[L]] <= d[p[i]]
    <3>1. CASE w = p[L]
      BY <1>1, <2>2, <2>3, <3>1 DEF LowIsLeast
    <3>2. CASE w \in Zone(m, d, L, p, L)
      BY <1>1, <2>2, <2>3, <3>2 DEF LowIsLeast
    <3> QED  BY <3>1, <3>2
  <2>5. d[p[i]] < d[p[L - 1]] /\ d[p[i]] \in 0..m /\ d[p[L - 1]] \in 0..m /\ p[L] \in 1..m
    BY <1>1, <2>3, OnPath
  <2>6. l[p[L]] \in 0..m
    BY <2>5
  <2> QED  BY <1>1, <2>4, <2>5, <2>6
<1>4. \A w \in B : N[w] \ {p[L - 1]} \subseteq B
  BY <1>3
<1>5. p[L] \in N[p[L - 1]] /\ p[L - 2] \in N[p[L - 1]]
  <2>1. p[L] \in N[p[L - 1]] /\ p[L - 1] \in N[p[L - 2]]
    <3>1. (L - 1) + 1 = L /\ L - 1 < L /\ (L - 2) + 1 = L - 1 /\ L - 2 < L
      BY <1>1
    <3> QED  BY <1>1, <3>1 DEF Dfs, IsPath
  <2>2. p[L - 2] \in 1..m
    BY <1>1, OnPath
  <2> QED  BY <2>1, <2>2 DEF IsGraph
<1>6. p[L - 2] \notin B
  BY <1>1, OnPath
<1> HIDE DEF B
<1>7. p[L] \in B
  BY DEF B
<1> QED  BY <1>2, <1>4, <1>5, <1>6, <1>7, CutOff

\* A child that reaches back further has its zone linked to the parent of its parent.
LEMMA ChildLinked ==
    ASSUME NEW m, NEW N, IsGraph(m, N), NEW L, NEW p, NEW c, NEW d, NEW t, Dfs(m, N, L, p, c, d, t),
           c[L] = N[p[L]], L > 2, NEW l, l \in [1..m -> 0..m],
           Hangs(m, N, p[L], Zone(m, d, L, p, L)),
           LowIsReal(N, d, l, p[L], Zone(m, d, L, p, L)), l[p[L]] < d[p[L - 1]],
           NEW w \in {p[L]} \cup Zone(m, d, L, p, L)
    PROVE  LinkedBut(m, N, p[L - 1], w, p[L - 2])
<1> DEFINE u == p[L - 1]
           v == p[L]
           Z == Zone(m, d, L, p, L)
<1>1. L \in Nat /\ L \in 1..L /\ L - 1 \in 1..L /\ L - 2 \in 1..L /\ m \in Nat
  BY DEF Dfs, DfsTypes, IsGraph
<1>2. /\ u \in 1..m /\ v \in 1..m /\ u # v /\ Z \in SUBSET (1..m) /\ u \notin Z
      /\ d[u] \in 0..m /\ d[v] \in 0..m /\ d[u] < d[v]
      /\ l[v] \in 0..m
      /\ \A z \in Z : d[v] < d[z] /\ d[z] \in 0..m
  <2>1. \A z \in 1..m : d[z] \in 0..m
    BY DEF Dfs, DfsTypes
  <2> QED  BY <1>1, <2>1, OnPath
<1>3. PICK y \in {v} \cup Z : \E x \in N[y] : d[x] = l[v]
  BY <1>2 DEF LowIsReal
<1>4. PICK x \in N[y] : d[x] = l[v]
  BY <1>3
<1>5. PICK i \in 1..(L - 1) : x = p[i]
  <2>1. x \notin {v} \cup Z
    BY <1>2, <1>4
  <2> QED  BY <2>1, BelowTop
<1>6. i \in Nat /\ i \in 1..L /\ i <= L - 2 /\ x # u
  <2>1. i # L - 1 /\ x # u
    BY <1>2, <1>4, <1>5
  <2> QED  BY <1>1, <1>5, <2>1
<1>7. LinkedBut(m, N, u, v, w) /\ LinkedBut(m, N, u, v, y)
  <2> HIDE DEF u, v, Z
  <2>1. w \in {v} \cup Z
    BY DEF v, Z
  <2>2. Hangs(m, N, v, Z)
    BY DEF v, Z
  <2> QED  BY <1>2, <1>3, <2>1, <2>2, LinkedInside
<1>8. w \in 1..m /\ w # u /\ y \in 1..m
  BY <1>2
<1>9. LinkedBut(m, N, u, y, x)
  BY <1>4, <1>6, <1>8, LinkedStep
<1>10. LinkedBut(m, N, u, x, p[L - 2])
  <2>1. \A k \in i..(L - 2) : p[k] \in 1..m /\ p[k] # u
    <3>1. \A k \in i..(L - 2) : k \in 1..L /\ k < L - 1
      BY <1>1, <1>6
    <3> QED  BY <1>1, <3>1, OnPath
  <2>2. \A k \in i..(L - 2) : k < L - 2 => p[k + 1] \in N[p[k]]
    <3>1. \A k \in i..(L - 2) : k \in 1..L /\ k < L
      BY <1>1, <1>6
    <3> QED  BY <3>1 DEF Dfs, IsPath
  <2>3. L - 2 \in Nat
    BY <1>1
  <2> HIDE DEF u
  <2> QED  BY <1>5, <1>6, <2>1, <2>2, <2>3, LinkedAlong
<1>11. LinkedBut(m, N, u, w, v)
  BY <1>2, <1>7, <1>8, LinkedBack
<1> HIDE DEF u, v, Z
<1>12. LinkedBut(m, N, u, w, y)
  BY <1>7, <1>11, LinkedThen
<1>13. LinkedBut(m, N, u, w, x)
  BY <1>9, <1>12, LinkedThen
<1>14. LinkedBut(m, N, u, w, p[L - 2])
  BY <1>10, <1>13, LinkedThen
<1> QED  BY <1>14 DEF u

\* A node that is done with is in R exactly if it cuts.
LEMMA TopDecided ==
    ASSUME NEW m, NEW N, IsGraph(m, N), NEW L, NEW p, NEW c, NEW d, NEW t, Dfs(m, N, L, p, c, d, t),
           c[L] = N[p[L]], L > 1, NEW R, Judged(m, N, p[L - 1], p[L], R, Zone(m, d, L, p, L))
    PROVE  p[L] \in R <=> IsCut(m, N, p[L])
<1>1. L \in Nat /\ L \in 1..L /\ L - 1 \in 1..L /\ m \in Nat
  BY DEF Dfs, DfsTypes, IsGraph
<1>2. ASSUME p[L] \notin R
      PROVE  ~IsCut(m, N, p[L])
  <2>1. ASSUME NEW x \in N[p[L]]
        PROVE  LinkedBut(m, N, p[L], x, p[L - 1])
    <3>1. CASE x \in Zone(m, d, L, p, L)
      BY <1>2, <3>1 DEF Judged
    <3>2. CASE \E i \in 1..(L - 1) : x = p[i]
      <4>1. PICK i \in 1..(L - 1) : x = p[i]
        BY <3>2
      <4>2. \A k \in i..(L - 1) : k \in 1..L /\ k < L
        BY <1>1
      <4>3. \A k \in i..(L - 1) : p[k] \in 1..m /\ p[k] # p[L]
        BY <1>1, <4>2, OnPath
      <4>4. \A k \in i..(L - 1) : k < L - 1 => p[k + 1] \in N[p[k]]
        BY <4>2 DEF Dfs, IsPath
      <4>5. i \in Nat /\ L - 1 \in Nat /\ i <= L - 1
        BY <1>1
      <4> QED  BY <4>1, <4>3, <4>4, <4>5, LinkedAlong
    <3> QED  BY <3>1, <3>2, ToppedOut
  <2>2. p[L] \in 1..m /\ p[L - 1] \in 1..m /\ p[L - 1] # p[L]
    BY <1>1, OnPath
  <2> QED  BY <2>1, <2>2, NoCut
<1> QED  BY <1>2 DEF Judged

LEMMA RootDecided ==
    ASSUME NEW m, NEW N, IsGraph(m, N), NEW p, NEW c, NEW d, NEW t, Dfs(m, N, 1, p, c, d, t),
           c[1] = N[p[1]], NEW h \in Nat, RootJudged(m, N, p[1], h, Zone(m, d, 1, p, 1))
    PROVE  h > 1 <=> IsCut(m, N, p[1])
<1>1. N[p[1]] \subseteq Zone(m, d, 1, p, 1)
  BY ToppedOut
<1>2. CASE h = 0
  BY <1>1, <1>2 DEF RootJudged, IsCut
<1>3. CASE h = 1
  BY <1>1, <1>3 DEF RootJudged, IsCut
<1>4. CASE h > 1
  BY <1>4 DEF RootJudged
<1> QED  BY <1>2, <1>3, <1>4

\* A further child of the root: with it the root has two pieces, or its first.
LEMMA RootGains ==
    ASSUME NEW m, NEW N, IsGraph(m, N), NEW p, NEW c, NEW d, NEW t, Dfs(m, N, 2, p, c, d, t),
           c[2] = N[p[2]], NEW h \in Nat, RootJudged(m, N, p[1], h, Zone(m, d, 2, p, 1)),
           Hangs(m, N, p[2], Zone(m, d, 2, p, 2))
    PROVE  RootJudged(m, N, p[1], h + 1,
                      Zone(m, d, 2, p, 1) \cup {p[2]} \cup Zone(m, d, 2, p, 2))
<1> DEFINE r == p[1]
           v == p[2]
           Y == Zone(m, d, 2, p, 1)
           Z == Zone(m, d, 2, p, 2)
<1>0. 1 \in 1..2 /\ 2 \in 1..2 /\ \A i \in 1..(2 - 1) : i = 1
  OBVIOUS
<1>1. r \in 1..m /\ v \in 1..m /\ r # v /\ Z \in SUBSET (1..m) /\ r \notin Z /\ v \notin Y
  BY <1>0, OnPath
<1>2. v \in N[r]
  BY <1>0 DEF Dfs, IsPath
<1>3. \A w \in {v} \cup Z : \A x \in N[w] : x \in {v} \cup Z \/ x = r
  BY <1>0, BelowTop
<1>4. \A w \in Z : d[v] < d[w]
  BY <1>0, OnPath
<1>5. \A w \in Y : d[w] < d[v]
  BY <1>0 DEF Zone
<1>6. Hangs(m, N, v, Z) /\ RootJudged(m, N, r, h, Y)
  OBVIOUS
<1>7. \A w \in Y : w \in 1..m /\ d[w] \in 0..m /\ d[v] \in 0..m
  BY <1>0, <1>1 DEF Dfs, DfsTypes, Zone
<1>8. m \in Nat /\ \A w \in Z : d[w] \in 0..m
  BY <1>1 DEF Dfs, DfsTypes, IsGraph
<1> HIDE DEF r, v, Y, Z
<1>9. \A w \in {v} \cup Z : LinkedBut(m, N, r, v, w) /\ LinkedBut(m, N, r, w, v)
  <2> SUFFICES ASSUME NEW w \in {v} \cup Z
               PROVE  LinkedBut(m, N, r, v, w) /\ LinkedBut(m, N, r, w, v)
    OBVIOUS
  <2>1. LinkedBut(m, N, r, v, w)
    BY <1>1, <1>6, LinkedInside
  <2>2. w \in 1..m /\ w # r
    BY <1>1
  <2> QED  BY <1>1, <2>1, <2>2, LinkedBack
<1>10. \A x, y \in {v} \cup Z : LinkedBut(m, N, r, x, y)
  BY <1>9, LinkedThen
<1>11. CASE h = 0
  <2>1. Y \cup {v} \cup Z = {v} \cup Z
    BY <1>6, <1>11 DEF RootJudged
  <2>2. RootJudged(m, N, r, 1, {v} \cup Z)
    BY <1>2, <1>10 DEF RootJudged
  <2>3. h + 1 = 1
    BY <1>11
  <2>4. RootJudged(m, N, r, h + 1, Y \cup {v} \cup Z)
    BY <2>1, <2>2, <2>3
  <2> QED  BY <2>4 DEF r, v, Y, Z
<1>12. CASE h > 0
  <2>1. PICK x \in Y : x \in N[r]
    BY <1>6, <1>12 DEF RootJudged
  <2>2. x \notin {v} \cup Z
    BY <1>1, <1>4, <1>5, <1>7, <1>8
  <2>3. \A w \in {v} \cup Z : N[w] \ {r} \subseteq {v} \cup Z
    BY <1>3
  <2>4. IsCut(m, N, r)
    <3> DEFINE B == {v} \cup Z
    <3>1. B \in SUBSET (1..m) /\ v \in B /\ x \notin B /\ \A w \in B : N[w] \ {r} \subseteq B
      BY <1>1, <2>2, <2>3
    <3> HIDE DEF B
    <3> QED  BY <1>2, <2>1, <3>1, CutOff
  <2>5. RootJudged(m, N, r, h + 1, Y \cup {v} \cup Z)
    BY <1>2, <1>12, <2>4 DEF RootJudged
  <2> QED  BY <2>5 DEF r, v, Y, Z
<1> QED  BY <1>11, <1>12

-----------------------------------------------------------------------------
(***************************************************************************)
(* The invariant of the search within a tree.  It is not enough that nodes *)
(* done with are marked rightly: whether a node is, is decided by the low  *)
(* point of a child when that returns, so every node of the path carries   *)
(* what its low point and mark say of the zone behind it.                  *)
(***************************************************************************)
NodeInv(m, N, p, c, d, l, R, k, Z) ==
    /\ Hangs(m, N, p[k], Z) /\ LowIsReal(N, d, l, p[k], Z) /\ LowIsLeast(N, p, c, d, l, k, Z)
    /\ k > 1 => Judged(m, N, p[k - 1], p[k], R, Z)

Decided(m, N, L, p, d, R, w) ==
    /\ d[w] = m => w \notin R
    /\ d[w] # m /\ (\A k \in 1..L : w # p[k]) => (w \in R <=> IsCut(m, N, w))

TreeInv(m, N, L, p, c, d, l, t, R, h) ==
    /\ Dfs(m, N, L, p, c, d, t)
    /\ l \in [1..m -> 0..m] /\ R \in SUBSET (1..m) /\ h \in Nat
    /\ \A k \in 1..L : NodeInv(m, N, p, c, d, l, R, k, Zone(m, d, L, p, k))
    /\ RootJudged(m, N, p[1], h, Zone(m, d, L, p, 1))
    /\ \A w \in 1..m : Decided(m, N, L, p, d, R, w)

\* The invariant within a tree: when a neighbour is found and pushed,
LEMMA TreePush ==
    ASSUME NEW m, NEW N, IsGraph(m, N), NEW L, NEW p, NEW c, NEW d, NEW l, NEW t, NEW R, NEW h,
           TreeInv(m, N, L, p, c, d, l, t, R, h),
           t < m, NEW w \in N[p[L]], d[w] = m, NEW q, NEW e, Pushed(m, L, p, c, q, e, w),
           NEW f, Found(m, d, w, t, f), NEW g, Found(m, l, w, t, g)
    PROVE  TreeInv(m, N, L + 1, q, e, f, g, t + 1, R, h)
<1>0. /\ m \in Nat /\ L \in Nat /\ L \in 1..L /\ L >= 1 /\ 1 \in 1..L /\ w \in 1..m /\ t \in 0..m
      /\ \A v \in 1..m : d[v] \in 0..m /\ f[v] = IF v = w THEN t ELSE d[v]
      /\ \A v \in 1..m : l[v] \in 0..m /\ g[v] = IF v = w THEN t ELSE l[v]
      /\ \A v \in 1..m : N[v] \subseteq 1..m
      /\ Dfs(m, N, L, p, c, d, t)
  <2>1. Dfs(m, N, L, p, c, d, t) /\ l \in [1..m -> 0..m]
    BY DEF TreeInv
  <2>2. m \in Nat /\ \A v \in 1..m : N[v] \subseteq 1..m
    BY DEF IsGraph
  <2>3. L \in Nat /\ L >= 1 /\ L \in 1..L /\ 1 \in 1..L /\ p[L] \in 1..m /\ t \in 0..m /\ d \in [1..m -> 0..m]
    BY <2>1 DEF Dfs, DfsTypes
  <2>4. /\ \A v \in 1..m : f[v] = IF v = w THEN t ELSE d[v]
        /\ \A v \in 1..m : g[v] = IF v = w THEN t ELSE l[v]
    BY DEF Found
  <2> QED  BY <2>1, <2>2, <2>3, <2>4
<1>1. \A k \in 1..L : /\ q[k] = p[k] /\ p[k] \in 1..m /\ d[p[k]] # m /\ p[k] # w
                       /\ f[p[k]] = d[p[k]] /\ g[p[k]] = l[p[k]]
                       /\ e[k] = IF k = L THEN c[k] \cup {w} ELSE c[k]
  BY <1>0 DEF Dfs, DfsTypes, IsPath, Pushed, Added
<1>2. q[L + 1] = w /\ e[L + 1] = {} /\ f[w] = t /\ g[w] = t
  BY <1>0 DEF Pushed, Added
<1>3. /\ \A k \in 1..L : Zone(m, f, L + 1, q, k) = Zone(m, d, L, p, k)
      /\ Zone(m, f, L + 1, q, L + 1) = {}
  BY <1>0, PushedZones
<1>4. Dfs(m, N, L + 1, q, e, f, t + 1)
  BY <1>0, PushedDfs
<1>5. g \in [1..m -> 0..m] /\ R \in SUBSET (1..m) /\ h \in Nat
  BY DEF TreeInv, Found
<1>6. ASSUME NEW k \in 1..L
      PROVE  NodeInv(m, N, q, e, f, g, R, k, Zone(m, f, L + 1, q, k))
  <2> DEFINE Z == Zone(m, d, L, p, k)
  <2>1. NodeInv(m, N, p, c, d, l, R, k, Z)
    BY DEF TreeInv
  <2>2. Zone(m, f, L + 1, q, k) = Z /\ Z \in SUBSET (1..m)
    BY <1>3 DEF Zone
  <2> HIDE DEF Z
  <2>3. Hangs(m, N, q[k], Z)
    BY <1>1, <2>1 DEF NodeInv
  <2>4. LowIsReal(N, f, g, q[k], Z)
    <3>1. g[q[k]] = l[p[k]] /\ f[q[k]] = d[p[k]] /\ q[k] = p[k] /\ p[k] \in 1..m /\ d[p[k]] # m
      BY <1>1
    <3>2. l[p[k]] <= d[p[k]] /\ (l[p[k]] = d[p[k]] \/ \E v \in {p[k]} \cup Z : \E x \in N[v] : d[x] = l[p[k]])
      BY <2>1 DEF NodeInv, LowIsReal
    <3>3. ASSUME NEW v \in {p[k]} \cup Z, NEW x \in N[v], d[x] = l[p[k]]
          PROVE  f[x] = l[p[k]]
      <4>0. v \in 1..m
        BY <2>2, <3>1
      <4>3. d[p[k]] \in 0..m /\ l[p[k]] \in 0..m
        BY <1>0, <3>1
      <4>1. x \in 1..m /\ l[p[k]] # m
        <5>1. x \in 1..m /\ m \in Nat
          BY <1>0, <4>0
        <5>2. l[p[k]] <= d[p[k]] /\ d[p[k]] # m
          BY <3>1, <3>2
        <5> QED  BY ONLY <4>3, <5>1, <5>2
      <4>2. x # w
        BY <3>3, <4>1
      <4> QED  BY <1>0, <3>3, <4>1, <4>2
    <3> QED  BY <3>1, <3>2, <3>3 DEF LowIsReal
  <2>5. LowIsLeast(N, q, e, f, g, k, Z)
    <3> SUFFICES ASSUME NEW i \in 1..(k - 1), (\E v \in Z : q[i] \in N[v]) \/ (q[i] \in e[k] /\ i < k - 1)
                 PROVE  g[q[k]] <= f[q[i]]
      BY DEF LowIsLeast
    <3>1. i \in 1..L
      BY <1>0
    <3>4. q[i] = p[i] /\ p[i] # w
      BY <1>1, <3>1
    <3>5. q[i] \in e[k] => p[i] \in c[k]
      BY <1>1, <3>4
    <3>2. (\E v \in Z : p[i] \in N[v]) \/ (p[i] \in c[k] /\ i < k - 1)
      BY <3>4, <3>5
    <3>3. l[p[k]] <= d[p[i]]
      BY <2>1, <3>2 DEF NodeInv, LowIsLeast
    <3> QED  BY <1>1, <3>1, <3>3
  <2>6. ASSUME k > 1
        PROVE  Judged(m, N, q[k - 1], q[k], R, Z)
    <3>1. k - 1 \in 1..L
      BY <1>0, <2>6
    <3> QED  BY <1>1, <2>1, <2>6, <3>1 DEF NodeInv
  <2> QED  BY <2>2, <2>3, <2>4, <2>5, <2>6 DEF NodeInv
<1>7. NodeInv(m, N, q, e, f, g, R, L + 1, {})
  <2>1. Hangs(m, N, w, {})
    BY DEF Hangs
  <2>2. LowIsReal(N, f, g, w, {})
    BY <1>0, <1>2 DEF LowIsReal
  <2>3. LowIsLeast(N, q, e, f, g, L + 1, {})
    BY <1>2 DEF LowIsLeast
  <2>4. w \notin R
    BY <1>0 DEF TreeInv, Decided
  <2>5. Judged(m, N, q[(L + 1) - 1], w, R, {})
    BY <2>4 DEF Judged
  <2> QED  BY <1>2, <2>1, <2>2, <2>3, <2>5 DEF NodeInv
<1>8. ASSUME NEW k \in 1..(L + 1)
      PROVE  NodeInv(m, N, q, e, f, g, R, k, Zone(m, f, L + 1, q, k))
  <2>1. k \in 1..L \/ k = L + 1
    BY <1>0
  <2> QED  BY <1>3, <1>6, <1>7, <2>1
<1>9. RootJudged(m, N, q[1], h, Zone(m, f, L + 1, q, 1))
  BY <1>0, <1>1, <1>3 DEF TreeInv
<1>10. ASSUME NEW v \in 1..m
       PROVE  Decided(m, N, L + 1, q, f, R, v)
  <2>0. Decided(m, N, L, p, d, R, v)
    BY DEF TreeInv
  <2>1. CASE v = w
    <3>1. ~ \A k \in 1..(L + 1) : v # q[k]
      BY <1>0, <1>2, <2>1
    <3> QED  BY <1>0, <2>0, <2>1, <3>1 DEF Decided
  <2>2. CASE v # w
    <3>1. f[v] = d[v] /\ ((\A k \in 1..(L + 1) : v # q[k]) => \A k \in 1..L : v # p[k])
      <4>1. \A k \in 1..L : k \in 1..(L + 1)
        BY <1>0
      <4> QED  BY <1>0, <1>1, <2>2, <4>1
    <3> QED  BY <2>0, <3>1 DEF Decided
  <2> QED  BY <2>1, <2>2
<1> QED  BY <1>4, <1>5, <1>8, <1>9, <1>10 DEF TreeInv

-----------------------------------------------------------------------------
Lowered(m, v, to, l, g) ==
    g \in [1..m -> 0..m] /\ \A x \in 1..m : g[x] = IF x = v /\ to < l[v] THEN to ELSE l[x]

LowerAt(m, v, to, l, g) ==
    /\ g \in [1..m -> 0..m] /\ g[v] <= to
    /\ \A x \in 1..m : l[x] \in 0..m /\ g[x] \in 0..m /\ g[x] <= l[x] /\ (x # v => g[x] = l[x])
    /\ g[v] = l[v] \/ (g[v] = to /\ to < l[v])

LEMMA LoweredIs ==
    ASSUME NEW m \in Nat, NEW v \in 1..m, NEW to \in 0..m, NEW l \in [1..m -> 0..m], NEW g, Lowered(m, v, to, l, g)
    PROVE  LowerAt(m, v, to, l, g)
<1>1. g \in [1..m -> 0..m] /\ \A x \in 1..m : g[x] = IF x = v /\ to < l[v] THEN to ELSE l[x]
  BY DEF Lowered
<1>2. \A x \in 1..m : l[x] \in 0..m /\ g[x] \in 0..m
  BY <1>1
<1>3. ASSUME NEW x \in 1..m
      PROVE  g[x] <= l[x] /\ (x # v => g[x] = l[x])
  BY <1>1, <1>2
<1>4. g[v] = IF to < l[v] THEN to ELSE l[v]
  BY <1>1
<1>5. g[v] <= to /\ (g[v] = l[v] \/ (g[v] = to /\ to < l[v]))
  <2>1. l[v] \in 0..m
    BY <1>2
  <2>2. CASE to < l[v]
    BY <1>4, <2>1, <2>2
  <2>3. CASE ~(to < l[v])
    BY <1>4, <2>1, <2>3
  <2> QED  BY <2>2, <2>3
<1> QED  BY <1>1, <1>2, <1>3, <1>5 DEF LowerAt

LooksBack(m, L, p, d, w, l, g) ==
    IF L > 1 /\ w = p[L - 1] THEN g = l ELSE Lowered(m, p[L], d[w], l, g)

\* when a neighbour found before lowers the low point,
LEMMA TreeLook ==
    ASSUME NEW m, NEW N, IsGraph(m, N), NEW L, NEW p, NEW c, NEW d, NEW l, NEW t, NEW R, NEW h,
           TreeInv(m, N, L, p, c, d, l, t, R, h),
           NEW w \in N[p[L]], d[w] # m,
           NEW e \in [1..L -> SUBSET (1..m)], Added(L, c, w, e),
           NEW g, LooksBack(m, L, p, d, w, l, g)
    PROVE  TreeInv(m, N, L, p, e, d, g, t, R, h)
<1>0. Dfs(m, N, L, p, c, d, t) /\ l \in [1..m -> 0..m]
  BY DEF TreeInv
<1>1. /\ L \in Nat /\ L >= 1 /\ L \in 1..L /\ p[L] \in 1..m /\ d[p[L]] \in 0..m
      /\ \A v \in 1..m : d[v] \in 0..m /\ l[v] \in 0..m
      /\ \A k \in 1..L : p[k] \in 1..m
  <2>1. L \in Nat /\ L >= 1 /\ p \in [1..L -> 1..m] /\ d \in [1..m -> 0..m]
    BY <1>0 DEF Dfs, DfsTypes
  <2>2. L \in 1..L
    BY <2>1
  <2> QED  BY <1>0, <2>1, <2>2
<1>2. w \in 1..m /\ p[L] \in N[w] /\ m \in Nat
  BY <1>1 DEF IsGraph
<1>3. Dfs(m, N, L, p, e, d, t)
  BY <1>0, <1>2, LookedDfs
<1>4. /\ g \in [1..m -> 0..m]
      /\ \A v \in 1..m : g[v] <= l[v] /\ g[v] \in 0..m /\ (v # p[L] => g[v] = l[v])
      /\ g[p[L]] = l[p[L]] \/ (g[p[L]] = d[w] /\ d[w] < l[p[L]])
      /\ ~(L > 1 /\ w = p[L - 1]) => g[p[L]] <= d[w]
  <2>1. CASE L > 1 /\ w = p[L - 1]
    <3>1. g = l
      BY <2>1 DEF LooksBack
    <3>2. \A v \in 1..m : l[v] <= l[v]
      BY <1>1, <1>2
    <3>3. \A v \in 1..m : g[v] <= l[v] /\ g[v] \in 0..m /\ g[v] = l[v]
      BY <1>1, <3>1, <3>2
    <3>4. g \in [1..m -> 0..m] /\ g[p[L]] = l[p[L]]
      BY <1>0, <3>1
    <3> QED  BY <2>1, <3>3, <3>4
  <2>2. CASE ~(L > 1 /\ w = p[L - 1])
    <3>1. Lowered(m, p[L], d[w], l, g) /\ d[w] \in 0..m
      BY <1>1, <1>2, <2>2 DEF LooksBack
    <3>2. /\ g \in [1..m -> 0..m] /\ g[p[L]] <= d[w]
          /\ \A v \in 1..m : l[v] \in 0..m /\ g[v] \in 0..m /\ g[v] <= l[v] /\ (v # p[L] => g[v] = l[v])
          /\ g[p[L]] = l[p[L]] \/ (g[p[L]] = d[w] /\ d[w] < l[p[L]])
      <4> DEFINE last == p[L]
                 to == d[w]
      <4>1. last \in 1..m /\ to \in 0..m /\ m \in Nat /\ l \in [1..m -> 0..m] /\ Lowered(m, last, to, l, g)
        BY <1>0, <1>1, <1>2, <3>1
      <4> HIDE DEF last, to
      <4>2. LowerAt(m, last, to, l, g)
        BY ONLY <4>1, LoweredIs
      <4> QED  BY ONLY <4>2 DEF LowerAt, last, to
    <3> QED  BY <3>2
  <2> QED  BY <2>1, <2>2
<1>7. ASSUME NEW k \in 1..L
      PROVE  NodeInv(m, N, p, e, d, g, R, k, Zone(m, d, L, p, k))
  <2> DEFINE Z == Zone(m, d, L, p, k)
  <2>1. NodeInv(m, N, p, c, d, l, R, k, Z)
    BY DEF TreeInv
  <2> HIDE DEF Z
  <2>2. CASE k # L
    <3>1. g[p[k]] = l[p[k]] /\ e[k] = c[k]
      <4>1. p[k] # p[L]
        BY <1>0, <1>1, <2>2, OnPath
      <4> QED  BY <1>1, <1>4, <2>2, <4>1 DEF Added
    <3>2. LowIsReal(N, d, g, p[k], Z)
      BY <2>1, <3>1 DEF NodeInv, LowIsReal
    <3>3. LowIsLeast(N, p, e, d, g, k, Z)
      BY <2>1, <3>1 DEF NodeInv, LowIsLeast
    <3> QED  BY <2>1, <3>2, <3>3 DEF NodeInv, Z
  <2>3. CASE k = L
    <3>1. LowIsReal(N, d, g, p[L], Z)
      <4>1. l[p[L]] <= d[p[L]] /\ (l[p[L]] = d[p[L]] \/ \E v \in {p[L]} \cup Z : \E x \in N[v] : d[x] = l[p[L]])
        BY <2>1, <2>3 DEF NodeInv, LowIsReal
      <4>2. g[p[L]] <= d[p[L]]
        <5>1. l[p[L]] \in 0..m /\ g[p[L]] \in 0..m /\ g[p[L]] <= l[p[L]]
          BY <1>1, <1>4
        <5> QED  BY <1>1, <4>1, <5>1
      <4>3. CASE g[p[L]] = l[p[L]]
        BY <4>1, <4>3 DEF LowIsReal
      <4>4. CASE g[p[L]] = d[w]
        BY <4>2, <4>4 DEF LowIsReal
      <4> QED  BY <1>4, <4>3, <4>4
    <3>2. LowIsLeast(N, p, e, d, g, L, Z)
      <4> SUFFICES ASSUME NEW i \in 1..(L - 1), (\E v \in Z : p[i] \in N[v]) \/ (p[i] \in e[L] /\ i < L - 1)
                   PROVE  g[p[L]] <= d[p[i]]
        BY DEF LowIsLeast
      <4>1. i \in 1..L /\ p[i] \in 1..m
        BY <1>1
      <4>2. CASE (\E v \in Z : p[i] \in N[v]) \/ (p[i] \in c[L] /\ i < L - 1)
        <5>1. l[p[L]] <= d[p[i]]
          BY <2>1, <2>3, <4>2 DEF NodeInv, LowIsLeast
        <5>2. g[p[L]] <= l[p[L]] /\ g[p[L]] \in 0..m /\ l[p[L]] \in 0..m /\ d[p[i]] \in 0..m
          BY <1>1, <1>4, <4>1
        <5> QED  BY <5>1, <5>2
      <4>3. CASE p[i] = w /\ i < L - 1
        <5>1. L - 1 \in 1..L
          BY <1>1, <4>3
        <5>2. p[i] # p[L - 1]
          BY <1>0, <4>1, <4>3, <5>1, OnPath
        <5> QED  BY <1>4, <4>3, <5>2
      <4>4. e[L] = c[L] \cup {w}
        BY <1>1 DEF Added
      <4> QED  BY <4>2, <4>3, <4>4
    <3> QED  BY <2>1, <2>3, <3>1, <3>2 DEF NodeInv, Z
  <2> QED  BY <2>2, <2>3
<1> QED  BY <1>3, <1>4, <1>7 DEF TreeInv

\* and when a node is popped and its parent is lowered and perhaps marked.
LEMMA TreePop ==
    ASSUME NEW m, NEW N, IsGraph(m, N), NEW L, NEW p, NEW c, NEW d, NEW l, NEW t, NEW R, NEW h,
           TreeInv(m, N, L, p, c, d, l, t, R, h),
           c[L] = N[p[L]], NEW q, NEW e, Popped(m, L, p, c, q, e),
           NEW g, Lowered(m, p[L - 1], l[p[L]], l, g),
           NEW T, T = IF L > 2 /\ l[p[L]] >= d[p[L - 1]] THEN R \cup {p[L - 1]} ELSE R
    PROVE  TreeInv(m, N, L - 1, q, e, d, g, t, T, IF L = 2 THEN h + 1 ELSE h)
<1> DEFINE u == p[L - 1]
           v == p[L]
           Y == Zone(m, d, L, p, L - 1)
           Z == Zone(m, d, L, p, L)
           H == IF L = 2 THEN h + 1 ELSE h
<1>0. Dfs(m, N, L, p, c, d, t) /\ l \in [1..m -> 0..m] /\ R \in SUBSET (1..m) /\ h \in Nat
  BY DEF TreeInv
<1>1. /\ L \in Nat /\ L > 1 /\ L \in 1..L /\ L - 1 \in 1..L /\ 1 \in 1..(L - 1) /\ m \in Nat
      /\ \A x \in 1..m : d[x] \in 0..m /\ l[x] \in 0..m
      /\ \A k \in 1..L : p[k] \in 1..m
      /\ \A k \in 1..(L - 1) : k \in 1..L /\ q[k] = p[k] /\ e[k] = c[k]
  <2>1. L \in Nat /\ L > 1 /\ p \in [1..L -> 1..m] /\ d \in [1..m -> 0..m]
    BY <1>0 DEF Dfs, DfsTypes, Popped
  <2>2. m \in Nat /\ \A k \in 1..(L - 1) : q[k] = p[k] /\ e[k] = c[k]
    BY DEF IsGraph, Popped
  <2>3. L \in 1..L /\ L - 1 \in 1..L /\ 1 \in 1..(L - 1) /\ \A k \in 1..(L - 1) : k \in 1..L
    BY <2>1
  <2> QED  BY <1>0, <2>1, <2>2, <2>3
<1>2. Dfs(m, N, L - 1, q, e, d, t)
  BY <1>0, PoppedDfs
<1>3. /\ \A k \in 1..(L - 2) : Zone(m, d, L - 1, q, k) = Zone(m, d, L, p, k)
      /\ Zone(m, d, L - 1, q, L - 1) = Y \cup {v} \cup Z
  BY <1>0, PoppedZones
<1>4. /\ u \in 1..m /\ v \in 1..m /\ u # v /\ d[u] < d[v] /\ v \in N[u] /\ u \in N[v]
      /\ Y \in SUBSET (1..m) /\ Z \in SUBSET (1..m)
      /\ \A k \in 1..(L - 2) : p[k] # u /\ p[k] # v
  <2>1. p[(L - 1) + 1] \in N[p[L - 1]]
    BY <1>0, <1>1 DEF Dfs, IsPath
  <2>2. v \in N[u]
    BY <1>1, <2>1
  <2>3. \A k \in 1..(L - 2) : k \in 1..L /\ k < L - 1 /\ k < L
    BY <1>1
  <2>4. L - 1 < L
    BY <1>1
  <2>5. u \in 1..m /\ v \in 1..m /\ u # v /\ d[u] < d[v] /\ Y \in SUBSET (1..m) /\ Z \in SUBSET (1..m)
    <3>1. u \in 1..m /\ v \in 1..m
      BY <1>1
    <3>2. \A i, k \in 1..L : i < k => d[p[i]] < d[p[k]]
      BY <1>0 DEF Dfs, IsPath
    <3>3. d[u] < d[v]
      BY <1>1, <2>4, <3>2
    <3>4. d[u] \in 0..m /\ d[v] \in 0..m
      BY <1>1, <3>1
    <3>5. v # u
      BY <3>3, <3>4
    <3> QED  BY <3>1, <3>3, <3>5 DEF Zone
  <2>6. u \in N[v]
    BY <2>2, <2>5 DEF IsGraph
  <2>7. \A k \in 1..(L - 2) : p[k] # u /\ p[k] # v
    BY <1>0, <1>1, <2>3, OnPath
  <2> QED  BY <2>2, <2>5, <2>6, <2>7
<1>5. /\ g \in [1..m -> 0..m]
      /\ \A x \in 1..m : g[x] <= l[x] /\ g[x] \in 0..m /\ (x # u => g[x] = l[x])
      /\ g[u] <= l[v] /\ (g[u] = l[u] \/ (g[u] = l[v] /\ l[v] < l[u]))
  <2> DEFINE a == l[v]
  <2>1. Lowered(m, u, a, l, g) /\ a \in 0..m
    BY <1>1, <1>4
  <2>2. l \in [1..m -> 0..m] /\ m \in Nat /\ u \in 1..m
    BY <1>0, <1>1, <1>4
  <2> HIDE DEF u, v, a, Y, Z, H
  <2>3. LowerAt(m, u, a, l, g)
    BY ONLY <2>1, <2>2, LoweredIs
  <2> QED  BY ONLY <2>3 DEF LowerAt, a
<1>6. /\ NodeInv(m, N, p, c, d, l, R, L, Z) /\ NodeInv(m, N, p, c, d, l, R, L - 1, Y)
      /\ RootJudged(m, N, p[1], h, Zone(m, d, L, p, 1))
  BY <1>1 DEF TreeInv
<1>7. T \in SUBSET (1..m) /\ \A x \in 1..m : x # u => (x \in T <=> x \in R)
  BY <1>0, <1>4
<1>8. ASSUME NEW k \in 1..(L - 2)
      PROVE  NodeInv(m, N, q, e, d, g, T, k, Zone(m, d, L, p, k))
  <2>1. NodeInv(m, N, p, c, d, l, R, k, Zone(m, d, L, p, k))
    BY <1>1 DEF TreeInv
  <2>2. k \in 1..(L - 1) /\ \A i \in 1..(k - 1) : i \in 1..(L - 1)
    BY <1>1
  <2>3. q[k] = p[k] /\ e[k] = c[k] /\ p[k] \in 1..m /\ g[p[k]] = l[p[k]] /\ (p[k] \in T <=> p[k] \in R)
    BY <1>1, <1>4, <1>5, <1>7, <2>2
  <2>4. LowIsReal(N, d, g, q[k], Zone(m, d, L, p, k))
    BY <2>1, <2>3 DEF NodeInv, LowIsReal
  <2>5. LowIsLeast(N, q, e, d, g, k, Zone(m, d, L, p, k))
    BY <1>1, <2>1, <2>2, <2>3 DEF NodeInv, LowIsLeast
  <2>6. ASSUME k > 1
        PROVE  Judged(m, N, q[k - 1], q[k], T, Zone(m, d, L, p, k))
    <3>1. q[k - 1] = p[k - 1]
      BY <1>1, <2>2, <2>6
    <3> QED  BY <2>1, <2>3, <2>6, <3>1 DEF NodeInv, Judged
  <2> QED  BY <2>1, <2>3, <2>4, <2>5, <2>6 DEF NodeInv
<1>9. NodeInv(m, N, q, e, d, g, T, L - 1, Y \cup {v} \cup Z)
  <2>0. q[L - 1] = u /\ e[L - 1] = c[L - 1] /\ l[v] \in 0..m /\ l[u] \in 0..m /\ g[u] \in 0..m
    BY <1>1, <1>4, <1>5
  <2>1. Hangs(m, N, u, Y \cup {v} \cup Z)
    <3>1. Hangs(m, N, u, Y) /\ Hangs(m, N, v, Z)
      BY <1>6 DEF NodeInv
    <3> HIDE DEF u, v, Y, Z
    <3> QED  BY <1>4, <3>1, HangsMerge
  <2>2. LowIsReal(N, d, g, u, Y \cup {v} \cup Z)
    <3>1. l[u] <= d[u] /\ (l[u] = d[u] \/ \E w \in {u} \cup Y : \E x \in N[w] : d[x] = l[u])
      BY <1>6 DEF NodeInv, LowIsReal
    <3>2. l[v] = d[v] \/ \E w \in {v} \cup Z : \E x \in N[w] : d[x] = l[v]
      BY <1>6 DEF NodeInv, LowIsReal
    <3>3. d[u] \in 0..m /\ d[v] \in 0..m
      BY <1>1, <1>4
    <3>4. g[u] <= d[u]
      BY <1>5, <2>0, <3>1, <3>3
    <3> HIDE DEF u, v, Y, Z
    <3>5. CASE g[u] = l[u]
      BY <3>1, <3>5 DEF LowIsReal
    <3>6. CASE g[u] = l[v] /\ l[v] < l[u]
      <4>1. l[v] # d[v]
        BY <1>4, <2>0, <3>1, <3>3, <3>6
      <4> QED  BY <3>2, <3>4, <3>6, <4>1 DEF LowIsReal
    <3> QED  BY <1>5, <3>5, <3>6
  <2>3. LowIsLeast(N, q, e, d, g, L - 1, Y \cup {v} \cup Z)
    <3> SUFFICES ASSUME NEW i \in 1..((L - 1) - 1),
                        \/ \E w \in Y \cup {v} \cup Z : q[i] \in N[w]
                        \/ q[i] \in e[L - 1] /\ i < (L - 1) - 1
                 PROVE  g[q[L - 1]] <= d[q[i]]
      BY DEF LowIsLeast
    <3>1. i \in 1..(L - 1) /\ q[i] = p[i] /\ i < L - 1 /\ d[p[i]] \in 0..m
      BY <1>1
    <3>2. CASE (\E w \in Y : p[i] \in N[w]) \/ (p[i] \in c[L - 1] /\ i < (L - 1) - 1)
      <4>1. l[u] <= d[p[i]]
        BY <1>6, <3>2 DEF NodeInv, LowIsLeast
      <4> QED  BY <1>4, <1>5, <2>0, <3>1, <4>1
    <3>3. CASE p[i] \in N[v] \/ \E w \in Z : p[i] \in N[w]
      <4>1. l[v] <= d[p[i]]
        BY <1>6, <3>1, <3>3 DEF NodeInv, LowIsLeast
      <4> QED  BY <1>4, <1>5, <2>0, <3>1, <4>1
    <3> QED  BY <2>0, <3>1, <3>2, <3>3
  <2>4. ASSUME L - 1 > 1
        PROVE  Judged(m, N, q[(L - 1) - 1], u, T, Y \cup {v} \cup Z)
    <3>1. L > 2 /\ (L - 1) - 1 = L - 2 /\ L - 2 \in 1..(L - 1)
      BY <1>1, <2>4
    <3>2. q[(L - 1) - 1] = p[L - 2]
      BY <1>1, <3>1
    <3>3. Judged(m, N, p[(L - 1) - 1], u, R, Y)
      BY <1>6, <2>4 DEF NodeInv
    <3>4. CASE l[v] >= d[u]
      <4>1. LowIsLeast(N, p, c, d, l, L, Z)
        BY <1>6 DEF NodeInv
      <4>2. IsCut(m, N, u)
        BY <1>0, <3>1, <3>4, <4>1, ChildCuts
      <4>3. u \in T
        BY <3>1, <3>4
      <4> QED  BY <4>2, <4>3 DEF Judged
    <3>5. CASE l[v] < d[u]
      <4>1. T = R
        BY <1>1, <1>4, <2>0, <3>5
      <4>2. Hangs(m, N, v, Z) /\ LowIsReal(N, d, l, v, Z)
        BY <1>6 DEF NodeInv
      <4>3. \A w \in {v} \cup Z : LinkedBut(m, N, u, w, p[L - 2])
        BY <1>0, <3>1, <3>5, <4>2, ChildLinked
      <4> HIDE DEF u, v, Y, Z
      <4> QED  BY <3>1, <3>2, <3>3, <4>1, <4>3 DEF Judged
    <3>6. d[u] \in 0..m
      BY <1>1, <1>4
    <3> QED  BY <2>0, <3>4, <3>5, <3>6
  <2> QED  BY <2>0, <2>1, <2>2, <2>3, <2>4 DEF NodeInv
<1>10. RootJudged(m, N, q[1], H, Zone(m, d, L - 1, q, 1))
  <2>1. CASE L = 2
    <3>1. Hangs(m, N, v, Z)
      BY <1>6 DEF NodeInv
    <3>2. RootJudged(m, N, p[1], h + 1, Zone(m, d, 2, p, 1) \cup {p[2]} \cup Zone(m, d, 2, p, 2))
      <4>1. Dfs(m, N, 2, p, c, d, t)
        BY ONLY <1>0, <2>1
      <4>2. RootJudged(m, N, p[1], h, Zone(m, d, 2, p, 1))
        BY ONLY <1>6, <2>1
      <4>3. Hangs(m, N, p[2], Zone(m, d, 2, p, 2))
        BY ONLY <2>1, <3>1
      <4>4. IsGraph(m, N) /\ c[2] = N[p[2]] /\ h \in Nat
        BY <1>0, <2>1
      <4> QED  BY ONLY <4>1, <4>2, <4>3, <4>4, RootGains
    <3>3. L - 1 = 1 /\ H = h + 1
      BY ONLY <2>1
    <3>4. q[1] = p[1]
      BY <1>1
    <3>5. Zone(m, d, L - 1, q, 1) = Zone(m, d, 2, p, 1) \cup {p[2]} \cup Zone(m, d, 2, p, 2)
      BY ONLY <1>3, <2>1, <3>3
    <3> HIDE DEF H
    <3> QED  BY ONLY <3>2, <3>3, <3>4, <3>5
  <2>2. CASE L # 2
    <3>1. 1 \in 1..(L - 2)
      BY <1>1, <2>2
    <3> QED  BY <1>1, <1>3, <1>6, <2>2, <3>1
  <2> QED  BY <2>1, <2>2
<1>11. ASSUME NEW w \in 1..m
       PROVE  Decided(m, N, L - 1, q, d, T, w)
  <2>0. Decided(m, N, L, p, d, R, w)
    BY DEF TreeInv
  <2>1. CASE w = u
    <3>1. q[L - 1] = w /\ L - 1 \in 1..(L - 1) /\ d[w] # m
      BY <1>0, <1>1, <2>1, OnPath
    <3> QED  BY <3>1 DEF Decided
  <2>2. CASE w = v
    <3>1. Judged(m, N, p[L - 1], p[L], R, Z)
      BY <1>1, <1>6 DEF NodeInv
    <3>2. v \in R <=> IsCut(m, N, v)
      BY <1>0, <1>1, <3>1, TopDecided
    <3>3. d[v] # m
      BY <1>0, <1>1, OnPath
    <3> QED  BY <1>4, <1>7, <2>2, <3>2, <3>3 DEF Decided
  <2>3. CASE w # u /\ w # v
    <3>1. (\A k \in 1..(L - 1) : w # q[k]) => \A k \in 1..L : w # p[k]
      <4>1. \A k \in 1..L : k = L \/ k \in 1..(L - 1)
        BY <1>1
      <4> QED  BY <1>1, <2>3, <4>1
    <3> QED  BY <1>7, <2>0, <2>3, <3>1 DEF Decided
  <2> QED  BY <2>1, <2>2, <2>3
<1>12. ASSUME NEW k \in 1..(L - 1)
       PROVE  NodeInv(m, N, q, e, d, g, T, k, Zone(m, d, L - 1, q, k))
  <2>1. k = L - 1 \/ k \in 1..(L - 2)
    BY <1>1
  <2> QED  BY <1>3, <1>8, <1>9, <2>1
<1>13. H \in Nat
  BY <1>0
<1> QED  BY <1>2, <1>5, <1>7, <1>10, <1>11, <1>12, <1>13 DEF TreeInv

-----------------------------------------------------------------------------
(***************************************************************************)
(* Between two trees: everything found is closed, and marked exactly if it *)
(* cuts.                                                                   *)
(***************************************************************************)
BetweenTrees(m, N, d, t, R) ==
    /\ d \in [1..m -> 0..m] /\ t \in 0..m /\ Timed(m, d, t) /\ R \in SUBSET (1..m)
    /\ \A w \in 1..m : d[w] # m => \A x \in N[w] : d[x] # m
    /\ \A w \in 1..m : IF d[w] = m THEN w \notin R ELSE w \in R <=> IsCut(m, N, w)

\* A new root begins a tree,
LEMMA TreeStart ==
    ASSUME NEW m, NEW N, IsGraph(m, N), NEW d, NEW t, NEW R, BetweenTrees(m, N, d, t, R), t < m,
           NEW r \in 1..m, d[r] = m, NEW f, Found(m, d, r, t, f), NEW l, NEW g, Found(m, l, r, t, g),
           NEW p \in [1..1 -> 1..m], p[1] = r, NEW c \in [1..1 -> SUBSET (1..m)], c[1] = {}
    PROVE  TreeInv(m, N, 1, p, c, f, g, t + 1, R, 0)
<1>0. /\ m \in Nat /\ t \in 0..m /\ f \in [1..m -> 0..m] /\ g \in [1..m -> 0..m]
      /\ \A v \in 1..m : d[v] \in 0..m /\ f[v] = IF v = r THEN t ELSE d[v]
      /\ \A v \in 1..m : d[v] # m => d[v] < t
      /\ \A v \in 1..m : N[v] \subseteq 1..m
  BY DEF IsGraph, BetweenTrees, Timed, Found
<1>1. f[r] = t /\ g[r] = t
  BY DEF Found
<1>2. Zone(m, f, 1, p, 1) = {}
  <2>1. ASSUME NEW v \in 1..m, f[v] # m
        PROVE  ~(t < f[v])
    <3>1. d[v] \in 0..m /\ (f[v] = t \/ (f[v] = d[v] /\ d[v] < t))
      BY <1>0, <2>1
    <3> QED  BY <1>0, <3>1
  <2> QED  BY <1>1, <2>1 DEF Zone
<1>3. Timed(m, f, t + 1)
  <2>1. ASSUME NEW v \in 1..m, f[v] # m
        PROVE  f[v] < t + 1
    <3>1. d[v] \in 0..m /\ (f[v] = t \/ (f[v] = d[v] /\ d[v] < t))
      BY <1>0, <2>1
    <3> QED  BY <1>0, <3>1
  <2>2. \A u, v \in 1..m : d[u] = d[v] /\ d[u] # m => u = v
    BY DEF BetweenTrees, Timed
  <2>3. \A u, v \in 1..m : f[u] = f[v] /\ f[u] # m => u = v
    BY <1>0, <2>2
  <2> QED  BY <2>1, <2>3 DEF Timed
<1>4. OldIsClosed(m, N, f, r)
  <2> SUFFICES ASSUME NEW w \in 1..m, f[w] < t, NEW x \in N[w]
               PROVE  f[x] < t
    BY <1>1 DEF OldIsClosed
  <2>1. w # r /\ f[w] = d[w] /\ d[w] # m
    <3>1. w # r
      BY <1>0, <1>1
    <3> QED  BY <1>0, <3>1
  <2>2. x \in 1..m /\ d[x] # m
    BY <1>0, <2>1 DEF BetweenTrees
  <2> QED  BY <1>0, <2>2
<1>5. Dfs(m, N, 1, p, c, f, t + 1)
  <2>1. DfsTypes(m, 1, p, c, f, t + 1)
    BY <1>0 DEF DfsTypes
  <2>2. IsPath(m, N, 1, p, f)
    BY <1>0, <1>1 DEF IsPath
  <2>3. Scanned(m, N, 1, p, c, f)
    BY DEF Scanned
  <2>4. \A k \in 1..1 : ZoneIsClosed(m, N, 1, p, f, k)
    BY <1>2 DEF ZoneIsClosed
  <2> QED  BY <1>3, <1>4, <2>1, <2>2, <2>3, <2>4 DEF Dfs
<1>6. NodeInv(m, N, p, c, f, g, R, 1, {})
  <2>1. Hangs(m, N, p[1], {})
    BY DEF Hangs
  <2>2. LowIsReal(N, f, g, p[1], {})
    BY <1>0, <1>1 DEF LowIsReal
  <2>3. LowIsLeast(N, p, c, f, g, 1, {})
    BY DEF LowIsLeast
  <2> QED  BY <2>1, <2>2, <2>3 DEF NodeInv
<1>7. RootJudged(m, N, p[1], 0, {})
  BY DEF RootJudged
<1>8. ASSUME NEW w \in 1..m
      PROVE  Decided(m, N, 1, p, f, R, w)
  <2>1. CASE w = r
    <3>1. f[w] # m /\ 1 \in 1..1 /\ w = p[1]
      BY ONLY <1>0, <1>1, <2>1, t < m, p[1] = r
    <3> QED  BY ONLY <3>1 DEF Decided
  <2>2. CASE w # r
    <3>1. f[w] = d[w]
      BY ONLY <1>0, <2>2, w \in 1..m
    <3>2. (d[w] = m => w \notin R) /\ (d[w] # m => (w \in R <=> IsCut(m, N, w)))
      BY ONLY BetweenTrees(m, N, d, t, R), w \in 1..m DEF BetweenTrees
    <3> QED  BY ONLY <3>1, <3>2 DEF Decided
  <2> QED  BY ONLY <2>1, <2>2
<1>9. \A k \in 1..1 : NodeInv(m, N, p, c, f, g, R, k, Zone(m, f, 1, p, k))
  BY <1>2, <1>6
<1>10. R \in SUBSET (1..m)
  BY DEF BetweenTrees
<1> QED  BY <1>0, <1>2, <1>5, <1>7, <1>8, <1>9, <1>10 DEF TreeInv

\* and when it alone is left, and done with, the tree is ended.
LEMMA TreeEnd ==
    ASSUME NEW m, NEW N, IsGraph(m, N), NEW p, NEW c, NEW d, NEW l, NEW t, NEW R, NEW h,
           TreeInv(m, N, 1, p, c, d, l, t, R, h), c[1] = N[p[1]]
    PROVE  h \in Nat /\ BetweenTrees(m, N, d, t, IF h > 1 THEN R \cup {p[1]} ELSE R \ {p[1]})
<1> DEFINE T == IF h > 1 THEN R \cup {p[1]} ELSE R \ {p[1]}
<1>0. /\ Dfs(m, N, 1, p, c, d, t) /\ R \in SUBSET (1..m) /\ h \in Nat
      /\ RootJudged(m, N, p[1], h, Zone(m, d, 1, p, 1))
  BY DEF TreeInv
<1>1. /\ m \in Nat /\ d \in [1..m -> 0..m] /\ t \in 0..m /\ Timed(m, d, t) /\ p[1] \in 1..m /\ 1 \in 1..1
      /\ \A v \in 1..m : N[v] \subseteq 1..m
  BY <1>0 DEF Dfs, DfsTypes, IsGraph
<1>2. d[p[1]] # m /\ d[p[1]] \in 0..m
  BY <1>0, <1>1, OnPath
<1>3. T \in SUBSET (1..m)
  BY <1>0, <1>1
<1>4. ASSUME NEW w \in 1..m, d[w] # m, NEW x \in N[w]
      PROVE  d[x] # m
  <2>1. x \in 1..m /\ d[w] \in 0..m /\ d[x] \in 0..m
    BY <1>1
  <2>2. CASE d[w] < d[p[1]]
    <3>1. d[x] < d[p[1]]
      BY <1>0, <2>2 DEF Dfs, OldIsClosed
    <3> QED  BY <1>1, <1>2, <2>1, <3>1
  <2>3. CASE ~(d[w] < d[p[1]])
    <3>1. \E k \in 1..1 : w = p[k] \/ w \in Zone(m, d, 1, p, k)
      BY <1>0, <1>4, <2>3, Located DEF Dfs
    <3>2. w \in {p[1]} \cup Zone(m, d, 1, p, 1)
      BY <3>1
    <3>3. x \in {p[1]} \cup Zone(m, d, 1, p, 1)
      BY <1>0, <3>2, BelowTop
    <3> QED  BY <1>2, <3>3 DEF Zone
  <2> QED  BY <2>2, <2>3
<1>5. ASSUME NEW w \in 1..m
      PROVE  IF d[w] = m THEN w \notin T ELSE w \in T <=> IsCut(m, N, w)
  <2>1. CASE w = p[1]
    <3>1. h > 1 <=> IsCut(m, N, w)
      BY <1>0, <2>1, RootDecided
    <3>2. w \in T <=> h > 1
      BY <2>1
    <3> QED  BY <1>2, <2>1, <3>1, <3>2
  <2>2. CASE w # p[1]
    <3>1. Decided(m, N, 1, p, d, R, w)
      BY DEF TreeInv
    <3>2. w \in T <=> w \in R
      BY <2>2
    <3>3. \A k \in 1..1 : w # p[k]
      BY <2>2
    <3> HIDE DEF T
    <3> QED  BY <3>1, <3>2, <3>3 DEF Decided
  <2> QED  BY <2>1, <2>2
<1> HIDE DEF T
<1>6. BetweenTrees(m, N, d, t, T)
  BY <1>1, <1>3, <1>4, <1>5 DEF BetweenTrees
<1> QED  BY <1>0, <1>6 DEF T

-----------------------------------------------------------------------------
(***************************************************************************)
(* The order of a set of nodes, in which the neighbours of a node are      *)
(* listed, and the stack: frames of a node, its parent and the position of *)
(* the next neighbour to look at.                                          *)
(***************************************************************************)
LEMMA PositionsInOrder ==
    ASSUME NEW m \in Nat, NEW S \in SUBSET (1..m)
    PROVE  /\ IsFiniteSet(S) /\ Cardinality(S) \in Nat
           /\ \A x \in S : Position(S, x) \in 1..Cardinality(S)
           /\ \A x, y \in S : Position(S, x) = Position(S, y) => x = y
<1>1. IsFiniteSet(1..m)
  BY FS_Interval
<1>2. IsFiniteSet(S) /\ Cardinality(S) \in Nat
  BY <1>1, FS_Subset, FS_CardinalityType
<1> DEFINE Upto(x) == {i \in S : i <= x}
<1>3. ASSUME NEW x \in S
      PROVE  IsFiniteSet(Upto(x)) /\ Cardinality(Upto(x)) \in 1..Cardinality(S)
  <2>1. Upto(x) \in SUBSET S /\ x \in Upto(x)
    OBVIOUS
  <2> HIDE DEF Upto
  <2>2. IsFiniteSet(Upto(x)) /\ Cardinality(Upto(x)) <= Cardinality(S)
    BY <1>2, <2>1, FS_Subset
  <2>3. Cardinality(Upto(x)) \in Nat /\ Cardinality(Upto(x)) # 0
    BY <2>1, <2>2, FS_CardinalityType, FS_EmptySet
  <2> QED  BY <1>2, <2>2, <2>3
<1>4. ASSUME NEW x \in S, NEW y \in S, x < y, Cardinality(Upto(x)) = Cardinality(Upto(y))
      PROVE  FALSE
  <2>1. Upto(x) \in SUBSET Upto(y) /\ y \in Upto(y) /\ y \notin Upto(x)
    <3>1. x \in 1..m /\ y \in 1..m
      OBVIOUS
    <3>2. \A i \in S : i \in 1..m /\ (i <= x => i <= y)
      BY <1>4, <3>1
    <3>3. x \in Nat /\ y \in Nat
      BY <3>1
    <3>4. y <= y /\ ~(y <= x)
      BY <1>4, <3>3
    <3> QED  BY <3>2, <3>4
  <2> HIDE DEF Upto
  <2>2. Upto(y) = Upto(x)
    BY <1>3, <1>4, <2>1, FS_Subset
  <2> QED  BY <2>1, <2>2
<1>5. \A x \in S : Position(S, x) = Cardinality(Upto(x))
  BY DEF Position
<1> HIDE DEF Upto
<1>6. ASSUME NEW x \in S, NEW y \in S, Position(S, x) = Position(S, y)
      PROVE  x = y
  <2>1. ~(x < y) /\ ~(y < x)
    BY <1>4, <1>5, <1>6
  <2> QED  BY <2>1
<1> QED  BY <1>2, <1>3, <1>5, <1>6

LEMMA PositionsExist ==
    ASSUME NEW m \in Nat, NEW S \in SUBSET (1..m), NEW k \in 1..Cardinality(S)
    PROVE  \E x \in S : Position(S, x) = k
<1> DEFINE at == [x \in S |-> Position(S, x)]
           T == 1..Cardinality(S)
<1>1. IsFiniteSet(S) /\ Cardinality(S) \in Nat
  BY PositionsInOrder
<1>2. at \in [S -> T] /\ \A x, y \in S : at[x] = at[y] => x = y
  BY PositionsInOrder
<1>3. IsFiniteSet(T) /\ Cardinality(T) = Cardinality(S)
  <2>1. IsFiniteSet(T) /\ Cardinality(T) = IF 1 > Cardinality(S) THEN 0 ELSE Cardinality(S) - 1 + 1
    BY <1>1, FS_Interval
  <2> QED  BY <1>1, <2>1
<1>4. k \in T
  OBVIOUS
<1> HIDE DEF at, T
<1>5. at \in Injection(S, T)
  BY <1>2 DEF Injection, IsInjective
<1>6. at \in Surjection(S, T)
  BY <1>3, <1>5, FS_Injection
<1>7. \E x \in S : at[x] = k
  BY <1>4, <1>6 DEF Surjection
<1> QED  BY <1>7 DEF at

LEMMA NeighboursAre ==
    ASSUME n \in Nat, NEW v \in Node
    PROVE  /\ Neighbours(v) \in SUBSET (1..n) /\ v \notin Neighbours(v)
           /\ \A w \in Neighbours(v) : v \in Neighbours(w)
BY DEF Neighbours, Undirected, Node

LEMMA AscendingIs ==
    ASSUME NEW m \in Nat, NEW S \in SUBSET (1..m)
    PROVE  /\ Ascending(S) \in [1..Cardinality(S) -> S] /\ Cardinality(S) \in Nat
           /\ \A k \in 1..Cardinality(S) : Position(S, Ascending(S)[k]) = k
           /\ \A w \in S : \E k \in 1..Cardinality(S) : w = Ascending(S)[k]
<1>1. Ascending(S) = [k \in 1..Cardinality(S) |-> CHOOSE w \in S : Position(S, w) = k]
  BY DEF Ascending
<1>2. Cardinality(S) \in Nat
  BY PositionsInOrder
<1>3. ASSUME NEW k \in 1..Cardinality(S)
      PROVE  Ascending(S)[k] \in S /\ Position(S, Ascending(S)[k]) = k
  <2>1. \E w \in S : Position(S, w) = k
    BY PositionsExist
  <2>2. Ascending(S)[k] = CHOOSE w \in S : Position(S, w) = k
    BY <1>1
  <2> QED  BY <2>1, <2>2, Zenon
<1>4. Ascending(S) \in [1..Cardinality(S) -> S]
  BY <1>1, <1>3
<1>5. ASSUME NEW w \in S
      PROVE  \E k \in 1..Cardinality(S) : w = Ascending(S)[k]
  <2>1. Position(S, w) \in 1..Cardinality(S)
    BY PositionsInOrder
  <2> DEFINE k == Position(S, w)
             x == Ascending(S)[k]
  <2>2. k \in 1..Cardinality(S) /\ x \in S /\ Position(S, x) = Position(S, w)
    BY <1>3, <2>1
  <2> HIDE DEF k, x
  <2>3. x = w
    BY <2>2, PositionsInOrder
  <2> QED  BY ONLY <2>2, <2>3 DEF x
<1> QED  BY ONLY <1>2, <1>3, <1>4, <1>5

LEMMA AdjacencyIs ==
    ASSUME n \in Nat, NEW v \in Node
    PROVE  /\ Adjacency(v) \in Seq(Neighbours(v)) /\ Len(Adjacency(v)) \in Nat
           /\ Neighbours(v) = {Adjacency(v)[k] : k \in 1..Len(Adjacency(v))}
<1> DEFINE near == Neighbours(v)
           l == Ascending(near)
<1>1. near \in SUBSET (1..n) /\ Adjacency(v) = l
  BY NeighboursAre DEF Adjacency
<1> HIDE DEF near
<1>2. /\ l \in [1..Cardinality(near) -> near] /\ Cardinality(near) \in Nat
      /\ \A w \in near : \E k \in 1..Cardinality(near) : w = l[k]
  BY <1>1, AscendingIs
<1> HIDE DEF l
<1>3. l \in Seq(near) /\ Len(l) = Cardinality(near)
  BY ONLY <1>2
<1>4. near = {l[k] : k \in 1..Len(l)}
  BY ONLY <1>2, <1>3
<1> QED  BY ONLY <1>1, <1>2, <1>3, <1>4 DEF near

-----------------------------------------------------------------------------
\* Every neighbour is listed, once or more often, and nothing else is.
InOrder(m, N, A) ==
    \A v \in 1..m : /\ A[v] \in Seq(N[v]) /\ Len(A[v]) \in Nat
                    /\ N[v] = {A[v][k] : k \in 1..Len(A[v])}

PathOf(st) == [k \in 1..Len(st) |-> st[k].node]

Looked(A, f) == {A[f.node][i] : i \in 1..(f.next - 1)}

ScanOf(A, st) == [k \in 1..Len(st) |-> Looked(A, st[k])]

FrameType(m) == [node : 1..m, parent : 0..m, next : Nat \ {0}]

StackOK(m, A, st) ==
    /\ st \in Seq(FrameType(m))
    /\ \A k \in 1..Len(st) : /\ st[k].next <= Len(A[st[k].node]) + 1
                             /\ st[k].parent = IF k = 1 THEN 0 ELSE st[k - 1].node

LEMMA StackParts ==
    ASSUME NEW m, NEW N, NEW A, IsGraph(m, N), InOrder(m, N, A), NEW st, StackOK(m, A, st)
    PROVE  /\ Len(st) \in Nat /\ m \in Nat
           /\ PathOf(st) \in [1..Len(st) -> 1..m] /\ ScanOf(A, st) \in [1..Len(st) -> SUBSET (1..m)]
           /\ \A k \in 1..Len(st) :
                 /\ st[k] \in FrameType(m) /\ PathOf(st)[k] = st[k].node /\ st[k].node \in 1..m
                 /\ st[k].next \in Nat \ {0} /\ st[k].parent \in 0..m
                 /\ ScanOf(A, st)[k] = Looked(A, st[k])
<1>1. Len(st) \in Nat /\ m \in Nat /\ \A k \in 1..Len(st) : st[k] \in FrameType(m)
  BY DEF StackOK, IsGraph
<1>2. \A k \in 1..Len(st) : st[k].node \in 1..m /\ st[k].next \in Nat \ {0} /\ st[k].parent \in 0..m
  BY <1>1 DEF FrameType
<1>3. ASSUME NEW k \in 1..Len(st)
      PROVE  {A[st[k].node][i] : i \in 1..(st[k].next - 1)} \in SUBSET (1..m)
  <2>1. st[k].next <= Len(A[st[k].node]) + 1
    BY DEF StackOK
  <2> DEFINE v == st[k].node
  <2>2. v \in 1..m /\ N[v] \in SUBSET (1..m) /\ N[v] = {A[v][i] : i \in 1..Len(A[v])} /\ Len(A[v]) \in Nat
    BY <1>2 DEF InOrder, IsGraph
  <2>3. \A i \in 1..(st[k].next - 1) : i \in 1..Len(A[v])
    BY <1>2, <2>1, <2>2
  <2>4. \A i \in 1..(st[k].next - 1) : A[v][i] \in 1..m
    BY <2>2, <2>3
  <2> QED  BY <2>4
<1>4. \A k \in 1..Len(st) : Looked(A, st[k]) \in SUBSET (1..m)
  BY <1>3 DEF Looked
<1> QED  BY <1>1, <1>2, <1>4 DEF PathOf, ScanOf

NextIs(A, st, w) ==
    LET f == st[Len(st)]
    IN  st # <<>> /\ f.next <= Len(A[f.node]) /\ w = A[f.node][f.next]

Stepped(st, to) == to = [st EXCEPT ![Len(st)].next = @ + 1]

Grown(st, w, to) == to = Append(st, [node |-> w, parent |-> st[Len(st)].node, next |-> 1])

Shrunk(st, to) == Len(st) > 1 /\ to = SubSeq(st, 1, Len(st) - 1)

LEMMA StackAdvance ==
    ASSUME NEW m, NEW N, NEW A, IsGraph(m, N), InOrder(m, N, A), NEW st, StackOK(m, A, st),
           NEW w, NextIs(A, st, w), NEW to, Stepped(st, to)
    PROVE  /\ StackOK(m, A, to) /\ to # <<>> /\ Len(to) = Len(st) /\ PathOf(to) = PathOf(st)
           /\ w \in N[PathOf(st)[Len(st)]] /\ w \in 1..m
           /\ Added(Len(st), ScanOf(A, st), w, ScanOf(A, to))
<1> DEFINE L == Len(st)
           v == st[L].node
           j == st[L].next
<1>0. st # <<>> /\ j <= Len(A[v]) /\ w = A[v][j] /\ to = [st EXCEPT ![L].next = @ + 1]
  BY DEF NextIs, Stepped
<1>1. /\ L \in Nat /\ L \in 1..L /\ v \in 1..m /\ j \in Nat \ {0} /\ L >= 1
      /\ \A k \in 1..L : st[k] \in FrameType(m)
  <2>1. L \in Nat /\ L # 0
    BY <1>0, StackParts DEF StackOK
  <2>2. L \in 1..L
    BY <2>1
  <2> QED  BY <2>1, <2>2, StackParts
<1>2. N[v] = {A[v][i] : i \in 1..Len(A[v])} /\ Len(A[v]) \in Nat /\ N[v] \in SUBSET (1..m)
  <2>1. v \in 1..m
    BY <1>1
  <2> HIDE DEF v
  <2>2. N[v] = {A[v][i] : i \in 1..Len(A[v])} /\ Len(A[v]) \in Nat
    BY <2>1 DEF InOrder
  <2>3. N[v] \in SUBSET (1..m)
    BY <2>1 DEF IsGraph
  <2> QED  BY <2>2, <2>3
<1>3. w \in N[v] /\ w \in 1..m
  <2>1. j \in 1..Len(A[v])
    BY <1>0, <1>1, <1>2
  <2>2. A[v][j] \in {A[v][i] : i \in 1..Len(A[v])}
    BY <2>1
  <2>3. w \in N[v]
    BY <1>0, <1>2, <2>2
  <2> QED  BY <1>2, <2>3
<1>4. st \in Seq(FrameType(m))
  BY DEF StackOK
<1>5. [st[L] EXCEPT !.next = j + 1] \in FrameType(m)
  BY <1>1 DEF FrameType
<1>6. to \in Seq(FrameType(m)) /\ Len(to) = L
  BY <1>0, <1>1, <1>4, <1>5
<1>7. \A k \in 1..L : to[k] = IF k = L THEN [st[L] EXCEPT !.next = j + 1] ELSE st[k]
  BY <1>0, <1>1, <1>4
<1>8. \A k \in 1..L : /\ to[k].node = st[k].node /\ to[k].parent = st[k].parent
                       /\ to[k].next = IF k = L THEN j + 1 ELSE st[k].next
  BY <1>1, <1>7 DEF FrameType
<1>9. StackOK(m, A, to)
  <2> SUFFICES ASSUME NEW k \in 1..L
               PROVE  /\ to[k].next <= Len(A[to[k].node]) + 1
                      /\ to[k].parent = IF k = 1 THEN 0 ELSE to[k - 1].node
    BY <1>6 DEF StackOK
  <2>1. st[k].next <= Len(A[st[k].node]) + 1 /\ st[k].parent = IF k = 1 THEN 0 ELSE st[k - 1].node
    BY DEF StackOK
  <2>2. to[k].next <= Len(A[to[k].node]) + 1
    <3>1. CASE k = L
      <4>1. to[k].next = j + 1 /\ to[k].node = v
        BY <1>8, <3>1
      <4> HIDE DEF v, j
      <4> QED  BY <1>0, <1>1, <1>2, <4>1
    <3>2. CASE k # L
      <4>1. to[k].next = st[k].next /\ to[k].node = st[k].node
        BY <1>8, <3>2
      <4> QED  BY <2>1, <4>1
    <3> QED  BY <3>1, <3>2
  <2>3. k = 1 \/ k - 1 \in 1..L
    BY <1>1
  <2> QED  BY <1>8, <2>1, <2>2, <2>3
<1>10. PathOf(to) = PathOf(st)
  BY <1>6, <1>8 DEF PathOf
<1>11. ASSUME NEW k \in 1..L
       PROVE  ScanOf(A, to)[k] = IF k = L THEN ScanOf(A, st)[k] \cup {w} ELSE ScanOf(A, st)[k]
  <2>1. /\ ScanOf(A, to)[k] = {A[st[k].node][i] : i \in 1..(to[k].next - 1)}
        /\ ScanOf(A, st)[k] = {A[st[k].node][i] : i \in 1..(st[k].next - 1)}
    BY <1>6, <1>8 DEF ScanOf, Looked
  <2>2. CASE k = L
    <3>1. 1..(to[k].next - 1) = 1..(j - 1) \cup {j}
      BY <1>1, <1>8, <2>2
    <3>2. w = A[v][j]
      BY <1>0
    <3>3. ScanOf(A, to)[k] = {A[v][i] : i \in 1..(j - 1) \cup {j}}
      BY <2>1, <2>2, <3>1
    <3>4. ScanOf(A, st)[k] = {A[v][i] : i \in 1..(j - 1)}
      BY <2>1, <2>2
    <3> HIDE DEF v, j
    <3> QED  BY <2>2, <3>2, <3>3, <3>4
  <2>3. CASE k # L
    BY <1>8, <2>1, <2>3
  <2> QED  BY <2>2, <2>3
<1>12. to # <<>> /\ PathOf(st)[L] = v
  BY <1>1, <1>6 DEF PathOf
<1> QED  BY <1>3, <1>6, <1>9, <1>10, <1>11, <1>12 DEF Added

LEMMA StackGrow ==
    ASSUME NEW m, NEW N, NEW A, IsGraph(m, N), InOrder(m, N, A), NEW st, StackOK(m, A, st), st # <<>>,
           NEW w \in 1..m, NEW to, Grown(st, w, to)
    PROVE  /\ StackOK(m, A, to) /\ to # <<>> /\ Len(to) = Len(st) + 1
           /\ PathOf(to) \in [1..(Len(st) + 1) -> 1..m] /\ ScanOf(A, to) \in [1..(Len(st) + 1) -> SUBSET (1..m)]
           /\ \A k \in 1..Len(st) : PathOf(to)[k] = PathOf(st)[k] /\ ScanOf(A, to)[k] = ScanOf(A, st)[k]
           /\ PathOf(to)[Len(st) + 1] = w /\ ScanOf(A, to)[Len(st) + 1] = {}
<1> DEFINE L == Len(st)
           f == [node |-> w, parent |-> st[L].node, next |-> 1]
<1>1. /\ L \in Nat /\ L \in 1..L /\ L >= 1 /\ st[L].node \in 1..m /\ m \in Nat
      /\ \A k \in 1..L : st[k] \in FrameType(m)
  <2>1. L \in Nat /\ L # 0
    BY StackParts DEF StackOK
  <2>2. L \in 1..L
    BY <2>1
  <2> QED  BY <2>1, <2>2, StackParts
<1>2. f \in FrameType(m) /\ f.node = w /\ f.parent = st[L].node /\ f.next = 1
  BY <1>1 DEF FrameType
<1>3. st \in Seq(FrameType(m))
  BY DEF StackOK
<1> HIDE DEF f
<1>4. to = Append(st, f)
  BY DEF f, Grown
<1>5. /\ to \in Seq(FrameType(m)) /\ Len(to) = L + 1 /\ to[L + 1] = f
      /\ \A k \in 1..L : to[k] = st[k]
  BY <1>1, <1>2, <1>3, <1>4
<1>6. StackOK(m, A, to)
  <2> SUFFICES ASSUME NEW k \in 1..(L + 1)
               PROVE  /\ to[k].next <= Len(A[to[k].node]) + 1
                      /\ to[k].parent = IF k = 1 THEN 0 ELSE to[k - 1].node
    BY <1>5 DEF StackOK
  <2>1. CASE k \in 1..L
    <3>1. st[k].next <= Len(A[st[k].node]) + 1 /\ st[k].parent = IF k = 1 THEN 0 ELSE st[k - 1].node
      BY <2>1 DEF StackOK
    <3>2. k = 1 \/ k - 1 \in 1..L
      BY <1>1, <2>1
    <3> QED  BY <1>5, <2>1, <3>1, <3>2
  <2>2. CASE k = L + 1
    <3>1. Len(A[w]) \in Nat
      BY DEF InOrder
    <3>2. k # 1 /\ k - 1 = L
      BY <1>1, <2>2
    <3> QED  BY <1>1, <1>2, <1>5, <2>2, <3>1, <3>2
  <2> QED  BY <1>1, <2>1, <2>2
<1>7. /\ PathOf(to) \in [1..(L + 1) -> 1..m] /\ ScanOf(A, to) \in [1..(L + 1) -> SUBSET (1..m)]
  BY <1>5, <1>6, StackParts
<1>8. \A k \in 1..(L + 1) : PathOf(to)[k] = to[k].node /\ ScanOf(A, to)[k] = Looked(A, to[k])
  BY <1>5 DEF PathOf, ScanOf
<1>9. \A k \in 1..L : PathOf(to)[k] = PathOf(st)[k] /\ ScanOf(A, to)[k] = ScanOf(A, st)[k]
  <2>1. \A k \in 1..L : PathOf(st)[k] = st[k].node /\ ScanOf(A, st)[k] = Looked(A, st[k])
    BY DEF PathOf, ScanOf
  <2>2. \A k \in 1..L : k \in 1..(L + 1)
    BY <1>1
  <2> QED  BY <1>5, <1>8, <2>1, <2>2
<1>10. PathOf(to)[L + 1] = w /\ ScanOf(A, to)[L + 1] = {}
  <2>1. L + 1 \in 1..(L + 1) /\ 1..(1 - 1) = {}
    BY <1>1
  <2> QED  BY <1>2, <1>5, <1>8, <2>1 DEF Looked
<1> QED  BY <1>1, <1>5, <1>6, <1>7, <1>9, <1>10

LEMMA StackShrink ==
    ASSUME NEW m, NEW N, NEW A, IsGraph(m, N), InOrder(m, N, A), NEW st, StackOK(m, A, st),
           NEW to, Shrunk(st, to)
    PROVE  /\ StackOK(m, A, to) /\ Len(to) = Len(st) - 1 /\ to # <<>> /\ to[1] = st[1]
           /\ PathOf(to) \in [1..(Len(st) - 1) -> 1..m] /\ ScanOf(A, to) \in [1..(Len(st) - 1) -> SUBSET (1..m)]
           /\ \A k \in 1..(Len(st) - 1) : PathOf(to)[k] = PathOf(st)[k] /\ ScanOf(A, to)[k] = ScanOf(A, st)[k]
<1> DEFINE L == Len(st)
<1>1. L \in Nat /\ L > 1 /\ st \in Seq(FrameType(m)) /\ \A k \in 1..(L - 1) : k \in 1..L
  BY StackParts DEF StackOK, Shrunk
<1>2. to \in Seq(FrameType(m)) /\ Len(to) = L - 1 /\ \A k \in 1..(L - 1) : to[k] = st[k]
  BY <1>1 DEF Shrunk
<1>3. StackOK(m, A, to)
  <2> SUFFICES ASSUME NEW k \in 1..(L - 1)
               PROVE  /\ to[k].next <= Len(A[to[k].node]) + 1
                      /\ to[k].parent = IF k = 1 THEN 0 ELSE to[k - 1].node
    BY <1>2 DEF StackOK
  <2>1. st[k].next <= Len(A[st[k].node]) + 1 /\ st[k].parent = IF k = 1 THEN 0 ELSE st[k - 1].node
    BY <1>1 DEF StackOK
  <2>2. k = 1 \/ k - 1 \in 1..(L - 1)
    BY <1>1
  <2> QED  BY <1>2, <2>1, <2>2
<1>4. PathOf(to) \in [1..(L - 1) -> 1..m] /\ ScanOf(A, to) \in [1..(L - 1) -> SUBSET (1..m)]
  BY <1>2, <1>3, StackParts
<1>5. \A k \in 1..(L - 1) : PathOf(to)[k] = PathOf(st)[k] /\ ScanOf(A, to)[k] = ScanOf(A, st)[k]
  <2>1. \A k \in 1..(L - 1) : PathOf(to)[k] = to[k].node /\ ScanOf(A, to)[k] = Looked(A, to[k])
    BY <1>2 DEF PathOf, ScanOf
  <2>2. \A k \in 1..(L - 1) : PathOf(st)[k] = st[k].node /\ ScanOf(A, st)[k] = Looked(A, st[k])
    BY <1>1 DEF PathOf, ScanOf
  <2> QED  BY <1>2, <2>1, <2>2
<1>6. to # <<>> /\ to[1] = st[1]
  BY <1>1, <1>2
<1> QED  BY <1>2, <1>3, <1>4, <1>5, <1>6

\* A frame with no next neighbour has looked at all of them.
LEMMA ScannedAll ==
    ASSUME NEW m, NEW N, NEW A, IsGraph(m, N), InOrder(m, N, A), NEW st, StackOK(m, A, st), st # <<>>,
           ~(st[Len(st)].next <= Len(A[st[Len(st)].node]))
    PROVE  ScanOf(A, st)[Len(st)] = N[PathOf(st)[Len(st)]]
<1> DEFINE L == Len(st)
           v == st[L].node
<1>1. L \in Nat /\ L # 0
  BY StackParts DEF StackOK
<1>2. L \in 1..L
  BY <1>1
<1>3. v \in 1..m /\ st[L].next \in Nat /\ PathOf(st)[L] = v /\ ScanOf(A, st)[L] = {A[v][i] : i \in 1..(st[L].next - 1)}
  BY <1>2, StackParts DEF Looked
<1>4. N[v] = {A[v][i] : i \in 1..Len(A[v])} /\ Len(A[v]) \in Nat
  BY <1>3 DEF InOrder
<1>5. st[L].next <= Len(A[v]) + 1
  BY <1>2 DEF StackOK
<1>6. st[L].next - 1 = Len(A[v])
  BY <1>3, <1>4, <1>5
<1> QED  BY <1>3, <1>4, <1>6

-----------------------------------------------------------------------------
(***************************************************************************)
(* One turn of the loop in structural_metrics, on the stack: the clock     *)
(* counts the nodes found so far, so it never runs out while one is left.  *)
(***************************************************************************)
Clocked(m, d, t) == t = Cardinality({w \in 1..m : d[w] # m})

SearchOK(m, N, A, at, r, d, l, t, st, h, R) ==
    /\ Clocked(m, d, t) /\ l \in [1..m -> 0..m]
    /\ r \in 1..(m + 1) /\ \A v \in 1..m : v < r => d[v] # m
    /\ at = "done" => r = m + 1
    /\ at # "tree" => st = <<>> /\ BetweenTrees(m, N, d, t, R)
    /\ at = "tree" =>
          /\ r \in 1..m /\ d[r] # m
          /\ st = <<>> => h \in Nat /\ BetweenTrees(m, N, d, t, IF h > 1 THEN R \cup {r} ELSE R \ {r})
          /\ st # <<>> => /\ StackOK(m, A, st) /\ st[1].node = r
                          /\ TreeInv(m, N, Len(st), PathOf(st), ScanOf(A, st), d, l, t, R, h)

\* While a node is left the clock has not run out.
LEMMA ClockRuns ==
    ASSUME NEW m \in Nat, NEW d \in [1..m -> 0..m], NEW t, Clocked(m, d, t), NEW w \in 1..m, d[w] = m
    PROVE  /\ t \in 0..m /\ t < m
           /\ Found(m, d, w, t, [d EXCEPT ![w] = t]) /\ Clocked(m, [d EXCEPT ![w] = t], t + 1)
<1> DEFINE S == {v \in 1..m : d[v] # m}
           f == [d EXCEPT ![w] = t]
<1>1. IsFiniteSet(1..m) /\ Cardinality(1..m) = m
  <2>1. Cardinality(1..m) = IF 1 > m THEN 0 ELSE m - 1 + 1
    BY FS_Interval
  <2> QED  BY <2>1, FS_Interval
<1>2. S \in SUBSET (1..m) /\ w \notin S /\ t = Cardinality(S)
  BY DEF Clocked
<1> HIDE DEF S
<1>3. t \in Nat /\ t <= m /\ t # m
  <2>1. IsFiniteSet(S) /\ Cardinality(S) <= Cardinality(1..m)
    BY <1>1, <1>2, FS_Subset
  <2>2. S # 1..m
    BY <1>2
  <2> QED  BY <1>1, <1>2, <2>1, <2>2, FS_Subset, FS_CardinalityType
<1>4. IsFiniteSet(S)
  BY <1>1, <1>2, FS_Subset
<1>5. f \in [1..m -> 0..m] /\ \A v \in 1..m : f[v] = IF v = w THEN t ELSE d[v]
  BY <1>3
<1> HIDE DEF f
<1>6. {v \in 1..m : f[v] # m} = S \cup {w}
  BY <1>3, <1>5 DEF S
<1>7. Cardinality(S \cup {w}) = t + 1
  BY <1>2, <1>4, FS_AddElement
<1>8. Clocked(m, f, t + 1)
  BY <1>6, <1>7 DEF Clocked
<1>9. Found(m, d, w, t, f)
  BY <1>5 DEF Found
<1> QED  BY <1>3, <1>8, <1>9 DEF f

\* The turns of the loop: StartRoot, Descend, LookBack, Return and EndRoot.
LEMMA SearchStart ==
    ASSUME NEW m, NEW N, NEW A, IsGraph(m, N), NEW r, NEW d, NEW l, NEW t, NEW st, NEW h, NEW R,
           SearchOK(m, N, A, "root", r, d, l, t, st, h, R), InOrder(m, N, A), r <= m, d[r] = m,
           NEW to, to = <<[node |-> r, parent |-> 0, next |-> 1]>>
    PROVE  SearchOK(m, N, A, "tree", r, [d EXCEPT ![r] = t], [l EXCEPT ![r] = t], t + 1, to, 0, R)
<1> DEFINE f == [d EXCEPT ![r] = t]
           g == [l EXCEPT ![r] = t]
<1>1. /\ Clocked(m, d, t) /\ l \in [1..m -> 0..m] /\ r \in 1..(m + 1) /\ BetweenTrees(m, N, d, t, R)
      /\ \A v \in 1..m : v < r => d[v] # m
  BY DEF SearchOK
<1>2. m \in Nat /\ d \in [1..m -> 0..m] /\ r \in 1..m
  BY <1>1 DEF IsGraph, BetweenTrees
<1>3. t \in 0..m /\ t < m /\ Found(m, d, r, t, f) /\ Clocked(m, f, t + 1)
  BY <1>1, <1>2, ClockRuns
<1>4. Found(m, l, r, t, g)
  BY <1>1, <1>2, <1>3 DEF Found
<1>5. /\ to \in Seq(FrameType(m)) /\ Len(to) = 1 /\ to # <<>> /\ to[1].node = r /\ to[1].parent = 0 /\ to[1].next = 1
  <2>1. [node |-> r, parent |-> 0, next |-> 1] \in FrameType(m)
    BY <1>2 DEF FrameType
  <2> QED  BY <2>1
<1>6. StackOK(m, A, to)
  <2>1. Len(A[r]) \in Nat
    BY <1>2 DEF InOrder
  <2> QED  BY <1>5, <2>1 DEF StackOK
<1>7. /\ PathOf(to) \in [1..1 -> 1..m] /\ ScanOf(A, to) \in [1..1 -> SUBSET (1..m)]
      /\ PathOf(to)[1] = r /\ ScanOf(A, to)[1] = {}
  <2>1. PathOf(to)[1] = r /\ ScanOf(A, to)[1] = Looked(A, to[1])
    BY <1>5, <1>6, StackParts
  <2>2. Looked(A, to[1]) = {}
    BY <1>5 DEF Looked
  <2> QED  BY <1>5, <1>6, <2>1, <2>2, StackParts
<1> HIDE DEF f, g
<1>8. TreeInv(m, N, 1, PathOf(to), ScanOf(A, to), f, g, t + 1, R, 0)
  BY <1>1, <1>2, <1>3, <1>4, <1>7, TreeStart
<1>9. g \in [1..m -> 0..m] /\ f[r] # m /\ \A v \in 1..m : v < r => f[v] # m
  <2>1. g \in [1..m -> 0..m]
    BY ONLY <1>4 DEF Found
  <2>2. \A v \in 1..m : f[v] = IF v = r THEN t ELSE d[v]
    BY ONLY <1>3 DEF Found
  <2>3. f[r] # m
    BY ONLY <1>2, <1>3, <2>2
  <2>4. ASSUME NEW v \in 1..m, v < r
        PROVE  f[v] # m
    <3>1. d[v] # m
      BY ONLY <1>1, <2>4
    <3> QED  BY ONLY <1>3, <1>2, <2>2, <2>4, <3>1
  <2> QED  BY ONLY <2>1, <2>3, <2>4
<1>10. SearchOK(m, N, A, "tree", r, f, g, t + 1, to, 0, R)
  BY <1>1, <1>2, <1>3, <1>5, <1>6, <1>8, <1>9 DEF SearchOK
<1> QED  BY <1>10 DEF f, g

LEMMA SearchDescends ==
    ASSUME NEW m, NEW N, NEW A, IsGraph(m, N), InOrder(m, N, A), NEW r, NEW d, NEW l, NEW t, NEW st, NEW h, NEW R,
           SearchOK(m, N, A, "tree", r, d, l, t, st, h, R), NEW w, NextIs(A, st, w), d[w] = m,
           NEW on, Stepped(st, on), NEW to, Grown(on, w, to)
    PROVE  SearchOK(m, N, A, "tree", r, [d EXCEPT ![w] = t], [l EXCEPT ![w] = t], t + 1, to, h, R)
<1> DEFINE f == [d EXCEPT ![w] = t]
           g == [l EXCEPT ![w] = t]
           L == Len(st)
<1>1. /\ Clocked(m, d, t) /\ l \in [1..m -> 0..m] /\ r \in 1..m /\ d[r] # m
      /\ \A v \in 1..m : v < r => d[v] # m
      /\ StackOK(m, A, st) /\ st[1].node = r
      /\ TreeInv(m, N, L, PathOf(st), ScanOf(A, st), d, l, t, R, h)
  <2>1. st # <<>>
    BY DEF NextIs
  <2> QED  BY <2>1 DEF SearchOK
<1>2. m \in Nat /\ d \in [1..m -> 0..m]
  BY <1>1 DEF IsGraph, TreeInv, Dfs, DfsTypes
<1>3. /\ StackOK(m, A, on) /\ on # <<>> /\ Len(on) = L /\ PathOf(on) = PathOf(st)
      /\ w \in N[PathOf(st)[L]] /\ w \in 1..m
      /\ Added(L, ScanOf(A, st), w, ScanOf(A, on))
  BY <1>1, StackAdvance
<1>4. L \in Nat /\ L \in 1..L /\ 1 \in 1..L /\ 1 \in 1..(L + 1)
  <2>1. L \in Nat /\ L # 0
    BY <1>1, StackParts DEF StackOK, NextIs
  <2> QED  BY <2>1
<1>6. /\ StackOK(m, A, to) /\ to # <<>> /\ Len(to) = L + 1
      /\ PathOf(to) \in [1..(L + 1) -> 1..m] /\ ScanOf(A, to) \in [1..(L + 1) -> SUBSET (1..m)]
      /\ \A k \in 1..L : PathOf(to)[k] = PathOf(on)[k] /\ ScanOf(A, to)[k] = ScanOf(A, on)[k]
      /\ PathOf(to)[L + 1] = w /\ ScanOf(A, to)[L + 1] = {}
  BY <1>3, StackGrow
<1>7. Pushed(m, L, PathOf(st), ScanOf(A, st), PathOf(to), ScanOf(A, to), w)
  BY <1>3, <1>6 DEF Pushed, Added
<1>8. t \in 0..m /\ t < m /\ Found(m, d, w, t, f) /\ Clocked(m, f, t + 1)
  BY <1>1, <1>2, <1>3, ClockRuns
<1>9. Found(m, l, w, t, g)
  BY <1>1, <1>2, <1>3, <1>8 DEF Found
<1>10. to[1].node = r
  <2>1. PathOf(to)[1] = to[1].node /\ PathOf(st)[1] = st[1].node
    BY <1>4, <1>6 DEF PathOf
  <2> QED  BY <1>1, <1>3, <1>4, <1>6, <2>1
<1> HIDE DEF f, g, L
<1>11. TreeInv(m, N, L + 1, PathOf(to), ScanOf(A, to), f, g, t + 1, R, h)
  BY <1>1, <1>3, <1>7, <1>8, <1>9, TreePush
<1>12. g \in [1..m -> 0..m] /\ f[r] # m /\ \A v \in 1..m : v < r => f[v] # m
  BY <1>1, <1>2, <1>3, <1>8, <1>9 DEF Found
<1>13. r \in 1..(m + 1)
  BY <1>1, <1>2
<1>14. SearchOK(m, N, A, "tree", r, f, g, t + 1, to, h, R)
  BY <1>1, <1>6, <1>8, <1>10, <1>11, <1>12, <1>13 DEF SearchOK
<1> QED  BY <1>14 DEF f, g

LEMMA LoweredByMin ==
    ASSUME NEW m \in Nat, NEW v \in 1..m, NEW to \in 0..m, NEW l \in [1..m -> 0..m]
    PROVE  Lowered(m, v, to, l, [l EXCEPT ![v] = Min({@, to})])
<1>1. l[v] \in 0..m
  OBVIOUS
<1>2. Min({l[v], to}) = IF to < l[v] THEN to ELSE l[v]
  BY <1>1 DEF Min
<1> DEFINE g == [l EXCEPT ![v] = Min({@, to})]
<1>3. Min({l[v], to}) \in 0..m
  BY <1>1, <1>2
<1>4. g \in [1..m -> 0..m] /\ \A x \in 1..m : g[x] = IF x = v THEN Min({l[v], to}) ELSE l[x]
  BY <1>3
<1> HIDE DEF g
<1>5. \A x \in 1..m : g[x] = IF x = v /\ to < l[v] THEN to ELSE l[x]
  BY <1>2, <1>4
<1>6. Lowered(m, v, to, l, g)
  BY <1>4, <1>5 DEF Lowered
<1> QED  BY <1>6 DEF g

LEMMA OneBefore ==
    ASSUME NEW i \in Nat, i # 0
    PROVE  /\ i \in 1..i /\ 1 \in 1..i /\ (i # 1 => i > 1 /\ i - 1 \in 1..i)
           /\ i > 1 => (i = 2 \/ i > 2) /\ (i > 2 <=> i # 2)
OBVIOUS

LEMMA SearchLooks ==
    ASSUME NEW m, NEW N, NEW A, IsGraph(m, N), InOrder(m, N, A), NEW r, NEW d, NEW l, NEW t, NEW st, NEW h, NEW R,
           SearchOK(m, N, A, "tree", r, d, l, t, st, h, R), NEW w, NextIs(A, st, w), d[w] # m,
           NEW on, Stepped(st, on),
           NEW g, g = IF w = st[Len(st)].parent THEN l
                      ELSE [l EXCEPT ![st[Len(st)].node] = Min({@, d[w]})]
    PROVE  SearchOK(m, N, A, "tree", r, d, g, t, on, h, R)
<1> DEFINE L == Len(st)
           v == st[L].node
<1>1. /\ Clocked(m, d, t) /\ l \in [1..m -> 0..m] /\ r \in 1..m /\ d[r] # m
      /\ \A x \in 1..m : x < r => d[x] # m
      /\ StackOK(m, A, st) /\ st[1].node = r
      /\ TreeInv(m, N, L, PathOf(st), ScanOf(A, st), d, l, t, R, h)
  <2>1. st # <<>>
    BY DEF NextIs
  <2> QED  BY <2>1 DEF SearchOK
<1>2. m \in Nat /\ d \in [1..m -> 0..m]
  BY <1>1 DEF IsGraph, TreeInv, Dfs, DfsTypes
<1>3. /\ StackOK(m, A, on) /\ on # <<>> /\ Len(on) = L /\ PathOf(on) = PathOf(st)
      /\ w \in N[PathOf(st)[L]] /\ w \in 1..m
      /\ Added(L, ScanOf(A, st), w, ScanOf(A, on))
  BY <1>1, StackAdvance
<1>4. L \in Nat /\ L # 0 /\ L \in 1..L /\ 1 \in 1..L /\ v \in 1..m /\ PathOf(st)[L] = v
  <2>1. L \in Nat /\ L # 0
    BY <1>1, StackParts DEF StackOK, NextIs
  <2>2. L \in 1..L /\ 1 \in 1..L
    BY <2>1
  <2> QED  BY <1>1, <2>1, <2>2, StackParts
<1>5. ScanOf(A, on) \in [1..L -> SUBSET (1..m)]
  BY <1>3, StackParts
<1>6. w = st[L].parent <=> L > 1 /\ w = PathOf(st)[L - 1]
  <2>1. st[L].parent = IF L = 1 THEN 0 ELSE st[L - 1].node
    BY <1>1, <1>4 DEF StackOK
  <2>2. L # 1 => L > 1 /\ L - 1 \in 1..L
    BY <1>4, OneBefore
  <2>3. L # 1 => PathOf(st)[L - 1] = st[L - 1].node
    BY <2>2 DEF PathOf
  <2> QED  BY <1>3, <1>4, <2>1, <2>2, <2>3
<1>7. LooksBack(m, L, PathOf(st), d, w, l, g)
  <2>1. CASE w = st[L].parent
    BY <1>6, <2>1 DEF LooksBack
  <2>2. CASE w # st[L].parent
    <3>1. g = [l EXCEPT ![v] = Min({@, d[w]})] /\ d[w] \in 0..m
      BY <1>2, <1>3, <2>2
    <3>2. Lowered(m, v, d[w], l, [l EXCEPT ![v] = Min({@, d[w]})])
      BY <1>1, <1>2, <1>4, <3>1, LoweredByMin
    <3>3. Lowered(m, v, d[w], l, g)
      BY <3>1, <3>2
    <3> QED  BY <1>4, <1>6, <2>2, <3>3 DEF LooksBack
  <2> QED  BY <2>1, <2>2
<1>8. TreeInv(m, N, L, PathOf(st), ScanOf(A, on), d, g, t, R, h)
  BY <1>1, <1>3, <1>5, <1>7, TreeLook
<1>9. on[1].node = r
  <2>1. PathOf(on)[1] = on[1].node /\ PathOf(st)[1] = st[1].node
    BY <1>3, <1>4 DEF PathOf
  <2> QED  BY <1>1, <1>3, <2>1
<1>10. g \in [1..m -> 0..m]
  BY <1>8 DEF TreeInv
<1>11. r \in 1..(m + 1)
  BY <1>1, <1>2
<1> QED  BY <1>1, <1>3, <1>8, <1>9, <1>10, <1>11 DEF SearchOK

NoNext(A, st) == st # <<>> /\ ~(st[Len(st)].next <= Len(A[st[Len(st)].node]))

Returns(r, d, l, st, h, R, v, u, g, to, H, T) ==
    /\ v = st[Len(st)].node /\ u = st[Len(st)].parent /\ u # 0
    /\ to = SubSeq(st, 1, Len(st) - 1)
    /\ g = [l EXCEPT ![u] = Min({@, l[v]})]
    /\ H = IF u = r THEN h + 1 ELSE h
    /\ T = IF u # r /\ l[v] >= d[u] THEN R \cup {u} ELSE R

LEMMA SearchReturns ==
    ASSUME NEW m, NEW N, NEW A, IsGraph(m, N), InOrder(m, N, A), NEW r, NEW d, NEW l, NEW t, NEW st, NEW h, NEW R,
           SearchOK(m, N, A, "tree", r, d, l, t, st, h, R), NoNext(A, st),
           NEW v, NEW u, NEW g, NEW to, NEW H, NEW T, Returns(r, d, l, st, h, R, v, u, g, to, H, T)
    PROVE  SearchOK(m, N, A, "tree", r, d, g, t, to, H, T)
<1> DEFINE L == Len(st)
           p == PathOf(st)
<1>0. /\ v = st[Len(st)].node /\ u = st[Len(st)].parent /\ u # 0 /\ to = SubSeq(st, 1, Len(st) - 1)
      /\ g = [l EXCEPT ![u] = Min({@, l[v]})] /\ H = IF u = r THEN h + 1 ELSE h
      /\ T = IF u # r /\ l[v] >= d[u] THEN R \cup {u} ELSE R
  BY DEF Returns
<1>1. /\ Clocked(m, d, t) /\ l \in [1..m -> 0..m] /\ r \in 1..m /\ d[r] # m
      /\ \A x \in 1..m : x < r => d[x] # m
      /\ StackOK(m, A, st) /\ st[1].node = r
      /\ TreeInv(m, N, L, p, ScanOf(A, st), d, l, t, R, h)
  <2>1. st # <<>>
    BY DEF NoNext
  <2> QED  BY <2>1 DEF SearchOK
<1>2. m \in Nat /\ d \in [1..m -> 0..m] /\ Dfs(m, N, L, p, ScanOf(A, st), d, t)
  BY <1>1 DEF IsGraph, TreeInv, Dfs, DfsTypes
<1>3. L \in Nat /\ L # 0 /\ L > 1 /\ L \in 1..L /\ L - 1 \in 1..L /\ 1 \in 1..L /\ u = st[L - 1].node
  <2>1. L \in Nat /\ L # 0
    BY <1>1, StackParts DEF StackOK, NoNext
  <2>2. L \in 1..L
    BY <2>1
  <2>3. u = IF L = 1 THEN 0 ELSE st[L - 1].node
    BY <1>0, <1>1, <2>2 DEF StackOK
  <2> QED  BY <1>0, <2>1, <2>3, OneBefore
<1>4. /\ p[L] = v /\ p[L - 1] = u /\ p[1] = r /\ v \in 1..m /\ u \in 1..m
  <2>1. p[L] = v /\ p[L - 1] = u /\ p[1] = r
    BY <1>0, <1>1, <1>3 DEF PathOf
  <2>2. p \in [1..L -> 1..m]
    BY <1>1, StackParts
  <2> QED  BY <1>3, <2>1, <2>2
<1>5. Shrunk(st, to)
  BY <1>0, <1>3 DEF Shrunk
<1>6. /\ StackOK(m, A, to) /\ Len(to) = L - 1 /\ to # <<>> /\ to[1] = st[1]
      /\ PathOf(to) \in [1..(L - 1) -> 1..m] /\ ScanOf(A, to) \in [1..(L - 1) -> SUBSET (1..m)]
      /\ \A k \in 1..(L - 1) : PathOf(to)[k] = p[k] /\ ScanOf(A, to)[k] = ScanOf(A, st)[k]
  <2>1. StackOK(m, A, st)
    BY <1>1
  <2> HIDE DEF L, p
  <2>2. StackOK(m, A, to) /\ Len(to) = Len(st) - 1 /\ to # <<>> /\ to[1] = st[1]
    BY ONLY IsGraph(m, N), InOrder(m, N, A), <2>1, <1>5, StackShrink
  <2>3. PathOf(to) \in [1..(Len(st) - 1) -> 1..m] /\ ScanOf(A, to) \in [1..(Len(st) - 1) -> SUBSET (1..m)]
    BY ONLY IsGraph(m, N), InOrder(m, N, A), <2>1, <1>5, StackShrink
  <2>4. ASSUME NEW k \in 1..(Len(st) - 1)
        PROVE  PathOf(to)[k] = PathOf(st)[k] /\ ScanOf(A, to)[k] = ScanOf(A, st)[k]
    BY ONLY IsGraph(m, N), InOrder(m, N, A), <2>1, <1>5, k \in 1..(Len(st) - 1), StackShrink
  <2> QED  BY <2>2, <2>3, <2>4 DEF L, p
<1>7. Popped(m, L, p, ScanOf(A, st), PathOf(to), ScanOf(A, to))
  BY <1>3, <1>6 DEF Popped
<1>8. ScanOf(A, st)[L] = N[p[L]]
  BY <1>1, ScannedAll DEF NoNext
<1>9. Lowered(m, p[L - 1], l[p[L]], l, g)
  <2>1. l[v] \in 0..m
    BY <1>1, <1>4
  <2>2. Lowered(m, u, l[v], l, [l EXCEPT ![u] = Min({@, l[v]})])
    BY ONLY <1>1, <1>2, <1>4, <2>1, LoweredByMin
  <2> QED  BY ONLY <1>0, <1>4, <2>2
<1>10. u = r <=> L = 2
  <2>1. CASE L = 2
    <3>1. L - 1 = 1
      BY ONLY <2>1
    <3> QED  BY ONLY <1>4, <2>1, <3>1
  <2>2. CASE L > 2
    <3>1. 1 < L - 1 /\ L # 2
      <4>1. L \in Nat
        BY <1>3
      <4> HIDE DEF L
      <4> QED  BY ONLY <2>2, <4>1
    <3>2. p[1] # p[L - 1]
      BY <1>2, <1>3, <3>1, OnPath
    <3> QED  BY <1>4, <3>1, <3>2
  <2>3. L = 2 \/ L > 2
    BY <1>3, OneBefore
  <2> QED  BY <2>1, <2>2, <2>3
<1> HIDE DEF p
<1>11. T = IF L > 2 /\ l[p[L]] >= d[p[L - 1]] THEN R \cup {p[L - 1]} ELSE R
  <2>2. L > 2 <=> L # 2
    BY <1>3, OneBefore
  <2>1. L > 2 <=> u # r
    BY <1>10, <2>2
  <2> QED  BY <1>0, <1>4, <2>1
<1>12. TreeInv(m, N, L - 1, PathOf(to), ScanOf(A, to), d, g, t, T, IF L = 2 THEN h + 1 ELSE h)
  BY <1>1, <1>7, <1>8, <1>9, <1>11, TreePop
<1>13. TreeInv(m, N, L - 1, PathOf(to), ScanOf(A, to), d, g, t, T, H)
  BY <1>0, <1>10, <1>12
<1>14. g \in [1..m -> 0..m]
  BY <1>13 DEF TreeInv
<1>15. r \in 1..(m + 1)
  BY <1>1, <1>2
<1> QED  BY <1>1, <1>6, <1>13, <1>14, <1>15 DEF SearchOK

LEMMA SearchEmpties ==
    ASSUME NEW m, NEW N, NEW A, IsGraph(m, N), InOrder(m, N, A), NEW r, NEW d, NEW l, NEW t, NEW st, NEW h, NEW R,
           SearchOK(m, N, A, "tree", r, d, l, t, st, h, R), NoNext(A, st),
           NEW to, to = SubSeq(st, 1, Len(st) - 1), st[Len(st)].parent = 0
    PROVE  SearchOK(m, N, A, "tree", r, d, l, t, to, h, R)
<1> DEFINE L == Len(st)
<1>1. /\ Clocked(m, d, t) /\ l \in [1..m -> 0..m] /\ r \in 1..m /\ d[r] # m /\ r \in 1..(m + 1)
      /\ \A x \in 1..m : x < r => d[x] # m
      /\ StackOK(m, A, st) /\ st[1].node = r
      /\ TreeInv(m, N, L, PathOf(st), ScanOf(A, st), d, l, t, R, h)
  <2>1. st # <<>>
    BY DEF NoNext
  <2> QED  BY <2>1 DEF SearchOK
<1>2. L = 1
  <2>1. L \in Nat /\ L # 0
    BY <1>1, StackParts DEF StackOK, NoNext
  <2>2. L \in 1..L /\ (L # 1 => L - 1 \in 1..L)
    BY <2>1, OneBefore
  <2>3. 0 = IF L = 1 THEN 0 ELSE st[L - 1].node
    BY <1>1, <2>2 DEF StackOK
  <2>4. L # 1 => st[L - 1].node \in 1..m
    BY <1>1, <2>2, StackParts
  <2> QED  BY <2>3, <2>4
<1>3. ScanOf(A, st)[1] = N[PathOf(st)[1]]
  BY <1>1, <1>2, ScannedAll DEF NoNext
<1>4. PathOf(st)[1] = r
  BY <1>1, <1>2 DEF PathOf
<1>5. h \in Nat /\ BetweenTrees(m, N, d, t, IF h > 1 THEN R \cup {PathOf(st)[1]} ELSE R \ {PathOf(st)[1]})
  <2>1. TreeInv(m, N, 1, PathOf(st), ScanOf(A, st), d, l, t, R, h)
    BY <1>1, <1>2
  <2> QED  BY <1>3, <2>1, TreeEnd
<1>6. to = <<>>
  <2>1. st \in Seq(FrameType(m)) /\ Len(st) - 1 = 0
    BY <1>1, <1>2 DEF StackOK
  <2> QED  BY <2>1
<1> QED  BY <1>1, <1>4, <1>5, <1>6 DEF SearchOK

LEMMA SearchMovesOn ==
    ASSUME NEW m, NEW N, NEW A, IsGraph(m, N), NEW r, NEW d, NEW l, NEW t, NEW h, NEW R,
           SearchOK(m, N, A, "tree", r, d, l, t, <<>>, h, R),
           NEW T, T = IF h > 1 THEN R \cup {r} ELSE R \ {r}
    PROVE  SearchOK(m, N, A, "root", r + 1, d, l, t, <<>>, h, T)
<1>1. /\ Clocked(m, d, t) /\ l \in [1..m -> 0..m] /\ r \in 1..m /\ d[r] # m /\ m \in Nat
      /\ \A x \in 1..m : x < r => d[x] # m
      /\ BetweenTrees(m, N, d, t, T)
  BY DEF SearchOK, IsGraph
<1>2. r + 1 \in 1..(m + 1) /\ \A x \in 1..m : x < r + 1 => x < r \/ x = r
  BY <1>1
<1> QED  BY <1>1, <1>2 DEF SearchOK

-----------------------------------------------------------------------------
(***************************************************************************)
(* The actions of LinkGraph.                                               *)
(***************************************************************************)
Lists == [v \in Node |-> Adjacency(v)]

Marked == {v \in Node : articulation[v]}

TarjanInv ==
    /\ n \in Nat /\ articulation \in [Node -> BOOLEAN]
    /\ SearchOK(n, Near, Lists, pc, root, disc, low, time, stack, children, Marked)

LEMMA GraphIsGraph ==
    ASSUME n \in Nat
    PROVE  IsGraph(n, Near) /\ InOrder(n, Near, Lists) /\ Node = 1..n
<1>1. Node = 1..n
  BY DEF Node
<1>2. Near \in [1..n -> SUBSET (1..n)]
  BY <1>1, NeighboursAre DEF Near
<1>3. \A v \in 1..n : Near[v] = Neighbours(v) /\ Lists[v] = Adjacency(v)
  BY <1>1 DEF Near, Lists
<1>4. ASSUME NEW v \in 1..n
      PROVE  v \notin Near[v] /\ \A w \in Near[v] : v \in Near[w]
  <2>1. Neighbours(v) \in SUBSET (1..n) /\ v \notin Neighbours(v) /\ \A w \in Neighbours(v) : v \in Neighbours(w)
    BY <1>1, NeighboursAre
  <2> QED  BY <1>3, <2>1
<1>5. ASSUME NEW v \in 1..n
      PROVE  /\ Lists[v] \in Seq(Near[v]) /\ Len(Lists[v]) \in Nat
             /\ Near[v] = {Lists[v][k] : k \in 1..Len(Lists[v])}
  <2>1. /\ Adjacency(v) \in Seq(Neighbours(v)) /\ Len(Adjacency(v)) \in Nat
        /\ Neighbours(v) = {Adjacency(v)[k] : k \in 1..Len(Adjacency(v))}
    BY <1>1, AdjacencyIs
  <2>2. Near[v] = Neighbours(v) /\ Lists[v] = Adjacency(v)
    BY <1>3
  <2> QED  BY <2>1, <2>2
<1> QED  BY <1>1, <1>2, <1>4, <1>5 DEF IsGraph, InOrder

LEMMA SameGraph == UNCHANGED <<n, links>> => UNCHANGED <<Near, Lists, Node, Unseen>>
BY DEF Near, Lists, Node, Neighbours, Undirected, Adjacency, Unseen

LEMMA TarjanInit == GraphAssumption /\ GraphInit => TarjanInv
<1> SUFFICES ASSUME GraphAssumption, GraphInit PROVE TarjanInv
  OBVIOUS
<1>1. n \in Nat
  BY FS_CardinalityType DEF GraphAssumption, GraphInit
<1>2. /\ disc = [v \in 1..n |-> n] /\ low = [v \in 1..n |-> 0] /\ time = 0 /\ stack = <<>> /\ root = 1
      /\ articulation = [v \in 1..n |-> FALSE] /\ pc = "source"
  BY DEF GraphInit, Node, Unseen
<1>3. Marked = {}
  BY <1>2 DEF Marked, Node
<1>4. {w \in 1..n : disc[w] # n} = {}
  BY <1>2
<1>5. Clocked(n, disc, time)
  BY <1>2, <1>4, FS_EmptySet DEF Clocked
<1>6. BetweenTrees(n, Near, disc, time, Marked)
  BY <1>1, <1>2, <1>3 DEF BetweenTrees, Timed
<1>7. /\ low \in [1..n -> 0..n] /\ root \in 1..(n + 1) /\ (\A v \in 1..n : v < root => disc[v] # n)
      /\ articulation \in [Node -> BOOLEAN]
  BY <1>1, <1>2 DEF Node
<1> QED  BY <1>1, <1>2, <1>5, <1>6, <1>7 DEF TarjanInv, SearchOK

-----------------------------------------------------------------------------
LEMMA TopIs ==
    ASSUME n \in Nat, StackOK(n, Lists, stack), stack # <<>>
    PROVE  /\ Top = stack[Len(stack)] /\ Top.node \in 1..n /\ Lists[Top.node] = Adjacency(Top.node)
           /\ HasNext => NextIs(Lists, stack, Neighbour)
           /\ ~HasNext => NoNext(Lists, stack)
           /\ Stepped(stack, Advanced)
           /\ Top.parent = stack[Len(stack)].parent /\ Len(stack) \in Nat /\ Len(stack) # 0
<1>1. Top = stack[Len(stack)]
  BY DEF Top, Last
<1>2. IsGraph(n, Near) /\ InOrder(n, Near, Lists) /\ Node = 1..n
  BY GraphIsGraph
<1>3. Len(stack) \in Nat /\ Len(stack) # 0
  BY DEF StackOK
<1>4. Top.node \in 1..n
  BY <1>1, <1>2, <1>3, StackParts, OneBefore
<1>5. Lists[Top.node] = Adjacency(Top.node)
  BY <1>2, <1>4 DEF Lists
<1>6. HasNext <=> Top.next <= Len(Adjacency(Top.node))
  BY DEF HasNext
<1>7. Stepped(stack, Advanced)
  BY DEF Stepped, Advanced
<1> QED  BY <1>1, <1>3, <1>4, <1>5, <1>6, <1>7 DEF NextIs, NoNext, Neighbour

LEMMA TarjanDescend == TarjanInv /\ Descend => TarjanInv'
<1> SUFFICES ASSUME TarjanInv, Descend PROVE TarjanInv'
  OBVIOUS
<1> DEFINE w == Neighbour
<1>1. /\ n \in Nat /\ pc = "tree" /\ HasNext /\ disc[w] = n /\ stack # <<>>
      /\ SearchOK(n, Near, Lists, "tree", root, disc, low, time, stack, children, Marked)
      /\ articulation \in [Node -> BOOLEAN]
  BY DEF TarjanInv, Descend, HasNext, Unseen
<1>2. /\ disc' = [disc EXCEPT ![w] = time] /\ time' = time + 1 /\ low' = [low EXCEPT ![w] = time]
      /\ stack' = Append(Advanced, Frame(w, Top.node))
      /\ UNCHANGED <<n, links, pc, root, children, articulation>>
  BY DEF Descend, Discover, graph
<1>3. IsGraph(n, Near) /\ InOrder(n, Near, Lists)
  BY <1>1, GraphIsGraph
<1>4. StackOK(n, Lists, stack)
  BY <1>1 DEF SearchOK
<1>5. NextIs(Lists, stack, w) /\ Stepped(stack, Advanced)
  BY <1>1, <1>4, TopIs
<1>6. Grown(Advanced, w, stack')
  <2>1. /\ Len(Advanced) = Len(stack) /\ PathOf(Advanced) = PathOf(stack)
        /\ Len(stack) \in Nat /\ Len(stack) # 0
    BY <1>1, <1>3, <1>4, <1>5, StackAdvance, TopIs
  <2>2. PathOf(Advanced)[Len(stack)] = Advanced[Len(Advanced)].node /\ PathOf(stack)[Len(stack)] = stack[Len(stack)].node
    BY <2>1, OneBefore DEF PathOf
  <2>3. Top.node = Advanced[Len(Advanced)].node
    BY <1>1, <1>4, <2>1, <2>2, TopIs
  <2> QED  BY <1>2, <2>3 DEF Grown, Frame
<1> HIDE DEF w
<1>7. SearchOK(n, Near, Lists, "tree", root, disc', low', time', stack', children, Marked)
  BY <1>1, <1>2, <1>3, <1>5, <1>6, SearchDescends
<1>8. UNCHANGED <<Near, Lists, Node>>
  BY <1>2, SameGraph
<1>9. Marked' = Marked
  BY <1>2, <1>8 DEF Marked
<1> QED  BY <1>1, <1>2, <1>7, <1>8, <1>9 DEF TarjanInv

LEMMA TarjanLookBack == TarjanInv /\ LookBack => TarjanInv'
<1> SUFFICES ASSUME TarjanInv, LookBack PROVE TarjanInv'
  OBVIOUS
<1> DEFINE w == Neighbour
<1>1. /\ n \in Nat /\ pc = "tree" /\ HasNext /\ disc[w] # n /\ stack # <<>>
      /\ SearchOK(n, Near, Lists, "tree", root, disc, low, time, stack, children, Marked)
      /\ articulation \in [Node -> BOOLEAN]
  BY DEF TarjanInv, LookBack, HasNext, Unseen
<1>2. /\ low' = IF w = Top.parent THEN low ELSE [low EXCEPT ![Top.node] = Min({@, disc[w]})]
      /\ stack' = Advanced
      /\ UNCHANGED <<n, links, pc, root, disc, time, children, articulation>>
  BY DEF LookBack, graph
<1>3. IsGraph(n, Near) /\ InOrder(n, Near, Lists)
  BY <1>1, GraphIsGraph
<1>4. StackOK(n, Lists, stack)
  BY <1>1 DEF SearchOK
<1>5. NextIs(Lists, stack, w) /\ Stepped(stack, stack') /\ Top = stack[Len(stack)]
  BY <1>1, <1>2, <1>4, TopIs
<1> HIDE DEF w
<1>6. low' = IF w = stack[Len(stack)].parent THEN low
             ELSE [low EXCEPT ![stack[Len(stack)].node] = Min({@, disc[w]})]
  BY <1>2, <1>5
<1>7. SearchOK(n, Near, Lists, "tree", root, disc, low', time, stack', children, Marked)
  BY <1>1, <1>3, <1>5, <1>6, SearchLooks
<1>8. UNCHANGED <<Near, Lists, Node>>
  BY <1>2, SameGraph
<1>9. Marked' = Marked
  BY <1>2, <1>8 DEF Marked
<1> QED  BY <1>1, <1>2, <1>7, <1>8, <1>9 DEF TarjanInv

LEMMA TarjanReturn == TarjanInv /\ Return => TarjanInv'
<1> SUFFICES ASSUME TarjanInv, Return PROVE TarjanInv'
  OBVIOUS
<1> DEFINE v == Top.node
           u == Top.parent
<1>1. /\ n \in Nat /\ pc = "tree" /\ ~HasNext /\ stack # <<>>
      /\ SearchOK(n, Near, Lists, "tree", root, disc, low, time, stack, children, Marked)
      /\ articulation \in [Node -> BOOLEAN]
  BY DEF TarjanInv, Return
<1>2. /\ stack' = Front(stack)
      /\ IF u = 0 THEN UNCHANGED <<low, children, articulation>>
         ELSE /\ low' = [low EXCEPT ![u] = Min({@, low[v]})]
              /\ children' = IF u = root THEN children + 1 ELSE children
              /\ articulation' = IF u # root /\ low[v] >= disc[u]
                                 THEN [articulation EXCEPT ![u] = TRUE] ELSE articulation
      /\ UNCHANGED <<n, links, pc, root, disc, time>>
  BY DEF Return, graph
<1>3. IsGraph(n, Near) /\ InOrder(n, Near, Lists) /\ Node = 1..n
  BY <1>1, GraphIsGraph
<1>4. StackOK(n, Lists, stack)
  BY <1>1 DEF SearchOK
<1>5. /\ NoNext(Lists, stack) /\ v = stack[Len(stack)].node /\ u = stack[Len(stack)].parent
      /\ Len(stack) \in Nat /\ Len(stack) # 0
  BY <1>1, <1>4, TopIs
<1>6. stack' = SubSeq(stack, 1, Len(stack) - 1)
  BY <1>2 DEF Front
<1>7. u \in 0..n
  BY <1>3, <1>4, <1>5, StackParts, OneBefore
<1> HIDE DEF v, u
<1>8. UNCHANGED <<Near, Lists, Node>>
  BY <1>2, SameGraph
<1>9. CASE u = 0
  <2>1. SearchOK(n, Near, Lists, "tree", root, disc, low, time, stack', children, Marked)
    BY <1>1, <1>3, <1>5, <1>6, <1>9, SearchEmpties
  <2>2. UNCHANGED <<low, children, articulation>>
    BY <1>2, <1>9
  <2>3. Marked' = Marked
    BY <1>8, <2>2 DEF Marked
  <2> QED  BY <1>1, <1>2, <1>8, <2>1, <2>2, <2>3 DEF TarjanInv
<1>10. CASE u # 0
  <2>1. /\ low' = [low EXCEPT ![u] = Min({@, low[v]})]
        /\ children' = IF u = root THEN children + 1 ELSE children
        /\ articulation' = IF u # root /\ low[v] >= disc[u]
                           THEN [articulation EXCEPT ![u] = TRUE] ELSE articulation
    BY <1>2, <1>10
  <2>2. u \in Node
    BY <1>1, <1>3, <1>7, <1>10
  <2>3. articulation' \in [Node -> BOOLEAN]
    <3>1. CASE u # root /\ low[v] >= disc[u]
      BY <1>1, <2>1, <3>1
    <3>2. CASE ~(u # root /\ low[v] >= disc[u])
      BY <1>1, <2>1, <3>2
    <3> QED  BY <3>1, <3>2
  <2>4. Marked' = IF u # root /\ low[v] >= disc[u] THEN Marked \cup {u} ELSE Marked
    <3>1. CASE u # root /\ low[v] >= disc[u]
      <4>1. articulation' = [articulation EXCEPT ![u] = TRUE]
        BY <2>1, <3>1
      <4>2. \A x \in Node : articulation'[x] = IF x = u THEN TRUE ELSE articulation[x]
        BY <1>1, <2>2, <4>1
      <4>3. Marked' = {x \in Node : articulation'[x]}
        BY <1>8 DEF Marked
      <4>4. Marked' = Marked \cup {u}
        BY <2>2, <4>2, <4>3 DEF Marked
      <4> QED  BY <3>1, <4>4
    <3>2. CASE ~(u # root /\ low[v] >= disc[u])
      <4>1. articulation' = articulation
        BY <2>1, <3>2
      <4>2. Marked' = Marked
        BY <1>8, <4>1 DEF Marked
      <4> QED  BY <3>2, <4>2
    <3> QED  BY <3>1, <3>2
  <2>5. SearchOK(n, Near, Lists, "tree", root, disc, low', time, stack', children', Marked')
    <3> DEFINE T == IF u # root /\ low[v] >= disc[u] THEN Marked \cup {u} ELSE Marked
               below == stack'
               after == IF u = root THEN children + 1 ELSE children
               lower == [low EXCEPT ![u] = Min({@, low[v]})]
    <3>1. Returns(root, disc, low, stack, children, Marked, v, u, lower, below, after, T)
      BY <1>5, <1>6, <1>10 DEF Returns
    <3>4. Marked' = T /\ low' = lower /\ children' = after
      BY ONLY <2>1, <2>4
    <3> HIDE DEF T, below, after, lower
    <3>5. SearchOK(n, Near, Lists, "tree", root, disc, lower, time, below, after, T)
      BY ONLY <1>1, <1>3, <1>5, <3>1, SearchReturns
    <3> QED  BY ONLY <3>4, <3>5 DEF below
  <2> QED  BY <1>1, <1>2, <1>8, <2>3, <2>5 DEF TarjanInv
<1> QED  BY <1>9, <1>10

LEMMA TarjanEndRoot == TarjanInv /\ EndRoot => TarjanInv'
<1> SUFFICES ASSUME TarjanInv, EndRoot PROVE TarjanInv'
  OBVIOUS
<1>1. /\ n \in Nat /\ pc = "tree" /\ stack = <<>>
      /\ SearchOK(n, Near, Lists, "tree", root, disc, low, time, <<>>, children, Marked)
      /\ articulation \in [Node -> BOOLEAN]
  BY DEF TarjanInv, EndRoot
<1>2. /\ articulation' = [articulation EXCEPT ![root] = children > 1]
      /\ root' = root + 1 /\ pc' = "root"
      /\ UNCHANGED <<n, links, disc, low, time, stack, children>>
  BY DEF EndRoot, graph
<1>3. IsGraph(n, Near) /\ Node = 1..n
  BY <1>1, GraphIsGraph
<1>4. root \in Node
  BY <1>1, <1>3 DEF SearchOK
<1>5. UNCHANGED <<Near, Lists, Node>>
  BY <1>2, SameGraph
<1>6. articulation' \in [Node -> BOOLEAN] /\ \A x \in Node : articulation'[x] = IF x = root THEN children > 1 ELSE articulation[x]
  <2>1. (children > 1) \in BOOLEAN
    OBVIOUS
  <2> DEFINE b == children > 1
  <2>2. articulation' = [articulation EXCEPT ![root] = b] /\ b \in BOOLEAN
    BY <1>2, <2>1
  <2> HIDE DEF b
  <2>3. articulation' \in [Node -> BOOLEAN] /\ \A x \in Node : articulation'[x] = IF x = root THEN b ELSE articulation[x]
    BY <1>1, <1>4, <2>2
  <2> QED  BY <2>3 DEF b
<1>7. Marked' = {x \in Node : articulation'[x]}
  BY <1>5 DEF Marked
<1>8. Marked' = IF children > 1 THEN Marked \cup {root} ELSE Marked \ {root}
  <2>1. CASE children > 1
    <3>1. Marked' = Marked \cup {root}
      BY <1>4, <1>6, <1>7, <2>1 DEF Marked
    <3> QED  BY <2>1, <3>1
  <2>2. CASE ~(children > 1)
    <3>1. Marked' = Marked \ {root}
      BY <1>4, <1>6, <1>7, <2>2 DEF Marked
    <3> QED  BY <2>2, <3>1
  <2> QED  BY <2>1, <2>2
<1>9. SearchOK(n, Near, Lists, "root", root', disc, low, time, <<>>, children, Marked')
  BY <1>1, <1>2, <1>3, <1>8, SearchMovesOn
<1> QED  BY <1>1, <1>2, <1>5, <1>6, <1>9 DEF TarjanInv

LEMMA TarjanStartRoot == TarjanInv /\ StartRoot => TarjanInv'
<1> SUFFICES ASSUME TarjanInv, StartRoot PROVE TarjanInv'
  OBVIOUS
<1>1. /\ n \in Nat /\ pc = "root" /\ root <= n /\ disc[root] = n
      /\ SearchOK(n, Near, Lists, "root", root, disc, low, time, stack, children, Marked)
      /\ articulation \in [Node -> BOOLEAN]
  BY DEF TarjanInv, StartRoot, Unseen
<1>2. /\ disc' = [disc EXCEPT ![root] = time] /\ time' = time + 1 /\ low' = [low EXCEPT ![root] = time]
      /\ stack' = <<[node |-> root, parent |-> 0, next |-> 1]>> /\ children' = 0 /\ pc' = "tree"
      /\ UNCHANGED <<n, links, root, articulation>>
  BY DEF StartRoot, Discover, Frame, graph
<1>3. IsGraph(n, Near) /\ InOrder(n, Near, Lists)
  BY <1>1, GraphIsGraph
<1>4. SearchOK(n, Near, Lists, "tree", root, disc', low', time', stack', 0, Marked)
  BY <1>1, <1>2, <1>3, SearchStart
<1>5. UNCHANGED <<Near, Lists, Node>>
  BY <1>2, SameGraph
<1>6. Marked' = Marked
  BY <1>2, <1>5 DEF Marked
<1> QED  BY <1>1, <1>2, <1>4, <1>5, <1>6 DEF TarjanInv

\* The steps between the trees, and those of the measure before.
LEMMA TarjanElsewhere ==
    ASSUME TarjanInv, UNCHANGED <<n, links, disc, low, time, stack, children, articulation>>,
           pc # "tree", pc' # "tree", root' \in 1..(n + 1), root <= root',
           \A v \in 1..n : v >= root /\ v < root' => disc[v] # n,
           pc' = "done" => root' > n
    PROVE  TarjanInv'
<1>1. /\ n \in Nat /\ articulation \in [Node -> BOOLEAN]
      /\ SearchOK(n, Near, Lists, pc, root, disc, low, time, stack, children, Marked)
  BY DEF TarjanInv
<1>2. UNCHANGED <<Near, Lists, Node>>
  BY SameGraph
<1>3. Marked' = Marked
  BY <1>2 DEF Marked
<1>4. root \in 1..(n + 1) /\ (pc' = "done" => root' = n + 1)
  BY <1>1 DEF SearchOK
<1>5. \A v \in 1..n : v < root' => disc[v] # n
  BY <1>1, <1>4 DEF SearchOK
<1>6. SearchOK(n, Near, Lists, pc', root', disc, low, time, stack, children, Marked)
  BY <1>1, <1>4, <1>5 DEF SearchOK
<1> QED  BY <1>1, <1>2, <1>3, <1>6 DEF TarjanInv

LEMMA TarjanNext == TarjanInv /\ [GraphNext]_graphVars => TarjanInv'
<1> SUFFICES ASSUME TarjanInv, [GraphNext]_graphVars PROVE TarjanInv'
  OBVIOUS
<1>0. n \in Nat /\ root \in 1..(n + 1) /\ root <= root
  BY DEF TarjanInv, SearchOK
<1>1. CASE StartSource \/ Visit \/ VisitedAll \/ Back \/ NextSource \/ Normalise
  <2>1. /\ UNCHANGED <<n, links, disc, low, time, stack, children, articulation, root>>
        /\ pc # "tree" /\ pc' # "tree" /\ pc' # "done"
    BY <1>1 DEF StartSource, Visit, VisitedAll, Back, NextSource, Normalise, graph, brandes, tarjan
  <2>2. \A v \in 1..n : ~(v >= root /\ v < root)
    BY <1>0
  <2> QED  BY <1>0, <2>1, <2>2, TarjanElsewhere
<1>2. CASE StartRoot
  BY <1>2, TarjanStartRoot
<1>3. CASE SkipRoot
  <2>1. /\ UNCHANGED <<n, links, disc, low, time, stack, children, articulation>>
        /\ pc = "root" /\ pc' = "root" /\ root' = root + 1 /\ root <= n /\ disc[root] # n
    BY <1>3 DEF SkipRoot, graph, Unseen
  <2>2. root' \in 1..(n + 1) /\ root <= root' /\ \A v \in 1..n : v >= root /\ v < root' => v = root
    BY <1>0, <2>1
  <2> QED  BY <2>1, <2>2, TarjanElsewhere
<1>4. CASE Descend
  BY <1>4, TarjanDescend
<1>5. CASE LookBack
  BY <1>5, TarjanLookBack
<1>6. CASE Return
  BY <1>6, TarjanReturn
<1>7. CASE EndRoot
  BY <1>7, TarjanEndRoot
<1>8. CASE Finish
  <2>1. /\ UNCHANGED <<n, links, disc, low, time, stack, children, articulation, root>>
        /\ pc = "root" /\ pc' = "done" /\ root > n
    BY <1>8 DEF Finish, graph, brandes, tarjan
  <2>2. \A v \in 1..n : ~(v >= root /\ v < root)
    BY <1>0
  <2> QED  BY <1>0, <2>1, <2>2, TarjanElsewhere
<1>9. CASE UNCHANGED graphVars
  <2>1. UNCHANGED <<n, links, disc, low, time, stack, children, articulation, root, pc>>
    BY <1>9 DEF graphVars, graph, brandes, tarjan
  <2>2. UNCHANGED <<Near, Lists, Node>>
    BY <2>1, SameGraph
  <2>3. Marked' = Marked
    BY <2>1, <2>2 DEF Marked
  <2> QED  BY <2>1, <2>2, <2>3 DEF TarjanInv
<1> QED  BY <1>1, <1>2, <1>3, <1>4, <1>5, <1>6, <1>7, <1>8, <1>9 DEF GraphNext

(***************************************************************************)
(* The finished search, read with the definitions of the property.         *)
(***************************************************************************)
LEMMA DoneIsCut == TarjanInv => ArticulationIsCut
<1> SUFFICES ASSUME TarjanInv, pc = "done", NEW v \in Node
             PROVE  articulation[v] <=> \E x, y \in Neighbours(v) : y \notin Reach(x, {v})
  BY DEF ArticulationIsCut
<1>1. /\ n \in Nat /\ root = n + 1 /\ BetweenTrees(n, Near, disc, time, Marked) /\ Node = 1..n
      /\ \A w \in 1..n : w < root => disc[w] # n
  BY GraphIsGraph DEF TarjanInv, SearchOK
<1>2. v < root
  BY <1>1
<1>3. v \in Marked <=> IsCut(n, Near, v)
  BY <1>1, <1>2 DEF BetweenTrees
<1>4. \A w \in Node : Near[w] = Neighbours(w)
  BY DEF Near
<1>5. ASSUME NEW x \in Node, NEW y \in Node
      PROVE  LinkedBut(n, Near, v, x, y) <=> y \in Reach(x, {v})
  <2>1. LinkedBut(n, Near, v, x, y) <=>
          \A S \in SUBSET Node : x \in S /\ (\A w \in S : Near[w] \ {v} \subseteq S) => y \in S
    BY <1>1 DEF LinkedBut
  <2>2. y \in Reach(x, {v}) <=>
          \A S \in SUBSET Node : x \in S /\ (\A w \in S : Neighbours(w) \ {v} \subseteq S) => y \in S
    BY DEF Reach
  <2>3. ASSUME NEW S \in SUBSET Node
        PROVE  (\A w \in S : Near[w] \ {v} \subseteq S) <=> (\A w \in S : Neighbours(w) \ {v} \subseteq S)
    BY <1>4
  <2> QED  BY <2>1, <2>2, <2>3
<1>6. Neighbours(v) \subseteq Node /\ Near[v] = Neighbours(v)
  BY <1>1, <1>4, NeighboursAre
<1>7. IsCut(n, Near, v) <=> \E x, y \in Neighbours(v) : y \notin Reach(x, {v})
  BY <1>5, <1>6 DEF IsCut
<1>8. v \in Marked <=> articulation[v]
  BY DEF Marked
<1> QED  BY <1>3, <1>7, <1>8

(***************************************************************************)
(* The articulation points are right, in a wiki of any size: when the      *)
(* search is done, a node is marked exactly if without it two of its       *)
(* neighbours are in different pieces (structural_metrics, the iterative   *)
(* Tarjan with its own stack; the explorer shows these nodes as bridges).  *)
(***************************************************************************)
THEOREM BridgesAreCuts == GraphSpec => []ArticulationIsCut
<1>1. GraphInit => TarjanInv
  BY GraphAssumption, TarjanInit
<1> QED  BY <1>1, TarjanNext, DoneIsCut, PTL DEF GraphSpec

-----------------------------------------------------------------------------
(***************************************************************************)
(* The explorers of the sessions, and their refreshes.                     *)
(***************************************************************************)
Counts == [File -> Nat]

Graph == [next : Nat \ {0}, pages : [File -> Texts \cup {NoFile}], raws : SUBSET Blob, seen : Counts]

SessionRecord == [open : BOOLEAN, holder : Call \cup {Nobody}, listed : Server \cup {Nobody}]

CallRecord == [at : {"idle", "waiting", "build", "answered"}, for : Session \cup {Nobody}, build : Graph]

ServerRecord == [state : {"none", "serving", "ended"}, owner : Session \cup {Nobody}, graph : Graph]

ExplorerTypeOK ==
    /\ disk \in [pages : [File -> Texts \cup {NoFile}], raws : SUBSET Blob]
    /\ written \in Counts
    /\ session \in [Session -> SessionRecord]
    /\ call \in [Call -> CallRecord]
    /\ server \in [Server -> ServerRecord]
    /\ refresh \in [Refresh -> [at : {"idle", "build", "built", "answered"},
                                for : Server \cup {Nobody}, build : Graph]]
    /\ asked \in [Server -> [since : Counts, kept : Counts]]

(***************************************************************************)
(* What makes RunningIsListed inductive: a call that starts an explorer    *)
(* holds the lock of its session, so no other does, and found none there.  *)
(***************************************************************************)
HoldsLock(c) ==
    call[c].at = "build" => session[call[c].for].holder = c /\ ~IsListed(call[c].for)

OwnerLists(e) ==
    server[e].state = "serving" =>
        server[e].owner \in Session /\ session[server[e].owner].listed = e

LockInv ==
    /\ \A c \in Call : call[c].at \in {"waiting", "build"} => call[c].for \in Session
    /\ \A c \in Call : HoldsLock(c)
    /\ \A e \in Server : OwnerLists(e)
    /\ \A u \in Session : session[u].listed # Nobody => server[session[u].listed].state # "none"

(***************************************************************************)
(* What makes RefreshIsKept inductive: what a refresh under way has read   *)
(* of a file is no older than what was written when the first of those     *)
(* that run was asked for; files that are not walked are never written.    *)
(***************************************************************************)
ReadSince(build, since) ==
    \A i \in DOMAIN Walk : i < build.next => since[Walk[i]] <= build.seen[Walk[i]]

Refreshes(r) ==
    IF refresh[r].at \in {"build", "built"}
    THEN /\ refresh[r].for \in Server
         /\ server[refresh[r].for].state = "serving"
         /\ ReadSince(refresh[r].build, asked[refresh[r].for].since)
         /\ refresh[r].at = "built" => IsRead(refresh[r].build)
    ELSE refresh[r].for = Nobody

Keeps(e) ==
    /\ \A f \in File : asked[e].since[f] <= written[f]
    /\ server[e].state = "none" => \A f \in File : asked[e].kept[f] = 0
    /\ server[e].state = "serving" => \A f \in File : asked[e].kept[f] <= server[e].graph.seen[f]

RefreshInv ==
    /\ \A f \in File \ Walked : written[f] = 0
    /\ \A r \in Refresh : Refreshes(r)
    /\ \A e \in Server : Keeps(e)

-----------------------------------------------------------------------------
LEMMA UnreadIsGraph == Unread \in Graph
BY DEF Unread, Graph, Counts

LEMMA ReadNextReads ==
    ASSUME WalkAssumption, ExplorerTypeOK, NEW build \in Graph, ~IsRead(build), NEW old
    PROVE  /\ ReadNext(build, old) \in Graph
           /\ ReadNext(build, old).next = build.next + 1
           /\ build.next \in DOMAIN Walk /\ Walk[build.next] \in File
           /\ ReadNext(build, old).seen = [build.seen EXCEPT ![Walk[build.next]] = written[Walk[build.next]]]
<1> DEFINE f == Walk[build.next]
<1>1. build.next \in DOMAIN Walk /\ f \in File
  BY DEF WalkAssumption, IsRead, Graph
<1>2. ReadNext(build, old) = [build EXCEPT !.next = build.next + 1,
                                           !.pages = [build.pages EXCEPT ![f] = disk.pages[f]],
                                           !.seen = [build.seen EXCEPT ![f] = written[f]]]
  BY DEF ReadNext, Graph
<1>3. [build.pages EXCEPT ![f] = disk.pages[f]] \in [File -> Texts \cup {NoFile}]
  BY <1>1 DEF Graph, ExplorerTypeOK
<1>4. [build.seen EXCEPT ![f] = written[f]] \in Counts
  BY <1>1 DEF Graph, ExplorerTypeOK, Counts
<1>5. build.next + 1 \in Nat \ {0}
  BY DEF Graph
<1> HIDE DEF f
<1>6. /\ ReadNext(build, old) \in Graph
      /\ ReadNext(build, old).next = build.next + 1
      /\ ReadNext(build, old).seen = [build.seen EXCEPT ![f] = written[f]]
  BY <1>2, <1>3, <1>4, <1>5 DEF Graph
<1> QED  BY <1>1, <1>6 DEF f

LEMMA ResolvedKeeps ==
    ASSUME ExplorerTypeOK, NEW build \in Graph, NEW to \in Resolved(build)
    PROVE  /\ to \in Graph
           /\ to.seen = build.seen /\ to.next = build.next /\ to.pages = build.pages
           /\ to.raws \subseteq disk.raws
<1>1. PICK blobs \in Resolutions(build.pages) : to = [build EXCEPT !.raws = blobs]
  BY DEF Resolved
<1>2. blobs \subseteq disk.raws /\ disk.raws \subseteq Blob
  BY DEF Resolutions, ExplorerTypeOK
<1> QED  BY <1>1, <1>2 DEF Graph

LEMMA TypeInit == WalkAssumption /\ ExplorerInit => ExplorerTypeOK
<1> SUFFICES ASSUME WalkAssumption, ExplorerInit
             PROVE  ExplorerTypeOK
  OBVIOUS
<1>1. disk \in [pages : [File -> Texts \cup {NoFile}], raws : SUBSET Blob]
  BY DEF ExplorerInit
<1>2. written \in Counts
  BY DEF ExplorerInit, Counts
<1> QED
  BY <1>1, <1>2, UnreadIsGraph DEF ExplorerInit, ExplorerTypeOK, Idle, Bare, SessionRecord, ServerRecord, CallRecord

\* The lock of a session is taken or given back, or the session ends.
LEMMA SessionTypes ==
    ASSUME ExplorerTypeOK, NEW u, NEW h \in Call \cup {Nobody}
    PROVE  /\ [session EXCEPT ![u].holder = h] \in [Session -> SessionRecord]
           /\ [session EXCEPT ![u].open = FALSE] \in [Session -> SessionRecord]
<1>1. \A r \in SessionRecord : /\ [r EXCEPT !.holder = h] \in SessionRecord
                               /\ [r EXCEPT !.open = FALSE] \in SessionRecord
  BY DEF SessionRecord
<1>2. session \in [Session -> SessionRecord]
  BY DEF ExplorerTypeOK
<1>3. [session EXCEPT ![u].holder = h] \in [Session -> SessionRecord]
  BY <1>1, <1>2
<1>4. [session EXCEPT ![u].open = FALSE] \in [Session -> SessionRecord]
  BY <1>1, <1>2
<1> QED  BY <1>3, <1>4

\* An explorer is put into the table, and the lock given back.
LEMMA ListedTypes ==
    ASSUME ExplorerTypeOK, NEW u, NEW e \in Server
    PROVE  [session EXCEPT ![u].listed = e, ![u].holder = Nobody] \in [Session -> SessionRecord]
<1> DEFINE listed == [session EXCEPT ![u].listed = e]
<1>1. \A r \in SessionRecord : /\ [r EXCEPT !.listed = e] \in SessionRecord
                               /\ [r EXCEPT !.holder = Nobody] \in SessionRecord
  BY DEF SessionRecord
<1>2. listed \in [Session -> SessionRecord]
  BY <1>1 DEF ExplorerTypeOK
<1>3. [session EXCEPT ![u].listed = e, ![u].holder = Nobody] = [listed EXCEPT ![u].holder = Nobody]
  OBVIOUS
<1> HIDE DEF listed
<1> QED  BY <1>1, <1>2, <1>3

\* Every action keeps the types.
LEMMA TypeNext ==
    ASSUME WalkAssumption, ExplorerTypeOK, [ExplorerNext]_explorerVars
    PROVE  ExplorerTypeOK'
<1> USE DEF ExplorerTypeOK, CallRecord
<1>1. ASSUME NEW c \in Call, NEW u \in Session, Ask(c, u)
      PROVE  ExplorerTypeOK'
  BY <1>1, UnreadIsGraph DEF Ask, Idle
<1>2. ASSUME NEW c \in Call, Reuse(c)
      PROVE  ExplorerTypeOK'
  BY <1>2, UnreadIsGraph DEF Reuse, Idle, Answered
<1>3. ASSUME NEW c \in Call, Bind(c)
      PROVE  ExplorerTypeOK'
  <2>1. session' \in [Session -> SessionRecord]
    BY <1>3, SessionTypes DEF Bind
  <2>2. UNCHANGED <<disk, written, server, refresh, asked>>
    BY <1>3 DEF Bind
  <2>3. call' \in [Call -> CallRecord]
    BY <1>3 DEF Bind
  <2> QED  BY <2>1, <2>2, <2>3
<1>4. ASSUME NEW c \in Call, Build(c)
      PROVE  ExplorerTypeOK'
  <2>1. call[c].build \in Graph /\ ~IsRead(call[c].build)
    BY <1>4 DEF Build
  <2>2. ReadNext(call[c].build, Unread) \in Graph
    BY <2>1, ReadNextReads
  <2> QED  BY <1>4, <2>2 DEF Build
<1>5. ASSUME NEW c \in Call, ServeFails(c)
      PROVE  ExplorerTypeOK'
  <2>1. session' \in [Session -> SessionRecord]
    BY <1>5, SessionTypes DEF ServeFails
  <2>2. UNCHANGED <<disk, written, server, refresh, asked>> /\ call' = [call EXCEPT ![c] = Answered]
    BY <1>5 DEF ServeFails
  <2> QED  BY <2>1, <2>2, UnreadIsGraph DEF Idle, Answered
<1>6. ASSUME NEW c \in Call, NEW e \in Server, Spawn(c, e)
      PROVE  ExplorerTypeOK'
  <2>1. \A to \in Resolved(call[c].build) : to \in Graph
    BY ResolvedKeeps
  <2>2. session' \in [Session -> SessionRecord]
    BY <1>6, ListedTypes DEF Spawn
  <2>3. server' \in [Server -> ServerRecord]
    BY <1>6, <2>1 DEF Spawn, ServerRecord
  <2>4. UNCHANGED <<disk, written, refresh, asked>> /\ call' = [call EXCEPT ![c] = Answered]
    BY <1>6 DEF Spawn
  <2> QED  BY <2>2, <2>3, <2>4, UnreadIsGraph DEF Idle, Answered
<1>7. ASSUME NEW e \in Server, ServerEnds(e)
      PROVE  ExplorerTypeOK'
  BY <1>7, UnreadIsGraph DEF ServerEnds, Bare, Idle, Answered, ServerRecord
<1>8. ASSUME NEW u \in Session, SessionEnds(u)
      PROVE  ExplorerTypeOK'
  <2>1. session' \in [Session -> SessionRecord]
    BY <1>8, SessionTypes DEF SessionEnds
  <2> QED  BY <1>8, <2>1 DEF SessionEnds
<1>9. ASSUME NEW r \in Refresh, NEW e \in Server, AskRefresh(r, e)
      PROVE  ExplorerTypeOK'
  <2> DEFINE to == [Idle EXCEPT !.at = "build", !.for = e]
  <2>1. to \in [at : {"idle", "build", "built", "answered"}, for : Server \cup {Nobody}, build : Graph]
    BY UnreadIsGraph DEF Idle
  <2>2. refresh' = [refresh EXCEPT ![r] = to]
    BY <1>9 DEF AskRefresh
  <2> HIDE DEF to
  <2>3. refresh' \in [Refresh -> [at : {"idle", "build", "built", "answered"},
                                for : Server \cup {Nobody}, build : Graph]]
    BY <2>1, <2>2
  <2>4. asked' \in [Server -> [since : Counts, kept : Counts]]
    <3>1. asked' = asked \/ asked' = [asked EXCEPT ![e].since = written]
      BY <1>9 DEF AskRefresh
    <3>2. [asked[e] EXCEPT !.since = written] \in [since : Counts, kept : Counts]
      OBVIOUS
    <3>3. [asked EXCEPT ![e].since = written] \in [Server -> [since : Counts, kept : Counts]]
      BY <3>2
    <3> QED  BY <3>1, <3>3
  <2>5. UNCHANGED <<disk, written, session, call, server>>
    BY <1>9 DEF AskRefresh
  <2> QED  BY <2>3, <2>4, <2>5
<1>10. ASSUME NEW r \in Refresh, Rebuild(r)
       PROVE  ExplorerTypeOK'
  <2> DEFINE old == server[refresh[r].for].graph
  <2>1. refresh[r].build \in Graph /\ ~IsRead(refresh[r].build)
    BY <1>10 DEF Rebuild
  <2>2. ReadNext(refresh[r].build, old) \in Graph
    BY <2>1, ReadNextReads
  <2>3. refresh' = [refresh EXCEPT ![r].build = ReadNext(refresh[r].build, old)]
    BY <1>10 DEF Rebuild
  <2> HIDE DEF old
  <2> QED  BY <1>10, <2>2, <2>3 DEF Rebuild
<1>11. ASSUME NEW r \in Refresh, RebuildFails(r)
       PROVE  ExplorerTypeOK'
  BY <1>11, UnreadIsGraph DEF RebuildFails, Idle, Answered
<1>12. ASSUME NEW r \in Refresh, Rebuilt(r)
       PROVE  ExplorerTypeOK'
  <2>2. PICK to \in Resolved(refresh[r].build) :
            refresh' = [refresh EXCEPT ![r].at = "built", ![r].build = to]
    BY <1>12 DEF Rebuilt
  <2>1. to \in Graph
    BY ResolvedKeeps
  <2> DEFINE R == [at : {"idle", "build", "built", "answered"}, for : Server \cup {Nobody}, build : Graph]
  <2>3. \A x \in R : [x EXCEPT !.at = "built", !.build = to] \in R
    BY ONLY <2>1
  <2>4. refresh \in [Refresh -> R]
    BY DEF ExplorerTypeOK
  <2>5. refresh' = [refresh EXCEPT ![r] = [@ EXCEPT !.at = "built", !.build = to]]
    BY ONLY <2>2
  <2>6. refresh' \in [Refresh -> R]
    <3> HIDE DEF R
    <3> QED  BY ONLY <2>3, <2>4, <2>5, r \in Refresh
  <2> QED  BY <1>12, <2>6 DEF Rebuilt
<1>13. ASSUME NEW r \in Refresh, Replace(r)
       PROVE  ExplorerTypeOK'
  <2> DEFINE e == refresh[r].for
  <2>1. server' \in [Server -> ServerRecord]
    <3>1. \A x \in ServerRecord : [x EXCEPT !.graph = refresh[r].build] \in ServerRecord
      BY DEF ServerRecord
    <3>2. server' = [server EXCEPT ![e].graph = refresh[r].build]
      BY <1>13 DEF Replace
    <3> QED  BY <3>1, <3>2
  <2>2. asked' \in [Server -> [since : Counts, kept : Counts]]
    <3>1. asked' = [asked EXCEPT ![e].kept = asked[e].since]
      BY <1>13 DEF Replace
    <3>2. ASSUME NEW d \in Server
          PROVE  asked'[d] \in [since : Counts, kept : Counts]
      <4>1. CASE d = e
        BY <3>1, <4>1
      <4>2. CASE d # e
        BY <3>1, <4>2
      <4> QED  BY <4>1, <4>2
    <3> QED  BY <3>1, <3>2
  <2>3. UNCHANGED <<disk, written, session, call>> /\ refresh' = [refresh EXCEPT ![r] = Answered]
    BY <1>13 DEF Replace
  <2> QED  BY <2>1, <2>2, <2>3, UnreadIsGraph DEF Idle, Answered
<1>14. ASSUME NEW f \in Walked, NEW text \in Texts, WritePage(f, text)
       PROVE  ExplorerTypeOK'
  <2>1. f \in File
    BY <1>14 DEF Walked, WalkAssumption
  <2>2. disk' \in [pages : [File -> Texts \cup {NoFile}], raws : SUBSET Blob]
    BY <1>14 DEF WritePage
  <2>3. written' \in Counts
    BY <1>14, <2>1 DEF WritePage, Counts
  <2> QED  BY <1>14, <2>2, <2>3 DEF WritePage
<1>15. ASSUME NEW raws \in SUBSET Blob, ChangeRaws(raws)
       PROVE  ExplorerTypeOK'
  BY <1>15 DEF ChangeRaws
<1>16. CASE UNCHANGED explorerVars
  BY <1>16 DEF explorerVars
<1> QED
  BY <1>1, <1>2, <1>3, <1>4, <1>5, <1>6, <1>7, <1>8, <1>9, <1>10, <1>11, <1>12, <1>13, <1>14, <1>15,
     <1>16 DEF ExplorerNext

-----------------------------------------------------------------------------
(***************************************************************************)
(* Most steps take at most a call out of the race, and leave the table and *)
(* the states of the explorers as they are.                                *)
(***************************************************************************)
LEMMA LockFrame ==
    ASSUME ExplorerTypeOK, LockInv,
           \A c \in Call : call'[c].at \in {"waiting", "build"} =>
                  \/ call'[c].at = call[c].at /\ call'[c].for = call[c].for
                  \/ call'[c].at = "waiting" /\ call'[c].for \in Session,
           \A u \in Session : session'[u].holder = session[u].holder /\ session'[u].listed = session[u].listed,
           \A e \in Server : server'[e].state = server[e].state /\ server'[e].owner = server[e].owner
    PROVE  LockInv'
<1> USE DEF LockInv
<1>1. (\A c \in Call : call[c].at \in {"waiting", "build"} => call[c].for \in Session)'
  OBVIOUS
<1>2. ASSUME NEW u \in Session
      PROVE  /\ IsListed(u)' <=> IsListed(u)
             /\ (session[u].listed # Nobody => server[session[u].listed].state # "none")'
  BY <1>2 DEF IsListed, ExplorerTypeOK, SessionRecord
<1>3. ASSUME NEW c \in Call
      PROVE  HoldsLock(c)'
  BY <1>1, <1>2 DEF HoldsLock
<1>4. ASSUME NEW e \in Server
      PROVE  OwnerLists(e)'
  BY <1>4 DEF OwnerLists
<1> QED  BY <1>1, <1>2, <1>3, <1>4

\* The lock is taken: it was free, so no other call of that session holds it.
LEMMA LockBind ==
    ASSUME NobodyAssumption, ExplorerTypeOK, LockInv, NEW c \in Call, Bind(c)
    PROVE  LockInv'
<1> DEFINE u == call[c].for
<1>1. /\ call[c].at = "waiting" /\ u \in Session /\ session[u].holder = Nobody /\ ~IsListed(u)
      /\ server' = server
  BY DEF Bind, LockInv
<1>2. \A d \in Call : call'[d].for = call[d].for /\ call'[d].at = IF d = c THEN "build" ELSE call[d].at
  BY DEF Bind, ExplorerTypeOK, CallRecord
<1>3. \A t \in Session : /\ session'[t].listed = session[t].listed
                         /\ session'[t].holder = IF t = u THEN c ELSE session[t].holder
  BY DEF Bind, ExplorerTypeOK, SessionRecord
<1>4. \A t \in Session : IsListed(t)' <=> IsListed(t)
  BY <1>1, <1>3 DEF IsListed
<1> HIDE DEF u
<1>5. ASSUME NEW d \in Call
      PROVE  HoldsLock(d)'
  <2>1. CASE d = c
    BY <1>1, <1>2, <1>3, <1>4, <2>1 DEF HoldsLock, u
  <2>2. CASE d # c
    <3>1. call[d].at = "build" => call[d].for # u
      BY <1>1, NobodyAssumption DEF LockInv, HoldsLock
    <3> QED  BY <1>2, <1>3, <1>4, <2>2, <3>1 DEF HoldsLock, LockInv
  <2> QED  BY <2>1, <2>2
<1>6. (\A d \in Call : call[d].at \in {"waiting", "build"} => call[d].for \in Session)'
  BY <1>1, <1>2 DEF LockInv, u
<1>7. ASSUME NEW e \in Server
      PROVE  OwnerLists(e)'
  BY <1>1, <1>3 DEF LockInv, OwnerLists
<1>8. (\A t \in Session : session[t].listed # Nobody => server[session[t].listed].state # "none")'
  BY <1>1, <1>3 DEF LockInv
<1> QED  BY <1>5, <1>6, <1>7, <1>8 DEF LockInv

\* The lock is given back: only the call that had it was starting an explorer of that session.
LEMMA LockServeFails ==
    ASSUME NobodyAssumption, ExplorerTypeOK, LockInv, NEW c \in Call, ServeFails(c)
    PROVE  LockInv'
<1> DEFINE u == call[c].for
<1>1. call[c].at = "build" /\ u \in Session /\ session[u].holder = c /\ server' = server
  BY DEF ServeFails, LockInv, HoldsLock
<1>2. \A d \in Call : IF d = c THEN call'[d].at = "answered"
                      ELSE call'[d] = call[d]
  BY DEF ServeFails, ExplorerTypeOK, Answered, Idle
<1>3. \A t \in Session : /\ session'[t].listed = session[t].listed
                         /\ session'[t].holder = IF t = u THEN Nobody ELSE session[t].holder
  BY DEF ServeFails, ExplorerTypeOK, SessionRecord
<1>4. \A t \in Session : IsListed(t)' <=> IsListed(t)
  BY <1>1, <1>3 DEF IsListed
<1> HIDE DEF u
<1>5. ASSUME NEW d \in Call
      PROVE  HoldsLock(d)'
  <2>1. CASE d = c
    BY <1>2, <2>1 DEF HoldsLock
  <2>2. CASE d # c
    <3>1. call[d].at = "build" => call[d].for # u
      BY <1>1, <2>2 DEF LockInv, HoldsLock
    <3> QED  BY <1>2, <1>3, <1>4, <2>2, <3>1 DEF HoldsLock, LockInv
  <2> QED  BY <2>1, <2>2
<1>6. (\A d \in Call : call[d].at \in {"waiting", "build"} => call[d].for \in Session)'
  BY <1>2 DEF LockInv
<1>7. ASSUME NEW e \in Server
      PROVE  OwnerLists(e)'
  BY <1>1, <1>3 DEF LockInv, OwnerLists
<1>8. (\A t \in Session : session[t].listed # Nobody => server[session[t].listed].state # "none")'
  BY <1>1, <1>3 DEF LockInv
<1> QED  BY <1>5, <1>6, <1>7, <1>8 DEF LockInv

\* The explorer is put into the table: no other one of that session runs, for it would be listed.
LEMMA LockSpawn ==
    ASSUME NobodyAssumption, ExplorerTypeOK, LockInv, NEW c \in Call, NEW e \in Server, Spawn(c, e)
    PROVE  LockInv'
<1> DEFINE u == call[c].for
<1>1. /\ call[c].at = "build" /\ u \in Session /\ session[u].holder = c /\ ~IsListed(u)
      /\ server[e].state = "none"
  BY DEF Spawn, LockInv, HoldsLock
<1>2. \A d \in Call : IF d = c THEN call'[d].at = "answered"
                      ELSE call'[d] = call[d]
  BY DEF Spawn, ExplorerTypeOK, Answered, Idle
<1>3. \A t \in Session : IF t = u THEN session'[t].listed = e /\ session'[t].holder = Nobody
                         ELSE session'[t] = session[t]
  BY DEF Spawn, ExplorerTypeOK, SessionRecord
<1>4. \A x \in Server : IF x = e THEN server'[x].state = "serving" /\ server'[x].owner = u
                        ELSE server'[x] = server[x]
  BY DEF Spawn, ExplorerTypeOK
<1> HIDE DEF u
<1>5. \A t \in Session \ {u} : session[t].listed # e
  BY <1>1, NobodyAssumption DEF LockInv
<1>6. \A t \in Session : session[t].listed \in Server \cup {Nobody}
  BY DEF ExplorerTypeOK, SessionRecord
<1>7. ASSUME NEW d \in Call
      PROVE  HoldsLock(d)'
  <2>1. CASE d = c
    BY <1>2, <2>1 DEF HoldsLock
  <2>2. CASE d # c /\ call[d].at = "build"
    <3>1. call[d].for \in Session \ {u}
      BY <1>1, <2>2 DEF LockInv, HoldsLock
    <3>2. session'[call[d].for] = session[call[d].for]
      BY <1>3, <3>1
    <3>3. ~IsListed(call[d].for)'
      BY <1>2, <1>4, <1>5, <1>6, <2>2, <3>1, <3>2 DEF LockInv, HoldsLock, IsListed
    <3> QED  BY <1>2, <2>2, <3>2, <3>3 DEF HoldsLock, LockInv
  <2>3. CASE d # c /\ call[d].at # "build"
    BY <1>2, <2>3 DEF HoldsLock
  <2> QED  BY <2>1, <2>2, <2>3
<1>8. (\A d \in Call : call[d].at \in {"waiting", "build"} => call[d].for \in Session)'
  BY <1>2 DEF LockInv
<1>9. ASSUME NEW x \in Server
      PROVE  OwnerLists(x)'
  <2>1. CASE x = e
    BY <1>1, <1>3, <1>4, <2>1 DEF OwnerLists
  <2>2. CASE x # e /\ server[x].state = "serving"
    <3>1. server[x].owner \in Session /\ session[server[x].owner].listed = x
      BY <2>2 DEF LockInv, OwnerLists
    <3>2. server[x].owner # u
      BY <1>1, <2>2, <3>1, NobodyAssumption DEF IsListed
    <3> QED  BY <1>3, <1>4, <2>2, <3>1, <3>2 DEF OwnerLists
  <2>3. CASE x # e /\ server[x].state # "serving"
    BY <1>4, <2>3 DEF OwnerLists
  <2> QED  BY <2>1, <2>2, <2>3
<1>10. ASSUME NEW t \in Session
       PROVE  (session[t].listed # Nobody => server[session[t].listed].state # "none")'
  <2>1. CASE t = u
    BY <1>3, <1>4, <2>1
  <2>2. CASE t # u
    BY <1>3, <1>4, <1>5, <1>6, <2>2 DEF LockInv
  <2> QED  BY <2>1, <2>2
<1> QED  BY <1>7, <1>8, <1>9, <1>10 DEF LockInv

LEMMA LockServerEnds ==
    ASSUME ExplorerTypeOK, LockInv, NEW e \in Server, ServerEnds(e)
    PROVE  LockInv'
<1>1. UNCHANGED <<session, call>>
  BY DEF ServerEnds
<1>2. \A x \in Server : IF x = e THEN server'[x].state = "ended" ELSE server'[x] = server[x]
  BY DEF ServerEnds, ExplorerTypeOK, Bare
<1>3. \A t \in Session : session[t].listed \in Server \cup {Nobody}
  BY DEF ExplorerTypeOK, SessionRecord
<1>4. \A t \in Session : IsListed(t)' => IsListed(t)
  BY <1>1, <1>2, <1>3 DEF IsListed
<1>5. ASSUME NEW c \in Call
      PROVE  HoldsLock(c)'
  BY <1>1, <1>4 DEF HoldsLock, LockInv
<1>6. ASSUME NEW x \in Server
      PROVE  OwnerLists(x)'
  BY <1>1, <1>2 DEF OwnerLists, LockInv
<1>7. (\A t \in Session : session[t].listed # Nobody => server[session[t].listed].state # "none")'
  BY <1>1, <1>2, <1>3 DEF LockInv
<1> QED  BY <1>1, <1>5, <1>6, <1>7 DEF LockInv

LEMMA LockNext ==
    ASSUME NobodyAssumption, ExplorerTypeOK, LockInv, [ExplorerNext]_explorerVars
    PROVE  LockInv'
<1>1. ASSUME NEW c \in Call, NEW u \in Session, Ask(c, u)
      PROVE  LockInv'
  BY <1>1, LockFrame DEF Ask, Idle, ExplorerTypeOK, CallRecord
<1>2. ASSUME NEW c \in Call, Reuse(c)
      PROVE  LockInv'
  BY <1>2, LockFrame DEF Reuse, Idle, Answered, ExplorerTypeOK, CallRecord
<1>3. ASSUME NEW c \in Call, Build(c)
      PROVE  LockInv'
  BY <1>3, LockFrame DEF Build, ExplorerTypeOK, CallRecord
<1>4. ASSUME NEW u \in Session, SessionEnds(u)
      PROVE  LockInv'
  BY <1>4, LockFrame DEF SessionEnds, ExplorerTypeOK, SessionRecord
<1>5. ASSUME NEW r \in Refresh, Replace(r)
      PROVE  LockInv'
  BY <1>5, LockFrame DEF Replace, ExplorerTypeOK, ServerRecord
<1>6. CASE UNCHANGED <<session, call, server>>
  BY <1>6, LockFrame
<1>7. ASSUME NEW r \in Refresh, NEW e \in Server, AskRefresh(r, e)
      PROVE  LockInv'
  BY <1>6, <1>7 DEF AskRefresh
<1>8. ASSUME NEW r \in Refresh, Rebuild(r) \/ RebuildFails(r) \/ Rebuilt(r)
      PROVE  LockInv'
  BY <1>6, <1>8 DEF Rebuild, RebuildFails, Rebuilt
<1>9. ASSUME NEW f \in Walked, NEW text \in Texts, WritePage(f, text)
      PROVE  LockInv'
  BY <1>6, <1>9 DEF WritePage
<1>10. ASSUME NEW raws \in SUBSET Blob, ChangeRaws(raws)
       PROVE  LockInv'
  BY <1>6, <1>10 DEF ChangeRaws
<1>11. CASE UNCHANGED explorerVars
  BY <1>6, <1>11 DEF explorerVars
<1> QED
  BY <1>1, <1>2, <1>3, <1>4, <1>5, <1>7, <1>8, <1>9, <1>10, <1>11, LockBind, LockServeFails, LockSpawn,
     LockServerEnds, NobodyAssumption DEF ExplorerNext

(***************************************************************************)
(* okf-explore starts no second explorer for a session that has one: every *)
(* one that runs is the one its session would return next.                 *)
(***************************************************************************)
THEOREM OneExplorerPerSession ==
    ASSUME WalkAssumption, NobodyAssumption
    PROVE  ExplorerSpec => []RunningIsListed
<1>1. ExplorerInit => ExplorerTypeOK /\ LockInv
  <2> SUFFICES ASSUME ExplorerInit
               PROVE  LockInv
    BY WalkAssumption, TypeInit
  <2> QED  BY DEF ExplorerInit, LockInv, HoldsLock, OwnerLists, Idle, Bare
<1>2. ExplorerTypeOK /\ LockInv /\ [ExplorerNext]_explorerVars => (ExplorerTypeOK /\ LockInv)'
  BY WalkAssumption, NobodyAssumption, TypeNext, LockNext
<1>3. LockInv => RunningIsListed
  BY DEF LockInv, OwnerLists, RunningIsListed
<1> QED  BY <1>1, <1>2, <1>3, PTL DEF ExplorerSpec

-----------------------------------------------------------------------------
\* A graph that has read every file since then shows none as it was before.
LEMMA ReadShows ==
    ASSUME ExplorerTypeOK, RefreshInv, NEW r \in Refresh, refresh[r].at = "built", NEW f \in File
    PROVE  asked[refresh[r].for].since[f] <= refresh[r].build.seen[f]
<1> DEFINE build == refresh[r].build
           since == asked[refresh[r].for].since
<1>1. build \in Graph /\ since \in Counts
  BY DEF RefreshInv, Refreshes, ExplorerTypeOK
<1>2. ReadSince(build, since) /\ IsRead(build)
  BY DEF RefreshInv, Refreshes
<1>3. CASE f \in Walked
  <2>1. PICK i \in DOMAIN Walk : Walk[i] = f
    BY <1>3 DEF Walked
  <2>2. i < build.next
    BY <1>1, <1>2, WalkAssumption DEF IsRead, WalkAssumption, Graph
  <2> QED  BY <1>2, <2>1, <2>2 DEF ReadSince
<1>4. CASE f \notin Walked
  <2>1. since[f] <= 0
    BY <1>4 DEF RefreshInv, Refreshes, Keeps
  <2> QED  BY <1>1, <2>1 DEF Graph, Counts
<1> QED  BY <1>3, <1>4

\* Most steps change no graph that is shown, and end a refresh at most.
LEMMA RefreshFrame ==
    ASSUME ExplorerTypeOK, RefreshInv, NobodyAssumption, asked' = asked,
           \A f \in File \ Walked : written'[f] = 0,
           \A f \in File : written'[f] \in Nat /\ written[f] <= written'[f],
           \A e \in Server : server'[e].state = server[e].state /\ server'[e].graph.seen = server[e].graph.seen,
           \A r \in Refresh : \/ refresh'[r] = refresh[r]
                              \/ refresh'[r].at = "answered" /\ refresh'[r].for = Nobody
    PROVE  RefreshInv'
<1>1. ASSUME NEW r \in Refresh
      PROVE  Refreshes(r)'
  BY <1>1 DEF RefreshInv, Refreshes, ReadSince, IsRead
<1>2. ASSUME NEW e \in Server
      PROVE  Keeps(e)'
  <2>1. \A f \in File : asked[e].since[f] \in Nat /\ written[f] \in Nat
    BY <1>2 DEF ExplorerTypeOK, Counts
  <2>2. \A f \in File : asked[e].since[f] <= written'[f]
    BY <1>2, <2>1 DEF RefreshInv, Keeps
  <2> QED  BY <1>2, <2>2 DEF RefreshInv, Keeps
<1> QED  BY <1>1, <1>2 DEF RefreshInv

LEMMA RefreshAsk ==
    ASSUME ExplorerTypeOK, RefreshInv, NobodyAssumption,
           NEW r \in Refresh, NEW e \in Server, AskRefresh(r, e)
    PROVE  RefreshInv'
<1>1. server[e].state = "serving" /\ UNCHANGED <<written, server>>
  BY DEF AskRefresh
<1>2. /\ refresh'[r].at = "build" /\ refresh'[r].for = e /\ refresh'[r].build = Unread
      /\ \A q \in Refresh \ {r} : refresh'[q] = refresh[q]
  BY DEF AskRefresh, Idle, ExplorerTypeOK
<1>3. \A d \in Server : /\ asked'[d].kept = asked[d].kept
                        /\ asked'[d].since \in {asked[d].since, written}
                        /\ asked'[d].since # asked[d].since => \A q \in Refresh : refresh[q].for # d
  BY DEF AskRefresh, Refreshing, ExplorerTypeOK
<1>4. ASSUME NEW q \in Refresh
      PROVE  Refreshes(q)'
  <2>1. CASE q = r
    BY <1>1, <1>2, <2>1, WalkAssumption DEF Refreshes, ReadSince, Unread, WalkAssumption
  <2>2. CASE q # r
    BY <1>1, <1>2, <1>3, <2>2 DEF Refreshes, RefreshInv, ReadSince, IsRead
  <2> QED  BY <2>1, <2>2
<1>5. ASSUME NEW d \in Server
      PROVE  Keeps(d)'
  <2>1. \A f \in File : written[f] <= written[f]
    BY DEF ExplorerTypeOK, Counts
  <2>2. \A f \in File : asked'[d].since[f] <= written[f]
    BY <1>3, <2>1 DEF RefreshInv, Keeps
  <2> QED  BY <1>1, <1>3, <2>2 DEF RefreshInv, Keeps
<1> QED  BY <1>1, <1>4, <1>5 DEF RefreshInv

LEMMA RefreshRebuild ==
    ASSUME WalkAssumption, ExplorerTypeOK, RefreshInv, NEW r \in Refresh, Rebuild(r)
    PROVE  RefreshInv'
<1> DEFINE build == refresh[r].build
           old == server[refresh[r].for].graph
           since == asked[refresh[r].for].since
           f == Walk[build.next]
<1>1. build \in Graph /\ ~IsRead(build) /\ refresh[r].at = "build"
  BY DEF Rebuild, ExplorerTypeOK
<1>2. /\ ReadNext(build, old).next = build.next + 1
      /\ f \in File
      /\ ReadNext(build, old).seen = [build.seen EXCEPT ![f] = written[f]]
  BY <1>1, ReadNextReads
<1>3. /\ refresh'[r].build = ReadNext(build, old)
      /\ refresh'[r].for = refresh[r].for /\ refresh'[r].at = "build"
      /\ \A q \in Refresh \ {r} : refresh'[q] = refresh[q]
      /\ UNCHANGED <<written, server, asked>>
  BY <1>1 DEF Rebuild, ExplorerTypeOK
<1>4. refresh[r].for \in Server /\ server[refresh[r].for].state = "serving" /\ ReadSince(build, since)
  BY <1>1 DEF RefreshInv, Refreshes
<1>5. ReadSince(ReadNext(build, old), since)
  <2> SUFFICES ASSUME NEW i \in DOMAIN Walk, i < ReadNext(build, old).next
               PROVE  since[Walk[i]] <= ReadNext(build, old).seen[Walk[i]]
    BY DEF ReadSince
  <2>1. i \in Nat /\ build.next \in Nat /\ Walk[i] \in File /\ build.seen \in [File -> Nat]
    BY <1>1, WalkAssumption DEF WalkAssumption, Graph, Counts
  <2>2. CASE Walk[i] = f
    BY <1>2, <1>4, <2>1, <2>2 DEF RefreshInv, Keeps
  <2>3. CASE Walk[i] # f
    <3>1. i < build.next
      <4>1. i < build.next + 1
        BY <1>2
      <4>2. i # build.next
        BY <2>3
      <4> HIDE DEF build
      <4> QED  BY <2>1, <4>1, <4>2
    <3>2. since[Walk[i]] <= build.seen[Walk[i]]
      BY <1>4, <3>1 DEF ReadSince
    <3>3. ReadNext(build, old).seen[Walk[i]] = build.seen[Walk[i]]
      BY <1>2, <2>1, <2>3
    <3> QED  BY <3>2, <3>3
  <2> QED  BY <2>2, <2>3
<1> HIDE DEF build, old, since, f
<1>6. ASSUME NEW q \in Refresh
      PROVE  Refreshes(q)'
  <2>1. CASE q = r
    BY <1>3, <1>4, <1>5, <2>1 DEF Refreshes, ReadSince, since
  <2>2. CASE q # r
    BY <1>3, <2>2 DEF Refreshes, RefreshInv, ReadSince, IsRead
  <2> QED  BY <2>1, <2>2
<1>7. ASSUME NEW e \in Server
      PROVE  Keeps(e)'
  BY <1>3 DEF Keeps, RefreshInv
<1> QED  BY <1>3, <1>6, <1>7 DEF RefreshInv

LEMMA RefreshRebuilt ==
    ASSUME ExplorerTypeOK, RefreshInv, NEW r \in Refresh, Rebuilt(r)
    PROVE  RefreshInv'
<1> DEFINE build == refresh[r].build
<1>1. build \in Graph /\ IsRead(build) /\ refresh[r].at = "build"
  BY DEF Rebuilt, ExplorerTypeOK
<1>2. \A to \in Resolved(build) : to.seen = build.seen /\ to.next = build.next
  BY <1>1, ResolvedKeeps
<1>3. /\ refresh'[r].build \in Resolved(build)
      /\ refresh'[r].for = refresh[r].for /\ refresh'[r].at = "built"
      /\ \A q \in Refresh \ {r} : refresh'[q] = refresh[q]
      /\ UNCHANGED <<written, server, asked>>
  BY DEF Rebuilt, ExplorerTypeOK
<1>4. ASSUME NEW q \in Refresh
      PROVE  Refreshes(q)'
  <2>1. CASE q = r
    <3>1. /\ refresh[r].for \in Server /\ server[refresh[r].for].state = "serving"
          /\ ReadSince(build, asked[refresh[r].for].since)
      BY <1>1 DEF RefreshInv, Refreshes
    <3> QED  BY <1>1, <1>2, <1>3, <2>1, <3>1 DEF Refreshes, ReadSince, IsRead
  <2>2. CASE q # r
    BY <1>3, <2>2 DEF Refreshes, RefreshInv, ReadSince, IsRead
  <2> QED  BY <2>1, <2>2
<1>5. ASSUME NEW e \in Server
      PROVE  Keeps(e)'
  BY <1>3 DEF Keeps, RefreshInv
<1> QED  BY <1>3, <1>4, <1>5 DEF RefreshInv

LEMMA RefreshReplace ==
    ASSUME WalkAssumption, NobodyAssumption, ExplorerTypeOK, RefreshInv, NEW r \in Refresh, Replace(r)
    PROVE  RefreshInv'
<1> DEFINE e == refresh[r].for
<1>1. e \in Server /\ server[e].state = "serving"
  BY DEF Replace, RefreshInv, Refreshes
<1>2. /\ server'[e].state = "serving" /\ server'[e].graph = refresh[r].build
      /\ \A d \in Server \ {e} : server'[d] = server[d]
      /\ UNCHANGED written
  BY <1>1 DEF Replace, ExplorerTypeOK, ServerRecord
<1>3. asked' = [asked EXCEPT ![e].kept = asked[e].since]
  BY DEF Replace
<1>4. /\ \A d \in Server : asked'[d].since = asked[d].since
      /\ \A d \in Server \ {e} : asked'[d] = asked[d]
      /\ asked'[e].kept = asked[e].since
  BY <1>1, <1>3 DEF ExplorerTypeOK
<1>5. /\ refresh'[r].at = "answered" /\ refresh'[r].for = Nobody
      /\ \A q \in Refresh \ {r} : refresh'[q] = refresh[q]
  BY DEF Replace, Answered, Idle, ExplorerTypeOK
<1>6. \A f \in File : asked[e].since[f] <= refresh[r].build.seen[f]
  BY ReadShows, WalkAssumption DEF Replace
<1> HIDE DEF e
<1>7. ASSUME NEW q \in Refresh
      PROVE  Refreshes(q)'
  <2>1. CASE q = r
    BY <1>5, <2>1 DEF Refreshes
  <2>2. CASE q # r /\ refresh[q].at \in {"build", "built"}
    <3>1. refresh[q].for \in Server /\ server[refresh[q].for].state = "serving"
      BY <2>2 DEF RefreshInv, Refreshes
    <3>2. server'[refresh[q].for].state = "serving"
      BY <1>2, <3>1
    <3> QED  BY <1>4, <1>5, <2>2, <3>1, <3>2 DEF Refreshes, RefreshInv, ReadSince, IsRead
  <2>3. CASE q # r /\ refresh[q].at \notin {"build", "built"}
    BY <1>5, <2>3 DEF Refreshes, RefreshInv
  <2> QED  BY <2>1, <2>2, <2>3
<1>8. ASSUME NEW d \in Server
      PROVE  Keeps(d)'
  <2>1. CASE d = e
    BY <1>1, <1>2, <1>4, <1>6, <2>1 DEF Keeps, RefreshInv
  <2>2. CASE d # e
    BY <1>2, <1>4, <2>2 DEF Keeps, RefreshInv
  <2> QED  BY <2>1, <2>2
<1> QED  BY <1>2, <1>7, <1>8 DEF RefreshInv

LEMMA RefreshSpawn ==
    ASSUME ExplorerTypeOK, RefreshInv, NEW c \in Call, NEW e \in Server, Spawn(c, e)
    PROVE  RefreshInv'
<1>1. \A to \in Resolved(call[c].build) : to \in Graph
  BY ResolvedKeeps DEF ExplorerTypeOK, CallRecord
<1>2. server[e].state = "none" /\ UNCHANGED <<written, refresh, asked>>
  BY DEF Spawn
<1>3. /\ server'[e].state = "serving" /\ server'[e].graph \in Resolved(call[c].build)
      /\ \A d \in Server \ {e} : server'[d] = server[d]
  BY DEF Spawn, ExplorerTypeOK
<1>4. ASSUME NEW q \in Refresh
      PROVE  Refreshes(q)'
  BY <1>2, <1>3 DEF Refreshes, RefreshInv, ReadSince, IsRead
<1>5. ASSUME NEW d \in Server
      PROVE  Keeps(d)'
  <2>1. CASE d = e
    <3>1. \A f \in File : asked[e].kept[f] = 0 /\ server'[e].graph.seen[f] \in Nat
      BY <1>1, <1>2, <1>3 DEF RefreshInv, Keeps, Graph, Counts
    <3> QED  BY <1>2, <1>3, <2>1, <3>1 DEF Keeps, RefreshInv
  <2>2. CASE d # e
    BY <1>2, <1>3, <2>2 DEF Keeps, RefreshInv
  <2> QED  BY <2>1, <2>2
<1> QED  BY <1>2, <1>4, <1>5 DEF RefreshInv

LEMMA RefreshServerEnds ==
    ASSUME NobodyAssumption, ExplorerTypeOK, RefreshInv, NEW e \in Server, ServerEnds(e)
    PROVE  RefreshInv'
<1>1. UNCHANGED <<written, asked>> /\ server[e].state = "serving"
  BY DEF ServerEnds
<1>2. \A x \in Server : IF x = e THEN server'[x].state = "ended" ELSE server'[x] = server[x]
  BY DEF ServerEnds, ExplorerTypeOK, Bare
<1>3. \A r \in Refresh : IF refresh[r].for = e
                         THEN refresh'[r].at = "answered" /\ refresh'[r].for = Nobody
                         ELSE refresh'[r] = refresh[r]
  BY DEF ServerEnds, Answered, Idle
<1>4. ASSUME NEW r \in Refresh
      PROVE  Refreshes(r)'
  <2>1. CASE refresh[r].for = e
    BY <1>3, <2>1 DEF Refreshes
  <2>2. CASE refresh[r].for # e
    BY <1>1, <1>2, <1>3, <2>2 DEF Refreshes, RefreshInv, ReadSince, IsRead
  <2> QED  BY <2>1, <2>2
<1>5. ASSUME NEW d \in Server
      PROVE  Keeps(d)'
  BY <1>1, <1>2 DEF Keeps, RefreshInv
<1> QED  BY <1>1, <1>4, <1>5 DEF RefreshInv

LEMMA RefreshNext ==
    ASSUME WalkAssumption, NobodyAssumption, ExplorerTypeOK, RefreshInv, [ExplorerNext]_explorerVars
    PROVE  RefreshInv'
<1>0. /\ \A f \in File \ Walked : written[f] = 0
      /\ \A f \in File : written[f] \in Nat
  BY DEF RefreshInv, ExplorerTypeOK, Counts
<1>1. CASE UNCHANGED <<written, server, refresh, asked>>
  BY <1>0, <1>1, RefreshFrame
<1>2. ASSUME NEW c \in Call, NEW u \in Session, Ask(c, u)
      PROVE  RefreshInv'
  BY <1>1, <1>2 DEF Ask
<1>3. ASSUME NEW c \in Call, Reuse(c) \/ Bind(c) \/ Build(c) \/ ServeFails(c)
      PROVE  RefreshInv'
  BY <1>1, <1>3 DEF Reuse, Bind, Build, ServeFails
<1>4. ASSUME NEW u \in Session, SessionEnds(u)
      PROVE  RefreshInv'
  BY <1>1, <1>4 DEF SessionEnds
<1>5. ASSUME NEW r \in Refresh, RebuildFails(r)
      PROVE  RefreshInv'
  <2>1. UNCHANGED <<written, server, asked>> /\ refresh' = [refresh EXCEPT ![r] = Answered]
    BY <1>5 DEF RebuildFails
  <2>2. \A q \in Refresh : \/ refresh'[q] = refresh[q]
                           \/ refresh'[q].at = "answered" /\ refresh'[q].for = Nobody
    BY <2>1 DEF Answered, Idle, ExplorerTypeOK
  <2> QED  BY <1>0, <2>1, <2>2, RefreshFrame
<1>6. ASSUME NEW f \in Walked, NEW text \in Texts, WritePage(f, text)
      PROVE  RefreshInv'
  <2>1. UNCHANGED <<server, refresh, asked>> /\ written' = [written EXCEPT ![f] = written[f] + 1]
    BY <1>6 DEF WritePage
  <2>2. /\ \A g \in File \ Walked : written'[g] = 0
        /\ \A g \in File : written'[g] \in Nat /\ written[g] <= written'[g]
    BY <1>0, <1>6, <2>1 DEF ExplorerTypeOK, Counts
  <2> QED  BY <2>1, <2>2, RefreshFrame
<1>7. ASSUME NEW raws \in SUBSET Blob, ChangeRaws(raws)
      PROVE  RefreshInv'
  BY <1>1, <1>7 DEF ChangeRaws
<1>8. CASE UNCHANGED explorerVars
  BY <1>1, <1>8 DEF explorerVars
<1> QED
  BY <1>2, <1>3, <1>4, <1>5, <1>6, <1>7, <1>8, RefreshAsk, RefreshRebuild, RefreshRebuilt, RefreshReplace,
     RefreshSpawn, RefreshServerEnds, WalkAssumption, NobodyAssumption DEF ExplorerNext

(***************************************************************************)
(* A refresh asked for while none runs is not undone by one that is done   *)
(* later: every graph put in its place has read every page since then.     *)
(***************************************************************************)
THEOREM RefreshIsNotUndone ==
    ASSUME WalkAssumption, NobodyAssumption
    PROVE  ExplorerSpec => []RefreshIsKept
<1>1. ExplorerInit => ExplorerTypeOK /\ RefreshInv
  <2> SUFFICES ASSUME ExplorerInit
               PROVE  RefreshInv
    BY WalkAssumption, TypeInit
  <2> QED  BY DEF ExplorerInit, RefreshInv, Refreshes, Keeps, Idle, Bare
<1>2. ExplorerTypeOK /\ RefreshInv /\ [ExplorerNext]_explorerVars => (ExplorerTypeOK /\ RefreshInv)'
  BY WalkAssumption, NobodyAssumption, TypeNext, RefreshNext
<1>3. ExplorerTypeOK /\ RefreshInv => RefreshIsKept
  BY DEF RefreshInv, Keeps, RefreshIsKept, ExplorerTypeOK, ServerRecord, Graph, Counts
<1> QED  BY <1>1, <1>2, <1>3, PTL DEF ExplorerSpec

-----------------------------------------------------------------------------
(***************************************************************************)
(* What HitsOpen and LinksOpen rest on: a graph, built or being built, has *)
(* only files that are walked, so of those with one slug one is last; and  *)
(* a file it has read, and that was not written since, it has as it is.    *)
(***************************************************************************)
WalkedOnly(build) == Files(build.pages) \subseteq Walked

Sound(build, files, counts) ==
    /\ WalkedOnly(build)
    /\ \A i \in DOMAIN Walk :
          /\ build.seen[Walk[i]] <= counts[Walk[i]]
          /\ i < build.next /\ build.seen[Walk[i]] = counts[Walk[i]]
                => build.pages[Walk[i]] = files[Walk[i]]

Beside(r) == /\ Sound(refresh[r].build, disk.pages, written)
             /\ refresh[r].at = "built" => IsRead(refresh[r].build)

Shown(e) == /\ Sound(server[e].graph, disk.pages, written)
            /\ server[e].state = "serving" => IsRead(server[e].graph)

ShownInv ==
    /\ Files(disk.pages) \subseteq Walked
    /\ \A c \in Call : Sound(call[c].build, disk.pages, written)
    /\ \A r \in Refresh : Beside(r)
    /\ \A e \in Server : Shown(e)

LEMMA UnreadIsSound ==
    ASSUME WalkAssumption, NEW files, NEW counts \in Counts
    PROVE  Sound(Unread, files, counts) /\ Sound(Answered.build, files, counts)
<1>1. \A i \in DOMAIN Walk : Walk[i] \in File /\ counts[Walk[i]] \in Nat /\ i >= 1
  BY DEF WalkAssumption, Counts
<1>2. Sound(Unread, files, counts)
  BY <1>1 DEF Sound, WalkedOnly, Unread, Files
<1>3. Answered.build = Unread
  BY DEF Answered, Idle
<1> QED  BY <1>2, <1>3

LEMMA ReadNextIsSound ==
    ASSUME WalkAssumption, ExplorerTypeOK, NEW build \in Graph, ~IsRead(build),
           Sound(build, disk.pages, written), NEW old
    PROVE  Sound(ReadNext(build, old), disk.pages, written)
<1> DEFINE k == build.next
           f == Walk[k]
           to == ReadNext(build, old)
<1>1. /\ k \in DOMAIN Walk /\ f \in Walked /\ f \in File
      /\ build.pages \in [File -> Texts \cup {NoFile}] /\ build.seen \in Counts
  BY DEF WalkAssumption, IsRead, Graph, Walked
<1>2. /\ to.pages = [build.pages EXCEPT ![f] = disk.pages[f]]
      /\ to.seen = [build.seen EXCEPT ![f] = written[f]]
      /\ to.next = k + 1
  BY DEF ReadNext, Graph
<1>3. written \in Counts /\ k \in Nat
  BY DEF ExplorerTypeOK, Graph
<1>4. WalkedOnly(build)
  BY DEF Sound
<1>5. \A i \in DOMAIN Walk : /\ Walk[i] \in File /\ i \in Nat
                             /\ Walk[i] = f => i = k
  BY <1>1 DEF WalkAssumption
<1>6. ASSUME NEW i \in DOMAIN Walk
      PROVE  /\ to.seen[Walk[i]] <= written[Walk[i]]
             /\ i < to.next /\ to.seen[Walk[i]] = written[Walk[i]]
                   => to.pages[Walk[i]] = disk.pages[Walk[i]]
  <2> HIDE DEF f, k, to
  <2>1. CASE i = k
    BY <1>1, <1>2, <1>3, <2>1 DEF f, Counts
  <2>2. CASE i # k
    <3>1. Walk[i] \in File \ {f} /\ (i < to.next => i < k)
      BY <1>2, <1>3, <1>5, <2>2
    <3>2. to.seen[Walk[i]] = build.seen[Walk[i]] /\ to.pages[Walk[i]] = build.pages[Walk[i]]
      BY <1>1, <1>2, <3>1 DEF Counts
    <3> QED  BY <3>1, <3>2 DEF Sound, k
  <2> QED  BY <2>1, <2>2
<1>7. WalkedOnly(to)
  <2> HIDE DEF f, to
  <2>1. \A g \in File \ Walked : to.pages[g] = build.pages[g]
    BY <1>1, <1>2
  <2> QED  BY <1>4, <2>1 DEF WalkedOnly, Files
<1> QED  BY <1>6, <1>7 DEF Sound

LEMMA ResolvedIsSound ==
    ASSUME ExplorerTypeOK, NEW build \in Graph, NEW files, NEW counts,
           Sound(build, files, counts), NEW to \in Resolved(build)
    PROVE  Sound(to, files, counts)
BY ResolvedKeeps DEF Sound, WalkedOnly

\* A page that is written is no longer as any graph has read it.
LEMMA WriteKeepsSound ==
    ASSUME WalkAssumption, ExplorerTypeOK, NEW f \in Walked, NEW text \in Texts, WritePage(f, text),
           NEW build \in Graph, Sound(build, disk.pages, written)
    PROVE  Sound(build, disk'.pages, written')
<1>1. f \in File /\ written \in Counts /\ build.seen \in Counts
  BY DEF WalkAssumption, Walked, ExplorerTypeOK, Graph
<1>2. disk'.pages = [disk.pages EXCEPT ![f] = text] /\ written' = [written EXCEPT ![f] = written[f] + 1]
  BY DEF WritePage, ExplorerTypeOK
<1>3. ASSUME NEW i \in DOMAIN Walk
      PROVE  /\ build.seen[Walk[i]] <= written'[Walk[i]]
             /\ i < build.next /\ build.seen[Walk[i]] = written'[Walk[i]]
                   => build.pages[Walk[i]] = disk'.pages[Walk[i]]
  <2>1. /\ Walk[i] \in File /\ build.seen[Walk[i]] <= written[Walk[i]]
        /\ build.seen[Walk[i]] \in Nat /\ written[Walk[i]] \in Nat
    BY <1>1 DEF WalkAssumption, Sound, Counts
  <2>2. CASE Walk[i] = f
    BY <1>1, <1>2, <2>1, <2>2 DEF Counts
  <2>3. CASE Walk[i] # f
    <3>1. written'[Walk[i]] = written[Walk[i]] /\ disk'.pages[Walk[i]] = disk.pages[Walk[i]]
      BY <1>1, <1>2, <2>1, <2>3 DEF Counts, ExplorerTypeOK
    <3> QED  BY <2>1, <3>1 DEF Sound
  <2> QED  BY <2>2, <2>3
<1> QED  BY <1>3 DEF Sound

\* Steps that write no page disturb what they change at most.
LEMMA ShownFrame ==
    ASSUME ShownInv, disk'.pages = disk.pages, written' = written,
           \A c \in Call : call'[c].build = call[c].build \/ Sound(call'[c].build, disk.pages, written),
           \A r \in Refresh : refresh'[r] = refresh[r] \/ Beside(r)',
           \A e \in Server : server'[e] = server[e] \/ Shown(e)'
    PROVE  ShownInv'
<1>1. \A c \in Call : Sound(call'[c].build, disk'.pages, written')
  BY DEF ShownInv
<1>2. \A r \in Refresh : Beside(r)'
  BY DEF ShownInv, Beside, IsRead
<1>3. \A e \in Server : Shown(e)'
  BY DEF ShownInv, Shown, IsRead
<1> QED  BY <1>1, <1>2, <1>3 DEF ShownInv

LEMMA ShownNext ==
    ASSUME WalkAssumption, ExplorerTypeOK, ShownInv, [ExplorerNext]_explorerVars
    PROVE  ShownInv'
<1> USE DEF CallRecord
<1>0. \A b : b = Unread \/ b = Answered.build => Sound(b, disk.pages, written)
  BY UnreadIsSound DEF ExplorerTypeOK
<1>1. ASSUME UNCHANGED <<disk, written, server, refresh>>, NEW c \in Call,
             NEW to, Sound(to.build, disk.pages, written), call' = [call EXCEPT ![c] = to]
      PROVE  ShownInv'
  <2>1. \A d \in Call : call'[d].build = call[d].build \/ Sound(call'[d].build, disk.pages, written)
    BY <1>1 DEF ExplorerTypeOK
  <2> QED  BY <1>1, <2>1, ShownFrame
<1>2. ASSUME UNCHANGED <<disk, written, server, call>>, NEW r \in Refresh,
             NEW to, Sound(to.build, disk.pages, written), to.at = "built" => IsRead(to.build),
             refresh' = [refresh EXCEPT ![r] = to]
      PROVE  ShownInv'
  <2>1. \A q \in Refresh : refresh'[q] = IF q = r THEN to ELSE refresh[q]
    BY <1>2 DEF ExplorerTypeOK
  <2>2. \A q \in Refresh : refresh'[q] = refresh[q] \/ Beside(q)'
    BY <1>2, <2>1 DEF Beside, IsRead
  <2> QED  BY <1>2, <2>2, ShownFrame
<1>3. CASE UNCHANGED <<disk, written, server, refresh, call>>
  BY <1>3, ShownFrame
<1>4. ASSUME NEW c \in Call, NEW u \in Session, Ask(c, u)
      PROVE  ShownInv'
  <2> DEFINE to == [Idle EXCEPT !.at = "waiting", !.for = u]
  <2>1. to.build = Unread
    BY DEF Idle
  <2>2. UNCHANGED <<disk, written, server, refresh>> /\ call' = [call EXCEPT ![c] = to]
    BY <1>4 DEF Ask
  <2> HIDE DEF to
  <2> QED  BY <1>0, <1>1, <2>1, <2>2
<1>5. ASSUME NEW c \in Call, Reuse(c) \/ ServeFails(c)
      PROVE  ShownInv'
  <2>1. UNCHANGED <<disk, written, server, refresh>> /\ call' = [call EXCEPT ![c] = Answered]
    BY <1>5 DEF Reuse, ServeFails
  <2> QED  BY <1>0, <1>1, <2>1
<1>6. ASSUME NEW c \in Call, Bind(c)
      PROVE  ShownInv'
  <2>1. UNCHANGED <<disk, written, server, refresh>> /\ call' = [call EXCEPT ![c].at = "build"]
    BY <1>6 DEF Bind
  <2>2. \A d \in Call : call'[d].build = call[d].build
    BY <2>1 DEF ExplorerTypeOK
  <2> QED  BY <2>1, <2>2, ShownFrame
<1>7. ASSUME NEW c \in Call, Build(c)
      PROVE  ShownInv'
  <2> DEFINE to == ReadNext(call[c].build, Unread)
  <2>0. call[c].build \in Graph /\ ~IsRead(call[c].build)
    BY <1>7 DEF Build, ExplorerTypeOK
  <2>1. Sound(to, disk.pages, written)
    BY <2>0, ReadNextIsSound DEF ShownInv
  <2>2. UNCHANGED <<disk, written, server, refresh>> /\ call' = [call EXCEPT ![c].build = to]
    BY <1>7 DEF Build
  <2> HIDE DEF to
  <2>3. \A d \in Call : call'[d].build = call[d].build \/ Sound(call'[d].build, disk.pages, written)
    BY <2>1, <2>2 DEF ExplorerTypeOK
  <2> QED  BY <2>2, <2>3, ShownFrame
<1>8. ASSUME NEW c \in Call, NEW e \in Server, Spawn(c, e)
      PROVE  ShownInv'
  <2>0. call[c].build \in Graph /\ IsRead(call[c].build)
    BY <1>8 DEF Spawn, ExplorerTypeOK
  <2>3. PICK to \in Resolved(call[c].build) :
            server' = [server EXCEPT ![e] = [state |-> "serving", owner |-> call[c].for, graph |-> to]]
    BY <1>8 DEF Spawn
  <2>1. Sound(to, disk.pages, written) /\ IsRead(to)
    BY <2>0, ResolvedIsSound, ResolvedKeeps DEF ShownInv, IsRead
  <2>2. UNCHANGED <<disk, written, refresh>> /\ call' = [call EXCEPT ![c] = Answered]
    BY <1>8 DEF Spawn
  <2>4. \A d \in Server : server'[d] = server[d] \/ Shown(d)'
    BY <2>1, <2>2, <2>3 DEF Shown, IsRead, ExplorerTypeOK
  <2>5. \A d \in Call : call'[d].build = call[d].build \/ Sound(call'[d].build, disk.pages, written)
    BY <1>0, <2>2 DEF ExplorerTypeOK
  <2> QED  BY <2>2, <2>4, <2>5, ShownFrame
<1>9. ASSUME NEW e \in Server, ServerEnds(e)
      PROVE  ShownInv'
  <2>0. UNCHANGED <<disk, written, call>>
    BY <1>9 DEF ServerEnds
  <2>1. \A d \in Server : server'[d] = server[d] \/ Shown(d)'
    BY <1>0, <1>9, <2>0 DEF ServerEnds, Bare, Shown, ExplorerTypeOK
  <2>2. \A q \in Refresh : refresh'[q] = refresh[q] \/ refresh'[q] = Answered
    BY <1>9 DEF ServerEnds
  <2>3. Answered.at # "built"
    BY DEF Answered, Idle
  <2>4. \A q \in Refresh : refresh'[q] = refresh[q] \/ Beside(q)'
    BY <1>0, <2>0, <2>2, <2>3 DEF Beside
  <2> QED  BY <2>0, <2>1, <2>4, ShownFrame
<1>10. ASSUME NEW r \in Refresh, NEW e \in Server, AskRefresh(r, e)
       PROVE  ShownInv'
  <2> DEFINE to == [Idle EXCEPT !.at = "build", !.for = e]
  <2>1. to.build = Unread /\ to.at = "build"
    BY DEF Idle
  <2>2. UNCHANGED <<disk, written, server, call>> /\ refresh' = [refresh EXCEPT ![r] = to]
    BY <1>10 DEF AskRefresh
  <2> HIDE DEF to
  <2> QED  BY <1>0, <1>2, <2>1, <2>2
<1>11. ASSUME NEW r \in Refresh, Rebuild(r)
       PROVE  ShownInv'
  <2> DEFINE to == ReadNext(refresh[r].build, server[refresh[r].for].graph)
  <2>0. refresh[r].build \in Graph /\ ~IsRead(refresh[r].build) /\ refresh[r].at = "build"
    BY <1>11 DEF Rebuild, ExplorerTypeOK
  <2>1. Sound(to, disk.pages, written)
    BY <2>0, ReadNextIsSound DEF ShownInv, Beside
  <2>2. UNCHANGED <<disk, written, server, call>> /\ refresh' = [refresh EXCEPT ![r].build = to]
    BY <1>11 DEF Rebuild
  <2> HIDE DEF to
  <2>3. \A q \in Refresh : refresh'[q] = refresh[q] \/ Beside(q)'
    BY <2>0, <2>1, <2>2 DEF Beside, ExplorerTypeOK
  <2> QED  BY <2>2, <2>3, ShownFrame
<1>12. ASSUME NEW r \in Refresh, RebuildFails(r)
       PROVE  ShownInv'
  <2>1. UNCHANGED <<disk, written, server, call>> /\ refresh' = [refresh EXCEPT ![r] = Answered]
    BY <1>12 DEF RebuildFails
  <2>2. Answered.at # "built"
    BY DEF Answered, Idle
  <2> QED  BY <1>0, <1>2, <2>1, <2>2
<1>13. ASSUME NEW r \in Refresh, Rebuilt(r)
       PROVE  ShownInv'
  <2>0. refresh[r].build \in Graph /\ IsRead(refresh[r].build)
    BY <1>13 DEF Rebuilt, ExplorerTypeOK
  <2>2. PICK to \in Resolved(refresh[r].build) :
            refresh' = [refresh EXCEPT ![r].at = "built", ![r].build = to]
    BY <1>13 DEF Rebuilt
  <2>1. Sound(to, disk.pages, written) /\ IsRead(to)
    BY <2>0, ResolvedIsSound, ResolvedKeeps DEF ShownInv, Beside, IsRead
  <2>3. UNCHANGED <<disk, written, server, call>>
    BY <1>13 DEF Rebuilt
  <2>4. \A q \in Refresh : refresh'[q] = refresh[q] \/ Beside(q)'
    BY <2>1, <2>2, <2>3 DEF Beside, IsRead, ExplorerTypeOK
  <2> QED  BY <2>3, <2>4, ShownFrame
<1>14. ASSUME NEW r \in Refresh, Replace(r)
       PROVE  ShownInv'
  <2> DEFINE to == refresh[r].build
  <2>1. Sound(to, disk.pages, written) /\ IsRead(to)
    BY <1>14 DEF ShownInv, Beside, Replace
  <2>2. /\ UNCHANGED <<disk, written, call>> /\ refresh' = [refresh EXCEPT ![r] = Answered]
        /\ server' = [server EXCEPT ![refresh[r].for].graph = to]
    BY <1>14 DEF Replace
  <2> HIDE DEF to
  <2>3. \A d \in Server : server'[d] = server[d] \/ Shown(d)'
    BY <2>1, <2>2 DEF Shown, IsRead, ExplorerTypeOK, ServerRecord
  <2>4. Answered.at # "built"
    BY DEF Answered, Idle
  <2>5. \A q \in Refresh : refresh'[q] = refresh[q] \/ Beside(q)'
    BY <1>0, <2>2, <2>4 DEF Beside, ExplorerTypeOK
  <2> QED  BY <2>2, <2>3, <2>5, ShownFrame
<1>15. ASSUME NEW u \in Session, SessionEnds(u)
       PROVE  ShownInv'
  BY <1>3, <1>15 DEF SessionEnds
<1>16. ASSUME NEW f \in Walked, NEW text \in Texts, WritePage(f, text)
       PROVE  ShownInv'
  <2>1. UNCHANGED <<call, server, refresh>>
    BY <1>16 DEF WritePage
  <2>2. \A build \in Graph : Sound(build, disk.pages, written) => Sound(build, disk'.pages, written')
    BY <1>16, WriteKeepsSound
  <2>3. \A c \in Call : Sound(call[c].build, disk.pages, written)' /\ call[c].build \in Graph
    BY <2>1, <2>2 DEF ShownInv, ExplorerTypeOK
  <2>4. \A r \in Refresh : Beside(r)'
    BY <2>1, <2>2 DEF ShownInv, Beside, IsRead, ExplorerTypeOK
  <2>5. \A e \in Server : Shown(e)'
    BY <2>1, <2>2 DEF ShownInv, Shown, IsRead, ExplorerTypeOK, ServerRecord
  <2>6. disk'.pages = [disk.pages EXCEPT ![f] = text]
    BY <1>16 DEF WritePage, ExplorerTypeOK
  <2>7. Files(disk'.pages) \subseteq Walked
    BY <1>16, <2>6 DEF Files, ShownInv, ExplorerTypeOK
  <2> QED  BY <2>1, <2>3, <2>4, <2>5, <2>7 DEF ShownInv
<1>17. ASSUME NEW raws \in SUBSET Blob, ChangeRaws(raws)
       PROVE  ShownInv'
  <2>1. disk'.pages = disk.pages /\ UNCHANGED <<written, server, refresh, call>>
    BY <1>17 DEF ChangeRaws, ExplorerTypeOK
  <2> QED  BY <2>1, ShownFrame
<1>18. CASE UNCHANGED explorerVars
  BY <1>3, <1>18 DEF explorerVars
<1> QED
  BY <1>4, <1>5, <1>6, <1>7, <1>8, <1>9, <1>10, <1>11, <1>12, <1>13, <1>14, <1>15, <1>16, <1>17, <1>18
  DEF ExplorerNext

-----------------------------------------------------------------------------
LEMMA PlaceIsWalked ==
    ASSUME WalkAssumption, NEW f \in Walked
    PROVE  Place(f) \in 1..Len(Walk)
BY DEF WalkAssumption, Walked, Place

\* Of walked files one is walked first.
LEMMA FirstExists ==
    ASSUME WalkAssumption, NEW files, files \subseteq Walked, files # {}
    PROVE  FirstOf(files) \in files
<1> DEFINE places == {Place(f) : f \in files}
<1>1. \A f \in files : Place(f) \in Nat
  BY PlaceIsWalked, WalkAssumption DEF WalkAssumption
<1>2. PICK p \in places : \A q \in places : p <= q
  <2>1. places \subseteq Nat /\ places # {}
    BY <1>1
  <2> HIDE DEF places
  <2> QED  BY <2>1, LeastExists
<1>3. \E f \in files : \A g \in files : Place(f) <= Place(g)
  BY <1>2
<1> QED  BY <1>3 DEF FirstOf

\* Of the files with one slug one is walked last.
LEMMA NodeFileExists ==
    ASSUME WalkAssumption, NEW w, Files(w) \subseteq Walked, NEW id \in ExistingSlugs(w)
    PROVE  NodeFile(w, id) \in Files(w) /\ SlugOf[NodeFile(w, id)] = id
<1> DEFINE named == {f \in Files(w) : SlugOf[f] = id}
           after(f) == Len(Walk) - Place(f)
           rest == {after(f) : f \in named}
<1>1. Len(Walk) \in Nat
  BY WalkAssumption DEF WalkAssumption
<1>2. \A f \in named : Place(f) \in 1..Len(Walk)
  BY PlaceIsWalked, WalkAssumption
<1>3. named # {}
  BY DEF ExistingSlugs
<1>4. \A f \in named : after(f) \in Nat
  BY <1>1, <1>2
<1>5. PICK d \in rest : \A e \in rest : d <= e
  <2>1. rest \subseteq Nat /\ rest # {}
    BY <1>3, <1>4
  <2> HIDE DEF rest
  <2> QED  BY <2>1, LeastExists
<1>6. PICK f \in named : d = after(f)
  BY <1>5
<1>7. \A g \in named : after(f) <= after(g)
  BY <1>5, <1>6
<1>8. \A g \in named : Place(g) <= Place(f)
  BY <1>1, <1>2, <1>6, <1>7
<1>9. \E h \in Files(w) : /\ SlugOf[h] = id
                          /\ \A g \in Files(w) : SlugOf[g] = id => Place(g) <= Place(h)
  BY <1>6, <1>8
<1> QED  BY <1>9 DEF NodeFile

\* Only what cites it makes a raw source a node.
LEMMA RawNodesAreCited ==
    ASSUME WalkAssumption, NEW w \in [File -> Texts \cup {NoFile}], NEW r \in Raw, r \in NodeIds(w)
    PROVE  r \in CitedRaws(w)
<1>1. r \notin ExistingSlugs(w)
  BY DEF WalkAssumption, ExistingSlugs, Files
<1>2. PICK l \in GraphLinks(w) : l[2] = r
  BY <1>1 DEF NodeIds
<1>3. PICK f \in Files(w) : l \in LinksFrom(w, f)
  BY DEF GraphLinks
<1>4. w[f] \in Texts \ {NoFile}
  BY DEF Files
<1>5. /\ r \notin Targets(w, f)
      /\ r \notin w[f].cross \cup w[f].tags
  BY <1>4 DEF WalkAssumption, Targets
<1>6. l[3] = "source"
  BY <1>2, <1>3, <1>5 DEF LinksFrom
<1> QED  BY <1>2, <1>6 DEF CitedRaws

LEMMA PageOpens ==
    ASSUME WalkAssumption, NEW shown, Files(shown.pages) \subseteq Walked,
           NEW now, NEW id \in ExistingSlugs(shown.pages)
    PROVE  PageView(shown, now, id) = IF NodeFile(shown.pages, id) \in Files(now.pages)
                                      THEN Shows(NodeFile(shown.pages, id)) ELSE BadRequest
<1>1. NodeFile(shown.pages, id) \in File
  BY NodeFileExists DEF Files
<1> QED  BY <1>1 DEF PageView, Files

LEMMA ShownInit == WalkAssumption /\ ExplorerInit => ShownInv
<1> SUFFICES ASSUME WalkAssumption, ExplorerInit
             PROVE  ShownInv
  OBVIOUS
<1>1. written \in Counts
  BY DEF ExplorerInit, Counts
<1>2. Sound(Unread, disk.pages, written)
  BY <1>1, UnreadIsSound
<1>3. Files(disk.pages) \subseteq Walked
  BY DEF ExplorerInit
<1> QED  BY <1>2, <1>3 DEF ExplorerInit, ShownInv, Beside, Shown, Idle, Bare

(***************************************************************************)
(* Which search hits open, whatever is written, ingested and purged while  *)
(* graphs are built and shown: all but pages written since the graph read  *)
(* their directory, pages behind another of the same name, and sources     *)
(* that are cited but no longer in the file the graph found.               *)
(***************************************************************************)
THEOREM HitsOpenButThree ==
    ASSUME WalkAssumption
    PROVE  ExplorerSpec => []HitsOpen
<1>1. ExplorerInit => ExplorerTypeOK /\ ShownInv
  BY WalkAssumption, TypeInit, ShownInit
<1>2. ExplorerTypeOK /\ ShownInv /\ [ExplorerNext]_explorerVars => (ExplorerTypeOK /\ ShownInv)'
  BY WalkAssumption, TypeNext, ShownNext
<1>3. ASSUME ExplorerTypeOK, ShownInv
      PROVE  HitsOpen
  <2> DEFINE hides(drawn, g, f) == g \in Files(drawn.pages) \ {f} /\ SlugOf[g] = SlugOf[f]
             view(drawn, path) == PageView(drawn, disk, Hit(drawn, path).id)
             opens(drawn, f) == /\ Hit(drawn, <<"wiki", f>>).in_graph
                                /\ \/ view(drawn, <<"wiki", f>>) = Shows(f)
                                   \/ \E g \in File :
                                         /\ hides(drawn, g, f)
                                         /\ view(drawn, <<"wiki", f>>) =
                                               IF g \in Files(disk.pages) THEN Shows(g) ELSE BadRequest
  <2> SUFFICES ASSUME NEW e \in Server, server[e].state = "serving"
               PROVE  /\ \A f \in Files(disk.pages) :
                            \/ f \notin Files(server[e].graph.pages) /\ server[e].graph.seen[f] # written[f]
                            \/ opens(server[e].graph, f)
                      /\ \A b \in disk.raws :
                            \/ \E x \in BlobsOf(disk.raws, RawIdOf[b]) :
                                  view(server[e].graph, <<"raw", b>>) = Shows(x)
                            \/ /\ RawIdOf[b] \in CitedRaws(server[e].graph.pages)
                               /\ b \notin server[e].graph.raws
    BY DEF HitsOpen
  <2> DEFINE shown == server[e].graph
  <2>1. /\ shown \in Graph /\ Files(shown.pages) \subseteq Walked
        /\ IsRead(shown) /\ Sound(shown, disk.pages, written)
    BY <1>3 DEF ExplorerTypeOK, ServerRecord, ShownInv, Shown, Sound, WalkedOnly
  <2>2. /\ disk.pages \in [File -> Texts \cup {NoFile}] /\ disk.raws \subseteq Blob
        /\ Files(disk.pages) \subseteq Walked
    BY <1>3 DEF ExplorerTypeOK, ShownInv
  <2> HIDE DEF shown
  <2>3. ASSUME NEW f \in Files(disk.pages), f \notin Files(shown.pages)
        PROVE  shown.seen[f] # written[f]
    <3>1. PICK i \in DOMAIN Walk : Walk[i] = f
      BY <2>2 DEF Walked
    <3>2. i < shown.next
      BY <2>1, WalkAssumption DEF WalkAssumption, IsRead, Graph
    <3>3. f \in File /\ disk.pages[f] # NoFile /\ shown.pages[f] = NoFile
      BY <2>3 DEF Files
    <3> QED  BY <2>1, <3>1, <3>2, <3>3 DEF Sound
  <2>4. ASSUME NEW f \in Files(disk.pages), f \in Files(shown.pages)
        PROVE  opens(shown, f)
    <3> DEFINE id == SlugOf[f]
               h == NodeFile(shown.pages, id)
    <3>1. id \in ExistingSlugs(shown.pages)
      BY <2>4 DEF ExistingSlugs
    <3>2. Hit(shown, <<"wiki", f>>).id = id /\ Hit(shown, <<"wiki", f>>).in_graph
      BY <3>1 DEF Hit, NodeIdForPath, NodeIds
    <3>3. h \in Files(shown.pages) /\ SlugOf[h] = id
      BY <2>1, <3>1, NodeFileExists, WalkAssumption
    <3>4. view(shown, <<"wiki", f>>) = IF h \in Files(disk.pages) THEN Shows(h) ELSE BadRequest
      BY <2>1, <3>1, <3>2, PageOpens, WalkAssumption
    <3>5. h \in File
      BY <3>3 DEF Files
    <3> HIDE DEF h, view
    <3>6. CASE h = f
      BY <2>4, <3>2, <3>4, <3>6
    <3>7. CASE h # f
      BY <3>2, <3>3, <3>4, <3>5, <3>7
    <3> QED  BY <3>6, <3>7
  <2>5. ASSUME NEW b \in disk.raws
        PROVE  \/ \E x \in BlobsOf(disk.raws, RawIdOf[b]) : view(shown, <<"raw", b>>) = Shows(x)
               \/ RawIdOf[b] \in CitedRaws(shown.pages) /\ b \notin shown.raws
    <3> DEFINE id == RawIdOf[b]
               stored == BlobsOf(shown.raws, id) \cap disk.raws
               found == BlobsOf(disk.raws, id)
    <3>1. b \in found /\ id \in Raw
      BY <2>2, WalkAssumption DEF WalkAssumption, BlobsOf
    <3>2. Hit(shown, <<"raw", b>>).id = id
      BY DEF Hit, NodeIdForPath
    <3>3. id \notin ExistingSlugs(shown.pages)
      BY <3>1, WalkAssumption DEF WalkAssumption, ExistingSlugs, Files
    <3>4. id \in NodeIds(shown.pages) => id \in CitedRaws(shown.pages)
      BY <2>1, <3>1, RawNodesAreCited, WalkAssumption DEF Graph
    <3>5. view(shown, <<"raw", b>>) = IF id \in NodeIds(shown.pages)
                                      THEN IF stored # {} THEN ShowsAnyOf(stored) ELSE BadRequest
                                      ELSE IF found # {} THEN ShowsAnyOf(found) ELSE NotFound
      BY <3>2, <3>3 DEF PageView
    <3>6. \A blobs : blobs # {} => \E x \in blobs : ShowsAnyOf(blobs) = Shows(x)
      BY DEF ShowsAnyOf
    <3>7. stored \subseteq found /\ (b \in shown.raws => b \in stored)
      BY DEF BlobsOf
    <3> HIDE DEF id, stored, found, view
    <3> QED  BY <3>1, <3>4, <3>5, <3>6, <3>7 DEF id, found
  <2> QED  BY <2>3, <2>4, <2>5 DEF shown
<1> QED  BY <1>1, <1>2, <1>3, PTL DEF ExplorerSpec

-----------------------------------------------------------------------------
LEMMA ConceptIsFound ==
    ASSUME WalkAssumption, FilesAssumption, NEW w, Files(w) \subseteq Walked, NEW id
    PROVE  ReadConcept(w, id).status = 200
               <=> \/ id \in ExistingSlugs(w)
                   \/ \E g \in Files(w) : w[g].ok /\ id \in w[g].legacy
<1> DEFINE named == {f \in Files(w) : SlugOf[f] = id}
           older == {f \in Files(w) : w[f].ok /\ id \in w[f].legacy}
<1>1. named # {} => FirstOf(named) \in named
  BY FirstExists, WalkAssumption
<1>2. older # {} => FirstOf(older) \in older
  BY FirstExists, WalkAssumption
<1>3. FindConcept(w, id) = IF named # {} THEN FirstOf(named)
                           ELSE IF older # {} THEN FirstOf(older) ELSE NoFile
  BY DEF FindConcept
<1>4. named \subseteq File /\ older \subseteq File /\ NoFile \notin File
  BY FilesAssumption DEF Files, FilesAssumption
<1>5. FindConcept(w, id) = NoFile <=> named = {} /\ older = {}
  <2> HIDE DEF named, older
  <2> QED  BY <1>1, <1>2, <1>3, <1>4
<1>6. ReadConcept(w, id).status = 200 <=> FindConcept(w, id) # NoFile
  BY DEF ReadConcept, NotFound, Shows
<1>7. named # {} <=> id \in ExistingSlugs(w)
  BY DEF ExistingSlugs
<1> QED  BY <1>5, <1>6, <1>7

(***************************************************************************)
(* What a link within the vault is drawn as agrees with what following it  *)
(* finds, in the explorer and in okf-read-concept, for any files and texts;*)
(* a link into another vault is drawn as one that opens, and does not.     *)
(***************************************************************************)
THEOREM LinksAreAsDrawn ==
    ASSUME WalkAssumption, FilesAssumption
    PROVE  ExplorerSpec => []LinksOpen
<1>1. ExplorerInit => ExplorerTypeOK /\ ShownInv
  BY WalkAssumption, TypeInit, ShownInit
<1>2. ExplorerTypeOK /\ ShownInv /\ [ExplorerNext]_explorerVars => (ExplorerTypeOK /\ ShownInv)'
  BY WalkAssumption, TypeNext, ShownNext
<1>3. ASSUME ExplorerTypeOK, ShownInv
      PROVE  LinksOpen
  <2> DEFINE opens(drawn, id) == PageView(drawn, disk, id).status = 200
  <2> SUFFICES ASSUME NEW e \in Server, server[e].state = "serving",
                      server[e].graph.pages = disk.pages,
                      NEW f \in Files(disk.pages), NEW id \in WikilinkTargets(disk.pages[f])
               PROVE  /\ IF id \in disk.pages[f].cross
                         THEN /\ ~DrawnMissing(server[e].graph, id)
                              /\ opens(server[e].graph, id) <=> id \in ExistingSlugs(disk.pages)
                         ELSE DrawnMissing(server[e].graph, id) <=> ~opens(server[e].graph, id)
                      /\ (ReadConcept(disk.pages, id).status = 200)
                             <=> \/ opens(server[e].graph, id)
                                 \/ \E g \in Files(disk.pages) :
                                       disk.pages[g].ok /\ id \in disk.pages[g].legacy
    BY DEF LinksOpen
  <2> DEFINE shown == server[e].graph
             w == disk.pages
             named == {l.id : l \in w[f].wikilinks}
  <2>1. /\ shown \in Graph /\ shown.pages = w /\ Files(w) \subseteq Walked
        /\ w \in [File -> Texts \cup {NoFile}] /\ w[f] \in Texts \ {NoFile}
    BY <1>3 DEF ExplorerTypeOK, ServerRecord, ShownInv, Files
  <2>2. id \in named \cup w[f].cross /\ id \notin Raw
    BY <2>1, WalkAssumption DEF WalkAssumption, WikilinkTargets
  <2>3. DrawnMissing(shown, id) <=> id \notin NodeIds(w) \ MissingNodes(w)
    BY <2>1 DEF DrawnMissing
  <2>4. ASSUME id \in w[f].cross
        PROVE  ~DrawnMissing(shown, id)
    <3>1. <<SlugOf[f], id, "cross_vault">> \in GraphLinks(w)
      BY <2>4 DEF GraphLinks, LinksFrom
    <3>2. ASSUME id \in MissingNodes(w)
          PROVE  FALSE
      <4>1. PICK l \in GraphLinks(w) : l[3] = "wikilink" /\ l[2] = id
        BY <3>2 DEF MissingNodes
      <4>2. PICK g \in Files(w) : l \in LinksFrom(w, g)
        BY DEF GraphLinks
      <4>3. id \in {k.id : k \in w[g].wikilinks}
        BY <4>1, <4>2 DEF LinksFrom, Targets
      <4>4. w[g] \in Texts \ {NoFile}
        BY <2>1 DEF Files
      <4> QED  BY <2>1, <2>4, <4>3, <4>4, WalkAssumption DEF WalkAssumption
    <3> QED  BY <2>3, <3>1, <3>2 DEF NodeIds
  <2>5. ASSUME id \in named \ w[f].cross
        PROVE  DrawnMissing(shown, id) <=> id \notin ExistingSlugs(w)
    <3>1. CASE id \in ExistingSlugs(w)
      BY <2>3, <3>1 DEF NodeIds, MissingNodes
    <3>2. CASE id \notin ExistingSlugs(w)
      <4>1. id \in Targets(w, f)
        BY <2>5, <3>2 DEF Targets, ExistingSlugs
      <4>2. <<SlugOf[f], id, "wikilink">> \in GraphLinks(w)
        BY <4>1 DEF GraphLinks, LinksFrom
      <4> QED  BY <2>3, <3>2, <4>2 DEF MissingNodes
    <3> QED  BY <3>1, <3>2
  <2>6. opens(shown, id) <=> id \in ExistingSlugs(w)
    <3>1. CASE id \in ExistingSlugs(w)
      <4>1. NodeFile(w, id) \in Files(w)
        BY <2>1, <3>1, NodeFileExists, WalkAssumption
      <4> QED  BY <2>1, <3>1, <4>1, PageOpens, WalkAssumption DEF Shows
    <3>2. CASE id \notin ExistingSlugs(w)
      <4>1. \A b \in Blob : RawIdOf[b] # id
        BY <2>2, WalkAssumption DEF WalkAssumption
      <4>2. BlobsOf(shown.raws, id) = {} /\ BlobsOf(disk.raws, id) = {}
        BY <1>3, <2>1, <4>1 DEF BlobsOf, ExplorerTypeOK, Graph
      <4> QED  BY <2>1, <3>2, <4>2 DEF PageView, BadRequest, NotFound
    <3> QED  BY <3>1, <3>2
  <2>7. ReadConcept(w, id).status = 200 <=> \/ id \in ExistingSlugs(w)
                                            \/ \E g \in Files(w) : w[g].ok /\ id \in w[g].legacy
    BY <2>1, ConceptIsFound, WalkAssumption, FilesAssumption
  <2> HIDE DEF opens, named
  <2> QED  BY <2>2, <2>4, <2>5, <2>6, <2>7
<1> QED  BY <1>1, <1>2, <1>3, PTL DEF ExplorerSpec
=============================================================================
