------------------------------- MODULE Search -------------------------------
(***************************************************************************)
(* hybrid_search (src/src/search/query.rs) over the two halves of the      *)
(* index, while they are rebuilt: the text hits are fetched first, then    *)
(* the nearest embedded sections, and rrf_merge (rrf.rs) makes one ranking *)
(* of the two.  What is relevant to a query, and what is near, is up to    *)
(* the text index and the embedding model: any order of what they hold.    *)
(***************************************************************************)
EXTENDS SearchIndex, SequencesExt

CONSTANT Limit      \* limit of a search
ASSUME LimitAssumption == Limit \in Nat \ {0}

VARIABLE search     \* the search under way: a list of hits, best first, and its results

searchVars == <<indexVars, search>>

SearchInit == IndexInit /\ search = [at |-> "idle"]

FetchLimit == 2 * Limit

Listed(list, d) == \E i \in 1..Len(list) : list[i] = d

Rank(list, d) == CHOOSE i \in 1..Len(list) : list[i] = d

-----------------------------------------------------------------------------
(***************************************************************************)
(* The score of d is the sum of 1 / (60 + rank) over the lists it is in,   *)
(* kept as a fraction <<numerator, denominator>>.                          *)
(***************************************************************************)
Plus(f, g) == <<f[1] * g[2] + g[1] * f[2], f[2] * g[2]>>

Ahead(f, g) == f[1] * g[2] > g[1] * f[2]

\* Wrong on purpose: what a list does not have counts as its best.
ReciprocalOrBest(list, d) == IF Listed(list, d) THEN <<1, 60 + Rank(list, d)>> ELSE <<1, 60>>

Reciprocal(list, d) == IF Listed(list, d) THEN <<1, 60 + Rank(list, d)>> ELSE <<0, 1>>

Score(bm25, vector, d) == Plus(Reciprocal(bm25, d), Reciprocal(vector, d))

\* What sort_by makes of S if before holds of every two of its members, one way or the other.
Sorted(S, before) ==
    CHOOSE list \in SetToSeqs(S) :
        \A i, j \in DOMAIN list : i < j => <<list[i], list[j]>> \in before

\* Best score first; paths that tie in their own order.
Before(bm25, vector, d, e) ==
    \/ Ahead(Score(bm25, vector, d), Score(bm25, vector, e))
    \/ ~ Ahead(Score(bm25, vector, e), Score(bm25, vector, d)) /\ d < e

Hits(bm25, vector) == ToSet(bm25) \cup ToSet(vector)

RrfMerge(bm25, vector) ==
    LET paths == Hits(bm25, vector)
    IN  Sorted(paths, {de \in paths \X paths : Before(bm25, vector, de[1], de[2])})

First(list, n) == SubSeq(list, 1, IF Len(list) < n THEN Len(list) ELSE n)

(***************************************************************************)
(* search_text: some of what the text index holds, best first.             *)
(***************************************************************************)
\* A search may be asked for: the command's, the tool's or the explorer's.
NoneUnderWay == search.at \in {"idle", "answered"}

SearchText ==
    /\ NoneUnderWay
    /\ \E hits \in SetToAllKPermutations({d \in Doc : text[d] # NoRow}) :
          search' = [at |-> "vectors", bm25 |-> First(hits, FetchLimit)]
    /\ UNCHANGED indexVars

(***************************************************************************)
(* search_vectors: the nearest FetchLimit embeddings, joined with their    *)
(* sections; then only the nearest section of every path.  Hits are told   *)
(* by how many are nearer.                                                 *)
(***************************************************************************)
VectorHits(nearest) == {i \in DOMAIN First(nearest, FetchLimit) : sections[nearest[i]] # NoRow}

BestHits(nearest) ==
    {i \in VectorHits(nearest) :
        \A j \in VectorHits(nearest) : nearest[j][1] = nearest[i][1] => i <= j}

VectorPaths(nearest) ==
    LET hits   == BestHits(nearest)
        sorted == Sorted(hits, {ij \in hits \X hits : ij[1] < ij[2]})
    IN  [n \in DOMAIN sorted |-> nearest[sorted[n]][1]]

SearchVectors ==
    /\ search.at = "vectors"
    /\ \E nearest \in SetToSeqs({k \in Key : vectors[k] # NoRow}) :
          LET vector == VectorPaths(nearest)
          IN  search' = [at |-> "answered", vector |-> vector,
                         results |-> First(RrfMerge(search.bm25, vector), Limit)]
    /\ UNCHANGED indexVars

SearchNext == \/ IndexNext /\ UNCHANGED search
              \/ SearchText \/ SearchVectors

SearchSpec == SearchInit /\ [][SearchNext]_searchVars /\ IndexFairness
=============================================================================
