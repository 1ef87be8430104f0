-------------------------- MODULE SearchProperties --------------------------
(***************************************************************************)
(* What the index promises the searches, and a search its caller.          *)
(***************************************************************************)
EXTENDS Search

(***************************************************************************)
(* Every embedding has its row in table sections and was made from what    *)
(* that row says, whenever the process is killed: an embedding without a   *)
(* row would take a place among the nearest that the join then drops, and  *)
(* no later reindex would find its key to delete it.                       *)
(***************************************************************************)
VectorsHaveSections == \A k \in Key : vectors[k] # NoRow => sections[k] = vectors[k]

(***************************************************************************)
(* The INSERTs never meet a row with their key, whatever an earlier        *)
(* reindex that broke off left behind: a clash would make every later      *)
(* reindex of that content fail.                                           *)
(***************************************************************************)
KeysAreFree ==
    \A p \in Indexer : /\ proc[p].at = "section" => sections[KeyOf(p)] = NoRow
                    /\ proc[p].at = "vector"  => vectors[KeyOf(p)] = NoRow

\* Both: the two tables replace_sections writes agree, wherever it breaks off.
TablesAgree == VectorsHaveSections /\ KeysAreFree

(***************************************************************************)
(* A stored hash makes later reindexes skip the document, so it must mean  *)
(* that the embeddings are those of that content; only a rewriting that    *)
(* broke off (see the README) leaves one that does not.                    *)
(***************************************************************************)
Embedded(d, c) ==
    \A n \in 1..MaxSections : vectors[<<d, n>>] = IF c # NoRow /\ n <= Len(c) THEN c[n] ELSE NoRow

BeingRewritten(d) == \E p \in Indexer : Rewriting(p) /\ At(p) = d

HashMeansEmbedded ==
    \A d \in Doc : d \in cut \/ BeingRewritten(d) \/ Embedded(d, hashes[d])

-----------------------------------------------------------------------------
(***************************************************************************)
(* Reciprocal rank fusion respects what the two halves agree on: of two    *)
(* documents of which one is ahead in every list the other is in, that one *)
(* comes first in the results, also where Limit cuts them.                 *)
(***************************************************************************)
AheadIn(list, d, e) == Listed(list, e) => Listed(list, d) /\ Rank(list, d) < Rank(list, e)

RespectsConsensus(bm25, vector, results) ==
    \A i \in 1..Len(results) : \A d \in ToSet(bm25) \cup ToSet(vector) :
        d # results[i] /\ AheadIn(bm25, d, results[i]) /\ AheadIn(vector, d, results[i])
            => Listed(First(results, i), d)

ConsensusRespected ==
    [][search.at = "vectors" /\ search'.at = "answered" =>
           RespectsConsensus(search.bm25, search'.vector, search'.results)]_searchVars

(***************************************************************************)
(* Once the vault rests and no reindex breaks off any more, the text index *)
(* comes to hold exactly the documents there are, and the embeddings those *)
(* of every one of them whose last rewriting did not break off before.     *)
(***************************************************************************)
Settled == <>[][UNCHANGED docs]_docs /\ <>[](\A p \in Indexer : proc[p].at # "failed")

CaughtUp == /\ text = docs
            /\ \A d \in Doc : docs[d] # NoRow /\ d \notin cut => Embedded(d, docs[d])

CatchesUp == Settled => <>[]CaughtUp
=============================================================================
