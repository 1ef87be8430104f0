---------------------------- MODULE SearchProofs ----------------------------
(***************************************************************************)
(* The database of embedded sections, for any documents, contents and      *)
(* numbers of sections and reindexers, broken off at any statement, as     *)
(* long as reindexes with embeddings exclude each other; and the ranking   *)
(* a search makes of two lists, for any lists and limit.                   *)
(***************************************************************************)
EXTENDS SearchProperties, WellFoundedInduction, FiniteSetTheorems, TLAPS

Contents == {NoRow} \cup UNION {ContentOf[d] : d \in Doc}

Rewritings == {"embedded", "unlisted", "section", "vector"}

AtDocument == {"check", "outdated", "unchanged"} \cup Rewritings

Reindexing == [at : {"collect", "text"} \cup AtDocument, embeddings : BOOLEAN,
               got : [Doc -> Contents], doc : Doc, section : 1..MaxSections]

Resting == {[at |-> "idle"], [at |-> "failed"]}

IndexTypeOK ==
    /\ docs \in [Doc -> Contents]
    /\ hashes \in [Doc -> Contents]
    /\ sections \in [Key -> Section \cup {NoRow}]
    /\ vectors \in [Key -> Section \cup {NoRow}]
    /\ proc \in [Indexer -> Reindexing \cup Resting]

(***************************************************************************)
(* How far the rewriting of d, whose content is c, has come: the first     *)
(* listed sections have their row, the first embedded their embedding.     *)
(***************************************************************************)
Written(d, c, listed, embedded) ==
    \A n \in 1..MaxSections :
        /\ sections[<<d, n>>] = IF n <= listed THEN c[n] ELSE NoRow
        /\ vectors[<<d, n>>] = IF n <= embedded THEN c[n] ELSE NoRow

(***************************************************************************)
(* What makes the properties inductive: what the rows of a document are at *)
(* every step of its rewriting, which one reindexer at most is at.         *)
(***************************************************************************)
Staged(p) ==
    /\ proc[p].at \in AtDocument => proc[p].embeddings /\ Got(p) # NoRow
    /\ proc[p].at = "unchanged" => hashes[At(p)] = Got(p)
    /\ proc[p].at \in Rewritings => hashes[At(p)] = Got(p) /\ proc[p].section <= Len(Got(p))
    /\ proc[p].at \in {"check", "outdated", "unchanged", "embedded", "unlisted"} => proc[p].section = 1
    /\ proc[p].at = "unlisted" => \A n \in 1..MaxSections : vectors[<<At(p), n>>] = NoRow
    /\ proc[p].at = "section" => Written(At(p), Got(p), proc[p].section - 1, proc[p].section - 1)
    /\ proc[p].at = "vector" => Written(At(p), Got(p), proc[p].section, proc[p].section - 1)

OneEmbeds == \A p, q \in Indexer : Embedding(p) /\ Embedding(q) => p = q

IndexInv ==
    /\ OneEmbeds
    /\ \A p \in Indexer : Staged(p)
    /\ VectorsHaveSections
    /\ HashMeansEmbedded

-----------------------------------------------------------------------------
LEMMA LeastExists ==
    ASSUME NEW S, S \subseteq Nat, S # {}
    PROVE  \E d \in S : \A e \in S : d <= e
<1> DEFINE Less == OpToRel(<, Nat)
<1>1. IsWellFoundedOn(Less, Nat)
  BY NatLessThanWellFounded
<1>2. PICK d \in S : \A e \in S : ~(<<e, d>> \in Less)
  <2> HIDE DEF Less
  <2> QED  BY <1>1, WFMin
<1>3. \A e, f \in Nat : <<e, f>> \in Less <=> e < f
  BY DEF OpToRel
<1> HIDE DEF Less
<1>4. \A e \in S : ~(e < d)
  BY <1>2, <1>3
<1> QED  BY <1>4

LEMMA ContentsHaveSections ==
    ASSUME NEW c \in Contents, c # NoRow
    PROVE  Len(c) \in 1..MaxSections /\ \A n \in 1..Len(c) : c[n] \in Section
BY ContentAssumption DEF Contents

\* A record of a reindexer, as it is after it went on.
LEMMA ReindexingTypes ==
    ASSUME NEW r \in Reindexing
    PROVE  /\ \A at \in {"collect", "text"} \cup AtDocument : [r EXCEPT !.at = at] \in Reindexing
           /\ \A d \in Doc : [r EXCEPT !.at = "check", !.section = 1, !.doc = d] \in Reindexing
           /\ \A n \in 1..MaxSections : [r EXCEPT !.at = "section", !.section = n] \in Reindexing
<1>1. 1 \in 1..MaxSections
  BY DocsAssumption
<1>2. \A at \in {"collect", "text"} \cup AtDocument : [r EXCEPT !.at = at] \in Reindexing
  BY DEF Reindexing
<1>3. \A d \in Doc : [r EXCEPT !.at = "check", !.section = 1, !.doc = d] \in Reindexing
  <2>1. "check" \in {"collect", "text"} \cup AtDocument
    BY DEF AtDocument
  <2> QED  BY <1>1, <2>1 DEF Reindexing
<1>4. \A n \in 1..MaxSections : [r EXCEPT !.at = "section", !.section = n] \in Reindexing
  <2>1. "section" \in {"collect", "text"} \cup AtDocument
    BY DEF AtDocument, Rewritings
  <2> QED  BY <2>1 DEF Reindexing
<1> QED  BY <1>2, <1>3, <1>4

\* The next document was collected; or the reindex is over.
LEMMA NextAfterGoes ==
    ASSUME IndexTypeOK, NEW p \in Indexer, proc[p] \in Reindexing, NEW n \in Int, NextAfter(p, n)
    PROVE  /\ proc' \in [Indexer -> Reindexing \cup Resting]
           /\ \A q \in Indexer \ {p} : proc'[q] = proc[q]
           /\ \/ proc'[p].at = "idle"
              \/ /\ proc'[p].at = "check" /\ proc'[p] \in Reindexing
                 /\ proc'[p].embeddings = proc[p].embeddings
                 /\ proc'[p].got[proc'[p].doc] # NoRow /\ proc'[p].section = 1
<1> DEFINE later == {d \in Doc : d > n /\ proc[p].got[d] # NoRow}
           next  == CHOOSE d \in later : \A e \in later : d <= e
<1>1. CASE later = {}
  <2>1. proc' = [proc EXCEPT ![p] = [at |-> "idle"]]
    BY <1>1 DEF NextAfter
  <2> QED  BY <2>1 DEF IndexTypeOK, Resting
<1>2. CASE later # {}
  <2>1. later \subseteq Nat
    BY DEF Doc
  <2>2. \E d \in later : \A e \in later : d <= e
    <3> HIDE DEF later
    <3> QED  BY <1>2, <2>1, LeastExists
  <2>3. next \in later
    <3> HIDE DEF later
    <3> QED  BY <2>2
  <2>4. proc' = [proc EXCEPT ![p] = [proc[p] EXCEPT !.at = "check", !.section = 1, !.doc = next]]
    BY <1>2 DEF NextAfter
  <2>5. next \in Doc /\ proc[p].got[next] # NoRow
    BY <2>3
  <2> HIDE DEF next, later
  <2>6. [proc[p] EXCEPT !.at = "check", !.section = 1, !.doc = next] \in Reindexing
    BY <2>5, ReindexingTypes
  <2>7. proc'[p] = [proc[p] EXCEPT !.at = "check", !.section = 1, !.doc = next]
    BY <2>4 DEF IndexTypeOK
  <2>8. /\ proc'[p].at = "check" /\ proc'[p].doc = next /\ proc'[p].got = proc[p].got
        /\ proc'[p].embeddings = proc[p].embeddings /\ proc'[p].section = 1
    BY <2>7 DEF Reindexing
  <2>9. /\ proc' \in [Indexer -> Reindexing \cup Resting]
        /\ \A q \in Indexer \ {p} : proc'[q] = proc[q]
    BY <2>4, <2>6 DEF IndexTypeOK
  <2> QED  BY <2>5, <2>6, <2>7, <2>8, <2>9
<1> QED  BY <1>1, <1>2

LEMMA MoveToGoes ==
    ASSUME IndexTypeOK, NEW p \in Indexer, proc[p] \in Reindexing,
           NEW at \in {"collect", "text"} \cup AtDocument, MoveTo(p, at)
    PROVE  /\ proc' \in [Indexer -> Reindexing \cup Resting]
           /\ \A q \in Indexer \ {p} : proc'[q] = proc[q]
           /\ proc'[p] \in Reindexing /\ proc'[p].at = at
           /\ proc'[p].embeddings = proc[p].embeddings /\ proc'[p].got = proc[p].got
           /\ proc'[p].doc = proc[p].doc /\ proc'[p].section = proc[p].section
<1>1. proc' = [proc EXCEPT ![p] = [proc[p] EXCEPT !.at = at]]
  BY DEF MoveTo
<1>2. [proc[p] EXCEPT !.at = at] \in Reindexing
  BY ReindexingTypes
<1>3. proc'[p] = [proc[p] EXCEPT !.at = at]
  BY <1>1 DEF IndexTypeOK
<1>4. /\ proc' \in [Indexer -> Reindexing \cup Resting]
      /\ \A q \in Indexer \ {p} : proc'[q] = proc[q]
  BY <1>1, <1>2 DEF IndexTypeOK
<1>5. /\ proc'[p].at = at /\ proc'[p].embeddings = proc[p].embeddings /\ proc'[p].got = proc[p].got
      /\ proc'[p].doc = proc[p].doc /\ proc'[p].section = proc[p].section
  BY <1>3 DEF Reindexing
<1> QED  BY <1>2, <1>3, <1>4, <1>5

LEMMA AwakeIsReindexing ==
    ASSUME IndexTypeOK, NEW p \in Indexer, proc[p].at \notin {"idle", "failed"}
    PROVE  proc[p] \in Reindexing
BY DEF IndexTypeOK, Resting

-----------------------------------------------------------------------------
LEMMA TypeInit == SearchInit => IndexTypeOK
BY DEF SearchInit, IndexInit, IndexTypeOK, Nothing, Empty, Contents, Resting

(***************************************************************************)
(* What a step of reindexer p that is at a document leaves as it is: no    *)
(* other reindexer is at one, so their stages say nothing of the tables.   *)
(***************************************************************************)
LEMMA Alone ==
    ASSUME IndexTypeOK, OneEmbeds, NEW p \in Indexer, Staged(p), proc[p].at \in AtDocument,
           NEW q \in Indexer \ {p}, Staged(q)
    PROVE  proc[q].at \notin AtDocument
BY DEF OneEmbeds, Embedding, Indexing, Staged, AtDocument, Rewritings

\* Nobody starts to embed.
LEMMA OneEmbedsStill ==
    ASSUME OneEmbeds, NEW p \in Indexer,
           \A q \in Indexer \ {p} : proc'[q] = proc[q],
           proc'[p].at \notin {"idle", "failed"} =>
               proc[p].at \notin {"idle", "failed"} /\ proc'[p].embeddings = proc[p].embeddings
    PROVE  OneEmbeds'
BY DEF OneEmbeds, Embedding, Indexing

\* The stage of one that is at no document, and does not move, holds whatever the tables are.
LEMMA StagedElsewhere ==
    ASSUME NEW q \in Indexer, proc'[q] = proc[q], proc[q].at \notin AtDocument
    PROVE  Staged(q)'
BY DEF Staged, AtDocument, Rewritings

(***************************************************************************)
(* A step that changes no table, of one that rewrites nothing.             *)
(***************************************************************************)
LEMMA TablesStay ==
    ASSUME IndexInv, NEW p \in Indexer, UNCHANGED <<hashes, sections, vectors>>,
           \A q \in Indexer \ {p} : proc'[q] = proc[q],
           OneEmbeds', Staged(p)',
           cut \subseteq cut',
           proc[p].at \in Rewritings => \/ proc[p].doc \in cut'
                                        \/ proc'[p].at \in Rewritings /\ proc'[p].doc = proc[p].doc
    PROVE  IndexInv'
<1>1. ASSUME NEW q \in Indexer \ {p}
      PROVE  Staged(q)'
  BY <1>1 DEF IndexInv, Staged, Written, At, Got
<1>2. VectorsHaveSections'
  BY DEF IndexInv, VectorsHaveSections
<1>3. ASSUME NEW d \in Doc, d \notin cut', ~BeingRewritten(d)'
      PROVE  Embedded(d, hashes[d])'
  <2>1. ~BeingRewritten(d)
    BY <1>3 DEF BeingRewritten, Rewriting, At, Rewritings
  <2> QED  BY <1>3, <2>1 DEF IndexInv, HashMeansEmbedded, Embedded
<1> QED  BY <1>1, <1>2, <1>3 DEF IndexInv, HashMeansEmbedded

(***************************************************************************)
(* A step of one that is at a document touches only its rows.              *)
(***************************************************************************)
LEMMA RowsElsewhereStay ==
    ASSUME IndexTypeOK, IndexInv, NEW p \in Indexer, NEW own \in Doc,
           proc[p].at \in AtDocument, proc[p].doc = own,
           \A q \in Indexer \ {p} : proc'[q] = proc[q],
           \A d \in Doc \ {own} : hashes'[d] = hashes[d],
           \A k \in Key : k[1] # own => sections'[k] = sections[k] /\ vectors'[k] = vectors[k],
           \A k \in Key : k[1] = own /\ vectors'[k] # NoRow => sections'[k] = vectors'[k],
           cut \subseteq cut' \cup {own},
           OneEmbeds', Staged(p)',
           \/ proc'[p].at \in Rewritings /\ proc'[p].doc = own
           \/ Embedded(own, hashes[own])'
    PROVE  IndexInv'
<1>1. ASSUME NEW q \in Indexer \ {p}
      PROVE  Staged(q)' /\ proc[q].at \notin AtDocument
  <2>1. proc[q].at \notin AtDocument
    BY Alone DEF IndexInv
  <2> QED  BY <2>1, StagedElsewhere
<1>2. VectorsHaveSections'
  BY DEF IndexInv, VectorsHaveSections
<1>3. ASSUME NEW d \in Doc, d \notin cut', ~BeingRewritten(d)'
      PROVE  Embedded(d, hashes[d])'
  <2>1. CASE d = own
    BY <1>3, <2>1 DEF BeingRewritten, Rewriting, At, Rewritings
  <2>2. CASE d # own
    <3>1. ~BeingRewritten(d)
      BY <1>1, <2>2 DEF BeingRewritten, Rewriting, At, AtDocument, Rewritings
    <3>2. Embedded(d, hashes[d])
      BY <1>3, <2>2, <3>1 DEF IndexInv, HashMeansEmbedded
    <3>3. \A n \in 1..MaxSections : vectors'[<<d, n>>] = vectors[<<d, n>>]
      BY <2>2 DEF Key
    <3> QED  BY <2>2, <3>2, <3>3 DEF Embedded
  <2> QED  BY <2>1, <2>2
<1> QED  BY <1>1, <1>2, <1>3 DEF IndexInv, HashMeansEmbedded

-----------------------------------------------------------------------------
LEMMA ChangeKeeps ==
    ASSUME IndexTypeOK, IndexInv, NEW d \in Doc, NEW c \in ContentOf[d] \cup {NoRow}, Change(d, c)
    PROVE  IndexTypeOK' /\ IndexInv'
<1>1. UNCHANGED <<tables, proc, cut>> /\ docs' = [docs EXCEPT ![d] = c]
  BY DEF Change
<1>2. IndexTypeOK'
  BY <1>1 DEF IndexTypeOK, tables, Contents
<1>3. IndexInv'
  BY <1>1 DEF IndexInv, tables, OneEmbeds, Embedding, Indexing, Staged, Written, At, Got,
              VectorsHaveSections, HashMeansEmbedded, Embedded, BeingRewritten, Rewriting
<1> QED  BY <1>2, <1>3

\* Another reindex with embeddings is not begun while one runs.
LEMMA StartKeeps ==
    ASSUME Exclusive, IndexTypeOK, IndexInv, NEW p \in Indexer, NEW embeddings \in BOOLEAN,
           Reindex(p, embeddings)
    PROVE  IndexTypeOK' /\ IndexInv'
<1> DEFINE begun == [at |-> "collect", embeddings |-> embeddings, got |-> Nothing, doc |-> 1, section |-> 1]
<1>1. /\ proc' = [proc EXCEPT ![p] = begun] /\ ~Indexing(p)
      /\ UNCHANGED <<docs, hashes, sections, vectors, cut>>
      /\ embeddings => \A q \in Indexer : ~Embedding(q)
  BY DEF Reindex, tables
<1>2. begun \in Reindexing /\ begun.at = "collect" /\ begun.embeddings = embeddings
  BY DocsAssumption DEF Reindexing, Nothing, Contents, Doc
<1> HIDE DEF begun
<1>3. proc'[p] = begun /\ \A q \in Indexer \ {p} : proc'[q] = proc[q]
  BY <1>1 DEF IndexTypeOK
<1>4. IndexTypeOK'
  BY <1>1, <1>2 DEF IndexTypeOK
<1>5. OneEmbeds'
  BY <1>1, <1>2, <1>3 DEF IndexInv, OneEmbeds, Embedding, Indexing
<1>6. Staged(p)' /\ proc[p].at \notin Rewritings
  BY <1>1, <1>2, <1>3 DEF Staged, Indexing, AtDocument, Rewritings
<1> QED  BY <1>1, <1>3, <1>4, <1>5, <1>6, TablesStay

LEMMA CollectKeeps ==
    ASSUME IndexTypeOK, IndexInv, NEW p \in Indexer, Collect(p)
    PROVE  IndexTypeOK' /\ IndexInv'
<1> DEFINE d == proc[p].doc
           next == [proc[p] EXCEPT !.got = [proc[p].got EXCEPT ![d] = docs[d]],
                                   !.at = IF d = Docs THEN "text" ELSE "collect",
                                   !.doc = IF d = Docs THEN d ELSE d + 1]
<1>1. /\ proc[p].at = "collect" /\ proc' = [proc EXCEPT ![p] = next]
      /\ UNCHANGED <<docs, hashes, sections, vectors, cut>>
  BY DEF Collect, tables
<1>2. proc[p] \in Reindexing
  BY <1>1, AwakeIsReindexing
<1>3. /\ next \in Reindexing /\ next.at \in {"collect", "text"}
      /\ next.embeddings = proc[p].embeddings
  <2>1. d \in Doc /\ docs[d] \in Contents
    BY <1>2 DEF Reindexing, IndexTypeOK
  <2>2. [proc[p].got EXCEPT ![d] = docs[d]] \in [Doc -> Contents]
    BY <1>2, <2>1 DEF Reindexing
  <2>3. d # Docs => d + 1 \in Doc
    BY <2>1, DocsAssumption DEF Doc
  <2> HIDE DEF d
  <2> QED  BY <1>2, <2>1, <2>2, <2>3 DEF Reindexing
<1> HIDE DEF next
<1>4. proc'[p] = next /\ \A q \in Indexer \ {p} : proc'[q] = proc[q]
  BY <1>1 DEF IndexTypeOK
<1>5. IndexTypeOK'
  BY <1>1, <1>3 DEF IndexTypeOK
<1>6. OneEmbeds'
  BY <1>1, <1>3, <1>4, OneEmbedsStill DEF IndexInv
<1>7. Staged(p)' /\ proc[p].at \notin Rewritings
  BY <1>1, <1>3, <1>4 DEF Staged, AtDocument, Rewritings
<1> QED  BY <1>1, <1>4, <1>5, <1>6, <1>7, TablesStay

\* A document is begun: nothing was done for it yet.
LEMMA BegunIsStaged ==
    ASSUME NEW p \in Indexer,
           \/ proc'[p].at \in {"idle", "failed"}
           \/ /\ proc'[p].at = "check" /\ proc'[p].embeddings /\ proc'[p].section = 1
              /\ proc'[p].got[proc'[p].doc] # NoRow
    PROVE  Staged(p)'
BY DEF Staged, AtDocument, Rewritings, At, Got

LEMMA WriteTextKeeps ==
    ASSUME IndexTypeOK, IndexInv, NEW p \in Indexer, WriteText(p)
    PROVE  IndexTypeOK' /\ IndexInv'
<1>1. proc[p].at = "text" /\ UNCHANGED <<docs, hashes, sections, vectors, cut>>
  BY DEF WriteText, tables
<1>2. proc[p] \in Reindexing
  BY <1>1, AwakeIsReindexing
<1>3. /\ proc' \in [Indexer -> Reindexing \cup Resting]
      /\ \A q \in Indexer \ {p} : proc'[q] = proc[q]
      /\ \/ proc'[p].at = "idle"
         \/ /\ proc'[p].at = "check" /\ proc[p].embeddings /\ proc'[p].embeddings = proc[p].embeddings
            /\ proc'[p].got[proc'[p].doc] # NoRow /\ proc'[p].section = 1
  <2>1. CASE proc[p].embeddings
    <3>1. NextAfter(p, 0)
      BY <2>1 DEF WriteText
    <3>2. /\ proc' \in [Indexer -> Reindexing \cup Resting]
          /\ \A q \in Indexer \ {p} : proc'[q] = proc[q]
          /\ \/ proc'[p].at = "idle"
             \/ /\ proc'[p].at = "check" /\ proc'[p] \in Reindexing
                /\ proc'[p].embeddings = proc[p].embeddings
                /\ proc'[p].got[proc'[p].doc] # NoRow /\ proc'[p].section = 1
      BY <1>2, <3>1, NextAfterGoes
    <3> QED  BY <2>1, <3>2
  <2>2. CASE ~proc[p].embeddings
    <3>1. proc' = [proc EXCEPT ![p] = [at |-> "idle"]]
      BY <2>2 DEF WriteText
    <3> QED  BY <3>1 DEF IndexTypeOK, Resting
  <2> QED  BY <2>1, <2>2
<1>4. IndexTypeOK'
  BY <1>1, <1>3 DEF IndexTypeOK
<1>5. OneEmbeds'
  BY <1>1, <1>3, OneEmbedsStill DEF IndexInv
<1>6. Staged(p)' /\ proc[p].at \notin Rewritings
  BY <1>1, <1>3, BegunIsStaged DEF Rewritings
<1> QED  BY <1>1, <1>3, <1>4, <1>5, <1>6, TablesStay

LEMMA FailKeeps ==
    ASSUME IndexTypeOK, IndexInv, NEW p \in Indexer, Fail(p)
    PROVE  IndexTypeOK' /\ IndexInv'
<1>1. /\ proc' = [proc EXCEPT ![p] = [at |-> "failed"]]
      /\ cut' = IF Rewriting(p) THEN cut \cup {At(p)} ELSE cut
      /\ UNCHANGED <<docs, hashes, sections, vectors>>
  BY DEF Fail, tables
<1>2. proc'[p].at = "failed" /\ \A q \in Indexer \ {p} : proc'[q] = proc[q]
  BY <1>1 DEF IndexTypeOK
<1>3. IndexTypeOK'
  BY <1>1 DEF IndexTypeOK, Resting
<1>4. OneEmbeds'
  BY <1>2, OneEmbedsStill DEF IndexInv
<1>5. Staged(p)'
  BY <1>2, BegunIsStaged
<1>6. /\ cut \subseteq cut'
      /\ proc[p].at \in Rewritings => \/ proc[p].doc \in cut'
                                      \/ proc'[p].at \in Rewritings /\ proc'[p].doc = proc[p].doc
  BY <1>1 DEF Rewriting, Rewritings, At
<1> QED  BY <1>1, <1>2, <1>3, <1>4, <1>5, <1>6, TablesStay

LEMMA CheckKeeps ==
    ASSUME IndexTypeOK, IndexInv, NEW p \in Indexer, Check(p)
    PROVE  IndexTypeOK' /\ IndexInv'
<1> DEFINE at == IF hashes[At(p)] # Got(p) THEN "outdated" ELSE "unchanged"
<1>1. proc[p].at = "check" /\ MoveTo(p, at) /\ UNCHANGED <<docs, hashes, sections, vectors, cut>>
  BY DEF Check, tables
<1>2. proc[p] \in Reindexing /\ at \in {"collect", "text"} \cup AtDocument
  BY <1>1, AwakeIsReindexing DEF AtDocument
<1>3. /\ proc' \in [Indexer -> Reindexing \cup Resting]
      /\ \A q \in Indexer \ {p} : proc'[q] = proc[q]
      /\ proc'[p].at = at /\ proc'[p].embeddings = proc[p].embeddings
      /\ proc'[p].got = proc[p].got /\ proc'[p].doc = proc[p].doc /\ proc'[p].section = proc[p].section
  <2> HIDE DEF at
  <2> QED  BY <1>1, <1>2, MoveToGoes
<1>4. IndexTypeOK'
  BY <1>1, <1>3 DEF IndexTypeOK
<1>5. OneEmbeds'
  BY <1>1, <1>3, OneEmbedsStill DEF IndexInv
<1>6. proc[p].embeddings /\ Got(p) # NoRow /\ proc[p].section = 1 /\ proc[p].at \notin Rewritings
  BY <1>1 DEF IndexInv, Staged, AtDocument, Rewritings
<1>7. Staged(p)'
  BY <1>1, <1>3, <1>6 DEF Staged, AtDocument, Rewritings, At, Got
<1> QED  BY <1>1, <1>3, <1>4, <1>5, <1>6, <1>7, TablesStay

\* What is known of one that is at a document.
LEMMA AtDocumentHas ==
    ASSUME IndexTypeOK, IndexInv, NEW p \in Indexer, proc[p].at \in AtDocument
    PROVE  /\ proc[p] \in Reindexing /\ proc[p].embeddings
           /\ At(p) \in Doc /\ Got(p) \in Contents /\ Got(p) # NoRow
           /\ Len(Got(p)) \in 1..MaxSections /\ proc[p].section \in 1..MaxSections
           /\ \A n \in 1..Len(Got(p)) : Got(p)[n] \in Section
<1>1. proc[p] \in Reindexing
  BY AwakeIsReindexing DEF AtDocument, Rewritings
<1>2. proc[p].embeddings /\ Got(p) # NoRow
  BY DEF IndexInv, Staged
<1>3. At(p) \in Doc /\ Got(p) \in Contents /\ proc[p].section \in 1..MaxSections
  BY <1>1 DEF Reindexing, At, Got
<1> QED  BY <1>1, <1>2, <1>3, ContentsHaveSections

LEMMA NextDocument ==
    ASSUME IndexTypeOK, IndexInv, NEW p \in Indexer, proc[p].at \in AtDocument, NextAfter(p, At(p))
    PROVE  /\ proc' \in [Indexer -> Reindexing \cup Resting]
           /\ \A q \in Indexer \ {p} : proc'[q] = proc[q]
           /\ OneEmbeds' /\ Staged(p)'
<1>1. proc[p] \in Reindexing /\ proc[p].embeddings /\ At(p) \in Int
  BY AtDocumentHas DEF Doc
<1>2. /\ proc' \in [Indexer -> Reindexing \cup Resting]
      /\ \A q \in Indexer \ {p} : proc'[q] = proc[q]
      /\ \/ proc'[p].at = "idle"
         \/ /\ proc'[p].at = "check" /\ proc'[p] \in Reindexing
            /\ proc'[p].embeddings = proc[p].embeddings
            /\ proc'[p].got[proc'[p].doc] # NoRow /\ proc'[p].section = 1
  BY <1>1, NextAfterGoes
<1>3. OneEmbeds'
  BY <1>2, OneEmbedsStill DEF IndexInv, AtDocument, Rewritings
<1>4. Staged(p)'
  BY <1>1, <1>2, BegunIsStaged
<1> QED  BY <1>2, <1>3, <1>4

LEMMA UpsertKeeps ==
    ASSUME IndexTypeOK, IndexInv, NEW p \in Indexer, Upsert(p)
    PROVE  IndexTypeOK' /\ IndexInv'
<1> DEFINE own == At(p)
           c == Got(p)
<1>1. /\ proc[p].at \in {"outdated", "unchanged"} /\ hashes' = [hashes EXCEPT ![own] = c]
      /\ UNCHANGED <<docs, sections, vectors, cut>>
  BY DEF Upsert
<1>2. proc[p].at \in AtDocument /\ proc[p].at \notin Rewritings
  BY <1>1 DEF AtDocument, Rewritings
<1>3. own \in Doc /\ c \in Contents /\ proc[p] \in Reindexing
  BY <1>2, AtDocumentHas
<1>4. hashes' \in [Doc -> Contents]
  BY <1>1, <1>3 DEF IndexTypeOK
<1>5. CASE proc[p].at = "unchanged"
  <2>1. hashes' = hashes
    BY <1>1, <1>3, <1>5 DEF IndexInv, Staged, IndexTypeOK
  <2>2. NextAfter(p, At(p))
    BY <1>5 DEF Upsert
  <2>3. /\ proc' \in [Indexer -> Reindexing \cup Resting]
        /\ \A q \in Indexer \ {p} : proc'[q] = proc[q]
        /\ OneEmbeds' /\ Staged(p)'
    BY <1>2, <2>2, NextDocument
  <2>4. IndexTypeOK'
    BY <1>1, <1>4, <2>3 DEF IndexTypeOK
  <2> QED  BY <1>1, <1>2, <2>1, <2>3, <2>4, TablesStay
<1>6. CASE proc[p].at = "outdated"
  <2>1. MoveTo(p, "embedded") /\ "embedded" \in {"collect", "text"} \cup AtDocument
    BY <1>6 DEF Upsert, AtDocument, Rewritings
  <2>2. /\ proc' \in [Indexer -> Reindexing \cup Resting]
        /\ \A q \in Indexer \ {p} : proc'[q] = proc[q]
        /\ proc'[p] \in Reindexing /\ proc'[p].at = "embedded"
        /\ proc'[p].embeddings = proc[p].embeddings /\ proc'[p].got = proc[p].got
        /\ proc'[p].doc = proc[p].doc /\ proc'[p].section = proc[p].section
    BY <1>3, <2>1, MoveToGoes
  <2>3. IndexTypeOK'
    BY <1>1, <1>4, <2>2 DEF IndexTypeOK
  <2>4. OneEmbeds'
    BY <1>6, <2>2, OneEmbedsStill DEF IndexInv
  <2>5. /\ proc[p].section = 1 /\ proc[p].embeddings /\ c # NoRow /\ Len(c) \in 1..MaxSections
    BY <1>2, <1>6, AtDocumentHas DEF IndexInv, Staged
  <2>6. hashes'[own] = c
    BY <1>1, <1>3 DEF IndexTypeOK
  <2>7. Staged(p)'
    BY <2>2, <2>5, <2>6 DEF Staged, AtDocument, Rewritings, At, Got
  <2>8. /\ \A d \in Doc \ {own} : hashes'[d] = hashes[d]
        /\ \A k \in Key : k[1] # own => sections'[k] = sections[k] /\ vectors'[k] = vectors[k]
        /\ \A k \in Key : k[1] = own /\ vectors'[k] # NoRow => sections'[k] = vectors'[k]
        /\ cut \subseteq cut' \cup {own}
    BY <1>1 DEF IndexTypeOK, IndexInv, VectorsHaveSections
  <2>9. proc'[p].at \in Rewritings /\ proc'[p].doc = own /\ proc[p].doc = own
    BY <2>2 DEF Rewritings, At
  <2> HIDE DEF own
  <2> QED  BY <1>2, <1>3, <2>2, <2>3, <2>4, <2>7, <2>8, <2>9, RowsElsewhereStay
<1> QED  BY <1>1, <1>5, <1>6

\* A statement of replace_sections, and the next one to come.
LEMMA Rewrites ==
    ASSUME IndexTypeOK, IndexInv, NEW p \in Indexer, proc[p].at \in Rewritings,
           NEW at \in Rewritings, MoveTo(p, at)
    PROVE  /\ proc' \in [Indexer -> Reindexing \cup Resting]
           /\ \A q \in Indexer \ {p} : proc'[q] = proc[q]
           /\ proc'[p].at = at /\ proc'[p].embeddings
           /\ At(p)' = At(p) /\ Got(p)' = Got(p) /\ proc'[p].section = proc[p].section
           /\ OneEmbeds'
<1>1. proc[p].at \in AtDocument /\ at \in {"collect", "text"} \cup AtDocument
  BY DEF AtDocument
<1>2. proc[p] \in Reindexing /\ proc[p].embeddings
  BY <1>1, AtDocumentHas
<1>3. /\ proc' \in [Indexer -> Reindexing \cup Resting]
      /\ \A q \in Indexer \ {p} : proc'[q] = proc[q]
      /\ proc'[p] \in Reindexing /\ proc'[p].at = at
      /\ proc'[p].embeddings = proc[p].embeddings /\ proc'[p].got = proc[p].got
      /\ proc'[p].doc = proc[p].doc /\ proc'[p].section = proc[p].section
  BY <1>1, <1>2, MoveToGoes
<1>4. OneEmbeds'
  BY <1>3, OneEmbedsStill DEF IndexInv, Rewritings
<1> QED  BY <1>2, <1>3, <1>4 DEF At, Got

\* A row of d: its number among the sections.
LEMMA RowsOf ==
    ASSUME NEW d \in Doc
    PROVE  /\ \A k \in Key : k[1] = d => k[2] \in 1..MaxSections /\ k = <<d, k[2]>>
           /\ \A n \in 1..MaxSections : <<d, n>> \in Key
BY DEF Key

LEMMA DeleteVectorsKeeps ==
    ASSUME IndexTypeOK, IndexInv, NEW p \in Indexer, DeleteVectors(p)
    PROVE  IndexTypeOK' /\ IndexInv'
<1> DEFINE own == At(p)
<1>1. /\ proc[p].at = "embedded" /\ MoveTo(p, "unlisted")
      /\ vectors' = [k \in Key |-> IF k \in KeysIn(sections, own) THEN NoRow ELSE vectors[k]]
      /\ UNCHANGED <<docs, hashes, sections, cut>>
  BY DEF DeleteVectors
<1>2. proc[p].at \in AtDocument /\ proc[p].at \in Rewritings /\ "unlisted" \in Rewritings
  BY <1>1 DEF AtDocument, Rewritings
<1>3. own \in Doc /\ Got(p) # NoRow /\ proc[p].section \in 1..MaxSections
  BY <1>2, AtDocumentHas
<1>4. /\ proc' \in [Indexer -> Reindexing \cup Resting]
      /\ \A q \in Indexer \ {p} : proc'[q] = proc[q]
      /\ proc'[p].at = "unlisted" /\ proc'[p].embeddings
      /\ At(p)' = own /\ Got(p)' = Got(p) /\ proc'[p].section = proc[p].section
      /\ OneEmbeds'
  BY <1>1, <1>2, Rewrites
<1> HIDE DEF own
<1>5. IndexTypeOK'
  BY <1>1, <1>4 DEF IndexTypeOK
<1>6. /\ \A k \in Key : k[1] # own => vectors'[k] = vectors[k]
      /\ \A k \in Key : k[1] = own => vectors'[k] = NoRow
  BY <1>1 DEF KeysIn, IndexInv, VectorsHaveSections
<1>7. hashes[own] = Got(p) /\ proc[p].section <= Len(Got(p)) /\ proc[p].section = 1
  BY <1>1, <1>2 DEF IndexInv, Staged, own
<1>8. Staged(p)'
  <2>1. \A n \in 1..MaxSections : vectors'[<<own, n>>] = NoRow
    BY <1>3, <1>6, RowsOf
  <2> QED  BY <1>1, <1>3, <1>4, <1>7, <2>1 DEF Staged, AtDocument, Rewritings
<1>9. IndexInv'
  <2>1. /\ \A d \in Doc \ {own} : hashes'[d] = hashes[d]
        /\ \A k \in Key : k[1] # own => sections'[k] = sections[k] /\ vectors'[k] = vectors[k]
        /\ \A k \in Key : k[1] = own /\ vectors'[k] # NoRow => sections'[k] = vectors'[k]
        /\ cut \subseteq cut' \cup {own}
    BY <1>1, <1>6
  <2>2. proc'[p].at \in Rewritings /\ proc'[p].doc = own /\ proc[p].doc = own
    BY <1>2, <1>4 DEF At, own
  <2> QED  BY <1>2, <1>3, <1>4, <1>8, <2>1, <2>2, RowsElsewhereStay
<1> QED  BY <1>5, <1>9

LEMMA DeleteSectionsKeeps ==
    ASSUME IndexTypeOK, IndexInv, NEW p \in Indexer, DeleteSections(p)
    PROVE  IndexTypeOK' /\ IndexInv'
<1> DEFINE own == At(p)
<1>1. /\ proc[p].at = "unlisted" /\ MoveTo(p, "section")
      /\ sections' = [k \in Key |-> IF k[1] = own THEN NoRow ELSE sections[k]]
      /\ UNCHANGED <<docs, hashes, vectors, cut>>
  BY DEF DeleteSections
<1>2. proc[p].at \in AtDocument /\ proc[p].at \in Rewritings /\ "section" \in Rewritings
  BY <1>1 DEF AtDocument, Rewritings
<1>3. own \in Doc /\ Got(p) # NoRow /\ proc[p].section \in 1..MaxSections
  BY <1>2, AtDocumentHas
<1>4. /\ proc' \in [Indexer -> Reindexing \cup Resting]
      /\ \A q \in Indexer \ {p} : proc'[q] = proc[q]
      /\ proc'[p].at = "section" /\ proc'[p].embeddings
      /\ At(p)' = own /\ Got(p)' = Got(p) /\ proc'[p].section = proc[p].section
      /\ OneEmbeds'
  BY <1>1, <1>2, Rewrites
<1>5. /\ hashes[own] = Got(p) /\ proc[p].section <= Len(Got(p)) /\ proc[p].section = 1
      /\ \A n \in 1..MaxSections : vectors[<<own, n>>] = NoRow
  BY <1>1, <1>2 DEF IndexInv, Staged
<1> HIDE DEF own
<1>6. IndexTypeOK'
  BY <1>1, <1>4 DEF IndexTypeOK
<1>7. \A n \in 1..MaxSections : sections'[<<own, n>>] = NoRow /\ vectors'[<<own, n>>] = NoRow
  BY <1>1, <1>3, <1>5, RowsOf
<1>8. Staged(p)'
  <2>1. Written(At(p), Got(p), proc[p].section - 1, proc[p].section - 1)'
    BY <1>4, <1>5, <1>7 DEF Written
  <2> QED  BY <1>1, <1>3, <1>4, <1>5, <2>1 DEF Staged, AtDocument, Rewritings
<1>9. IndexInv'
  <2>1. /\ \A d \in Doc \ {own} : hashes'[d] = hashes[d]
        /\ \A k \in Key : k[1] # own => sections'[k] = sections[k] /\ vectors'[k] = vectors[k]
        /\ cut \subseteq cut' \cup {own}
    BY <1>1
  <2>2. \A k \in Key : k[1] = own /\ vectors'[k] # NoRow => sections'[k] = vectors'[k]
    BY <1>3, <1>7, RowsOf
  <2>3. proc'[p].at \in Rewritings /\ proc'[p].doc = own /\ proc[p].doc = own
    BY <1>2, <1>4 DEF At, own
  <2> QED  BY <1>2, <1>3, <1>4, <1>8, <2>1, <2>2, <2>3, RowsElsewhereStay
<1> QED  BY <1>6, <1>9

LEMMA InsertSectionKeeps ==
    ASSUME IndexTypeOK, IndexInv, NEW p \in Indexer, InsertSection(p)
    PROVE  IndexTypeOK' /\ IndexInv'
<1> DEFINE own == At(p)
           c == Got(p)
           n == proc[p].section
<1>1. /\ proc[p].at = "section" /\ MoveTo(p, "vector")
      /\ sections' = [sections EXCEPT ![<<own, n>>] = c[n]]
      /\ UNCHANGED <<docs, hashes, vectors, cut>>
  BY DEF InsertSection, KeyOf
<1>2. proc[p].at \in AtDocument /\ proc[p].at \in Rewritings /\ "vector" \in Rewritings
  BY <1>1 DEF AtDocument, Rewritings
<1>3. /\ own \in Doc /\ c # NoRow /\ n \in 1..MaxSections /\ Len(c) \in 1..MaxSections
      /\ \A i \in 1..Len(c) : c[i] \in Section
  BY <1>2, AtDocumentHas
<1>4. /\ proc' \in [Indexer -> Reindexing \cup Resting]
      /\ \A q \in Indexer \ {p} : proc'[q] = proc[q]
      /\ proc'[p].at = "vector" /\ proc'[p].embeddings
      /\ At(p)' = own /\ Got(p)' = c /\ proc'[p].section = n
      /\ OneEmbeds'
  BY <1>1, <1>2, Rewrites
<1>5. hashes[own] = c /\ n <= Len(c) /\ Written(own, c, n - 1, n - 1)
  BY <1>1, <1>2 DEF IndexInv, Staged
<1>6. proc[p].doc = own
  BY DEF At
<1>7. proc'[p].doc = own
  BY <1>4 DEF At
<1> HIDE DEF own, c, n
<1>8. /\ <<own, n>> \in Key /\ sections'[<<own, n>>] = c[n]
      /\ \A k \in Key \ {<<own, n>>} : sections'[k] = sections[k]
  BY <1>1, <1>3, RowsOf DEF IndexTypeOK
<1>9. IndexTypeOK'
  BY <1>1, <1>3, <1>4, <1>5, <1>8 DEF IndexTypeOK
<1>10. \A m \in 1..MaxSections :
          /\ sections'[<<own, m>>] = IF m <= n THEN c[m] ELSE NoRow
          /\ vectors'[<<own, m>>] = IF m <= n - 1 THEN c[m] ELSE NoRow
  <2> SUFFICES ASSUME NEW m \in 1..MaxSections
               PROVE  /\ sections'[<<own, m>>] = IF m <= n THEN c[m] ELSE NoRow
                      /\ vectors'[<<own, m>>] = IF m <= n - 1 THEN c[m] ELSE NoRow
    OBVIOUS
  <2>1. /\ sections[<<own, m>>] = IF m <= n - 1 THEN c[m] ELSE NoRow
        /\ vectors'[<<own, m>>] = IF m <= n - 1 THEN c[m] ELSE NoRow
    BY <1>1, <1>5 DEF Written
  <2>2. CASE m = n
    BY <1>3, <1>8, <2>1, <2>2
  <2>3. CASE m # n
    <3>1. sections'[<<own, m>>] = sections[<<own, m>>]
      BY <1>3, <1>8, <2>3, RowsOf
    <3> QED  BY <1>3, <2>1, <2>3, <3>1
  <2> QED  BY <2>2, <2>3
<1>11. Staged(p)'
  <2>1. Written(At(p), Got(p), proc[p].section, proc[p].section - 1)'
    BY <1>4, <1>10 DEF Written
  <2> QED  BY <1>1, <1>3, <1>4, <1>5, <2>1 DEF Staged, AtDocument, Rewritings
<1>12. IndexInv'
  <2>1. /\ \A d \in Doc \ {own} : hashes'[d] = hashes[d]
        /\ cut \subseteq cut' \cup {own}
    BY <1>1
  <2>2. \A k \in Key : k[1] # own => sections'[k] = sections[k] /\ vectors'[k] = vectors[k]
    BY <1>1, <1>8
  <2>3. \A k \in Key : k[1] = own /\ vectors'[k] # NoRow => sections'[k] = vectors'[k]
    <3>1. \A m \in 1..MaxSections : vectors'[<<own, m>>] # NoRow => sections'[<<own, m>>] = vectors'[<<own, m>>]
      BY <1>3, <1>10
    <3> QED  BY <1>3, <3>1, RowsOf
  <2>4. proc'[p].at \in Rewritings
    BY <1>2, <1>4
  <2> QED  BY <1>2, <1>3, <1>4, <1>6, <1>7, <1>11, <2>1, <2>2, <2>3, <2>4, RowsElsewhereStay
<1> QED  BY <1>9, <1>12

LEMMA InsertVectorKeeps ==
    ASSUME IndexTypeOK, IndexInv, NEW p \in Indexer, InsertVector(p)
    PROVE  IndexTypeOK' /\ IndexInv'
<1> DEFINE own == At(p)
           c == Got(p)
           n == proc[p].section
<1>1. /\ proc[p].at = "vector" /\ vectors' = [vectors EXCEPT ![<<own, n>>] = c[n]]
      /\ UNCHANGED <<docs, hashes, sections>>
  BY DEF InsertVector, KeyOf
<1>2. proc[p].at \in AtDocument /\ proc[p].at \in Rewritings
  BY <1>1 DEF AtDocument, Rewritings
<1>3. /\ own \in Doc /\ c # NoRow /\ n \in 1..MaxSections /\ Len(c) \in 1..MaxSections
      /\ \A i \in 1..Len(c) : c[i] \in Section
      /\ proc[p] \in Reindexing /\ proc[p].embeddings
  BY <1>2, AtDocumentHas
<1>4. hashes[own] = c /\ n <= Len(c) /\ Written(own, c, n, n - 1)
  BY <1>1, <1>2 DEF IndexInv, Staged
<1>5. proc[p].doc = own
  BY DEF At
<1>6. \/ /\ n < Len(c) /\ UNCHANGED cut
         /\ proc' = [proc EXCEPT ![p] = [proc[p] EXCEPT !.at = "section", !.section = n + 1]]
      \/ n = Len(c) /\ NextAfter(p, At(p)) /\ cut' = cut \ {own}
  <2>1. CASE n < Len(c)
    <3>1. UNCHANGED cut /\ proc' = [proc EXCEPT ![p].at = "section", ![p].section = n + 1]
      BY <1>3, <2>1 DEF InsertVector, IndexTypeOK, Reindexing
    <3>2. proc' = [proc EXCEPT ![p] = [proc[p] EXCEPT !.at = "section", !.section = n + 1]]
      BY <3>1
    <3> QED  BY <2>1, <3>1, <3>2
  <2>2. CASE ~(n < Len(c))
    BY <1>3, <1>4, <2>2 DEF InsertVector
  <2> QED  BY <2>1, <2>2
<1> DEFINE went == [proc[p] EXCEPT !.at = "section", !.section = n + 1]
<1>7. n < Len(c) => /\ went \in Reindexing /\ went.at = "section" /\ went.section = n + 1
                    /\ went.got = proc[p].got /\ went.doc = proc[p].doc /\ went.embeddings = proc[p].embeddings
  <2>1. n < Len(c) => n + 1 \in 1..MaxSections
    BY <1>3, DocsAssumption
  <2> HIDE DEF n, c
  <2> QED  BY <1>3, <2>1, ReindexingTypes DEF Reindexing
<1>8. Got(p) = proc[p].got[own]
  BY DEF Got
<1> HIDE DEF own, n, went
<1>9. /\ <<own, n>> \in Key /\ vectors'[<<own, n>>] = c[n]
      /\ \A k \in Key \ {<<own, n>>} : vectors'[k] = vectors[k]
  BY <1>1, <1>3, RowsOf DEF IndexTypeOK
<1>10. vectors' \in [Key -> Section \cup {NoRow}]
  BY <1>1, <1>3, <1>4, <1>9 DEF IndexTypeOK
<1> HIDE DEF c
<1>11. \A m \in 1..MaxSections :
          /\ sections'[<<own, m>>] = IF m <= n THEN c[m] ELSE NoRow
          /\ vectors'[<<own, m>>] = IF m <= n THEN c[m] ELSE NoRow
  <2> SUFFICES ASSUME NEW m \in 1..MaxSections
               PROVE  /\ sections'[<<own, m>>] = IF m <= n THEN c[m] ELSE NoRow
                      /\ vectors'[<<own, m>>] = IF m <= n THEN c[m] ELSE NoRow
    OBVIOUS
  <2>1. /\ sections'[<<own, m>>] = IF m <= n THEN c[m] ELSE NoRow
        /\ vectors[<<own, m>>] = IF m <= n - 1 THEN c[m] ELSE NoRow
    BY <1>1, <1>4 DEF Written
  <2>2. CASE m = n
    BY <1>3, <1>9, <2>1, <2>2
  <2>3. CASE m # n
    <3>1. vectors'[<<own, m>>] = vectors[<<own, m>>]
      BY <1>3, <1>9, <2>3, RowsOf
    <3> QED  BY <1>3, <2>1, <2>3, <3>1
  <2> QED  BY <2>2, <2>3
<1>12. /\ \A d \in Doc \ {own} : hashes'[d] = hashes[d]
       /\ \A k \in Key : k[1] # own => sections'[k] = sections[k] /\ vectors'[k] = vectors[k]
       /\ \A k \in Key : k[1] = own /\ vectors'[k] # NoRow => sections'[k] = vectors'[k]
       /\ cut \subseteq cut' \cup {own}
  <2>1. \A k \in Key : k[1] # own => sections'[k] = sections[k] /\ vectors'[k] = vectors[k]
    BY <1>1, <1>9
  <2>2. \A k \in Key : k[1] = own /\ vectors'[k] # NoRow => sections'[k] = vectors'[k]
    BY <1>3, <1>11, RowsOf
  <2> QED  BY <1>1, <1>6, <2>1, <2>2
<1>13. CASE /\ n < Len(c) /\ UNCHANGED cut
            /\ proc' = [proc EXCEPT ![p] = went]
  <2>1. /\ proc'[p] = went /\ proc' \in [Indexer -> Reindexing \cup Resting]
        /\ \A q \in Indexer \ {p} : proc'[q] = proc[q]
    BY <1>7, <1>13 DEF IndexTypeOK
  <2>2. /\ proc'[p].at = "section" /\ proc'[p].section = n + 1 /\ proc'[p].embeddings
        /\ proc'[p].doc = own /\ At(p)' = own /\ Got(p)' = c
    BY <1>3, <1>5, <1>7, <1>8, <1>13, <2>1 DEF At, Got, c
  <2>3. IndexTypeOK'
    BY <1>1, <1>10, <2>1 DEF IndexTypeOK
  <2>4. OneEmbeds'
    BY <1>1, <1>3, <2>1, <2>2, OneEmbedsStill DEF IndexInv
  <2>5. Staged(p)'
    <3>1. Written(At(p), Got(p), proc[p].section - 1, proc[p].section - 1)'
      <4>1. proc'[p].section - 1 = n
        BY <1>3, <2>2
      <4> QED  BY <1>11, <2>2, <4>1 DEF Written
    <3>2. proc'[p].section <= Len(c)
      BY <1>3, <1>13, <2>2
    <3> QED  BY <1>1, <1>3, <1>4, <2>2, <3>1, <3>2 DEF Staged, AtDocument, Rewritings
  <2>6. proc'[p].at \in Rewritings
    BY <2>2 DEF Rewritings
  <2>7. IndexInv'
    BY <1>2, <1>3, <1>5, <1>12, <2>1, <2>2, <2>4, <2>5, <2>6, RowsElsewhereStay
  <2> QED  BY <2>3, <2>7
<1>14. CASE n = Len(c) /\ NextAfter(p, At(p)) /\ cut' = cut \ {own}
  <2>1. /\ proc' \in [Indexer -> Reindexing \cup Resting]
        /\ \A q \in Indexer \ {p} : proc'[q] = proc[q]
        /\ OneEmbeds' /\ Staged(p)'
    BY <1>2, <1>14, NextDocument
  <2>2. IndexTypeOK'
    BY <1>1, <1>10, <2>1 DEF IndexTypeOK
  <2>3. PICK d \in Doc : d = own
    BY <1>3
  <2>4. Embedded(d, hashes[d])'
    BY <1>1, <1>3, <1>4, <1>11, <1>14, <2>3 DEF Embedded
  <2>5. IndexInv'
    BY <1>2, <1>3, <1>5, <1>12, <2>1, <2>3, <2>4, RowsElsewhereStay
  <2> QED  BY <2>2, <2>5
<1> QED  BY <1>6, <1>13, <1>14 DEF went

-----------------------------------------------------------------------------
LEMMA SearchNextKeeps ==
    ASSUME Exclusive, IndexTypeOK, IndexInv, [SearchNext]_searchVars
    PROVE  IndexTypeOK' /\ IndexInv'
<1>1. CASE UNCHANGED indexVars
  <2>1. UNCHANGED <<docs, hashes, sections, vectors, proc, cut>>
    BY <1>1 DEF indexVars, tables
  <2>2. IndexTypeOK'
    BY <2>1 DEF IndexTypeOK
  <2>3. IndexInv'
    BY <2>1 DEF IndexInv, OneEmbeds, Embedding, Indexing, Staged, Written, At, Got,
                VectorsHaveSections, HashMeansEmbedded, Embedded, BeingRewritten, Rewriting
  <2> QED  BY <2>2, <2>3
<1>2. ASSUME NEW d \in Doc, NEW c \in ContentOf[d] \cup {NoRow}, Change(d, c)
      PROVE  IndexTypeOK' /\ IndexInv'
  BY <1>2, ChangeKeeps
<1>3. ASSUME NEW p \in Indexer, StartReindex(p)
      PROVE  IndexTypeOK' /\ IndexInv'
  BY <1>3, StartKeeps DEF StartReindex
<1>4. ASSUME NEW p \in Indexer, Work(p)
      PROVE  IndexTypeOK' /\ IndexInv'
  BY <1>4, CollectKeeps, WriteTextKeeps, CheckKeeps, UpsertKeeps, DeleteVectorsKeeps, DeleteSectionsKeeps,
     InsertSectionKeeps, InsertVectorKeeps DEF Work
<1>5. ASSUME NEW p \in Indexer, Fail(p)
      PROVE  IndexTypeOK' /\ IndexInv'
  BY <1>5, FailKeeps
<1>6. CASE IndexNext
  BY <1>2, <1>3, <1>4, <1>5, <1>6 DEF IndexNext
<1>7. CASE SearchText \/ SearchVectors
  BY <1>1, <1>7 DEF SearchText, SearchVectors
<1>8. CASE UNCHANGED searchVars
  BY <1>1, <1>8 DEF searchVars
<1> QED  BY <1>6, <1>7, <1>8 DEF SearchNext

LEMMA SearchInitKeeps == SearchInit => IndexInv
<1> SUFFICES ASSUME SearchInit
             PROVE  IndexInv
  OBVIOUS
<1>1. \A p \in Indexer : proc[p].at = "idle"
  BY DEF SearchInit, IndexInit
<1>2. OneEmbeds /\ \A p \in Indexer : Staged(p)
  BY <1>1 DEF OneEmbeds, Embedding, Indexing, Staged, AtDocument, Rewritings
<1>3. /\ \A k \in Key : vectors[k] = NoRow
      /\ \A d \in Doc : hashes[d] = NoRow
  BY DEF SearchInit, IndexInit, Empty, Nothing
<1>4. VectorsHaveSections
  BY <1>3 DEF VectorsHaveSections
<1>5. HashMeansEmbedded
  BY <1>3, RowsOf DEF HashMeansEmbedded, Embedded
<1> QED  BY <1>2, <1>4, <1>5 DEF IndexInv

LEMMA InvImpliesTablesAgree == IndexTypeOK /\ IndexInv => TablesAgree
<1> SUFFICES ASSUME IndexTypeOK, IndexInv, NEW p \in Indexer
             PROVE  /\ proc[p].at = "section" => sections[KeyOf(p)] = NoRow
                    /\ proc[p].at = "vector"  => vectors[KeyOf(p)] = NoRow
  BY DEF TablesAgree, KeysAreFree, IndexInv
<1>1. proc[p].at \in {"section", "vector"} => proc[p].section \in 1..MaxSections
  BY AtDocumentHas DEF AtDocument, Rewritings
<1>2. CASE proc[p].at = "section"
  <2>1. Written(At(p), Got(p), proc[p].section - 1, proc[p].section - 1)
    BY <1>2 DEF IndexInv, Staged
  <2>2. sections[<<At(p), proc[p].section>>] = NoRow
    BY <1>1, <1>2, <2>1 DEF Written
  <2> QED  BY <1>2, <2>2 DEF KeyOf
<1>3. CASE proc[p].at = "vector"
  <2>1. Written(At(p), Got(p), proc[p].section, proc[p].section - 1)
    BY <1>3 DEF IndexInv, Staged
  <2>2. vectors[<<At(p), proc[p].section>>] = NoRow
    BY <1>1, <1>3, <2>1 DEF Written
  <2> QED  BY <1>3, <2>2 DEF KeyOf
<1> QED  BY <1>2, <1>3

(***************************************************************************)
(* Wherever reindexes broke off, an embedding is that of its row in table  *)
(* sections, and no INSERT of replace_sections meets a row with its key:   *)
(* if reindexes with embeddings exclude each other.                        *)
(***************************************************************************)
THEOREM TablesAlwaysAgree ==
    ASSUME Exclusive
    PROVE  SearchSpec => []TablesAgree
<1>1. SearchInit => IndexTypeOK /\ IndexInv
  BY TypeInit, SearchInitKeeps
<1>2. IndexTypeOK /\ IndexInv /\ [SearchNext]_searchVars => (IndexTypeOK /\ IndexInv)'
  BY Exclusive, SearchNextKeeps
<1> QED  BY <1>1, <1>2, InvImpliesTablesAgree, PTL DEF SearchSpec

(***************************************************************************)
(* A content_hash that makes later reindexes skip a document means that    *)
(* the embeddings are those of that content, unless the rewriting of the   *)
(* document broke off: if reindexes with embeddings exclude each other.    *)
(***************************************************************************)
THEOREM HashesMeanEmbedded ==
    ASSUME Exclusive
    PROVE  SearchSpec => []HashMeansEmbedded
<1>1. SearchInit => IndexTypeOK /\ IndexInv
  BY TypeInit, SearchInitKeeps
<1>2. IndexTypeOK /\ IndexInv /\ [SearchNext]_searchVars => (IndexTypeOK /\ IndexInv)'
  BY Exclusive, SearchNextKeeps
<1>3. IndexInv => HashMeansEmbedded
  BY DEF IndexInv
<1> QED  BY <1>1, <1>2, <1>3, PTL DEF SearchSpec

-----------------------------------------------------------------------------
(***************************************************************************)
(* Sorting.  An order of a finite set sorts it: a member with n before it  *)
(* comes at n + 1, and so every member has a place of its own.             *)
(***************************************************************************)
IsOrder(S, before) ==
    /\ \A d \in S : <<d, d>> \notin before
    /\ \A d, e \in S : d # e => <<d, e>> \in before \/ <<e, d>> \in before
    /\ \A d, e, f \in S : <<d, e>> \in before /\ <<e, f>> \in before => <<d, f>> \in before

InOrder(list, before) == \A i, j \in DOMAIN list : i < j => <<list[i], list[j]>> \in before

LEMMA PlacesAreDistinct ==
    ASSUME NEW S, IsFiniteSet(S), NEW before, IsOrder(S, before)
    PROVE  \E place \in Bijection(S, 1..Cardinality(S)) :
               \A d, e \in S : <<d, e>> \in before => place[d] < place[e]
<1> DEFINE Prior(d) == {e \in S : <<e, d>> \in before}
           place == [d \in S |-> Cardinality(Prior(d)) + 1]
           n == Cardinality(S)
<1>1. ASSUME NEW d \in S
      PROVE  /\ IsFiniteSet(Prior(d)) /\ Cardinality(Prior(d)) \in Nat
             /\ Prior(d) \subseteq S /\ d \notin Prior(d)
  <2>1. Prior(d) \in SUBSET S /\ d \notin Prior(d)
    BY DEF IsOrder
  <2>2. IsFiniteSet(Prior(d))
    BY <2>1, FS_Subset
  <2> QED  BY <2>1, <2>2, FS_CardinalityType
<1>2. ASSUME NEW d \in S, NEW e \in S, <<d, e>> \in before
      PROVE  Cardinality(Prior(d)) < Cardinality(Prior(e))
  <2>1. Prior(d) \in SUBSET Prior(e) /\ d \in Prior(e) /\ d \notin Prior(d)
    BY <1>2 DEF IsOrder
  <2>2. Cardinality(Prior(d)) <= Cardinality(Prior(e)) /\ Cardinality(Prior(d)) # Cardinality(Prior(e))
    <3> HIDE DEF Prior
    <3> QED  BY <1>1, <2>1, FS_Subset
  <2> HIDE DEF Prior
  <2> QED  BY <1>1, <2>2
<1>3. n \in Nat
  BY FS_CardinalityType
<1>4. ASSUME NEW d \in S
      PROVE  Cardinality(Prior(d)) < n
  <2>1. Prior(d) \in SUBSET S /\ Prior(d) # S
    BY <1>1
  <2>2. Cardinality(Prior(d)) <= n /\ Cardinality(Prior(d)) # n
    <3> HIDE DEF Prior
    <3> QED  BY <2>1, FS_Subset
  <2> HIDE DEF Prior, n
  <2> QED  BY <1>1, <1>3, <2>2
<1> HIDE DEF Prior
<1>5. place \in [S -> 1..n]
  BY <1>1, <1>3, <1>4
<1>6. \A d, e \in S : <<d, e>> \in before => place[d] < place[e]
  BY <1>1, <1>2
<1>7. \A d \in S : place[d] \in Nat
  BY <1>1
<1> HIDE DEF place
<1>8. ASSUME NEW d \in S, NEW e \in S, place[d] = place[e], d # e
      PROVE  FALSE
  <2>1. <<d, e>> \in before \/ <<e, d>> \in before
    BY <1>8 DEF IsOrder
  <2>2. place[d] < place[e] \/ place[e] < place[d]
    BY <1>6, <2>1
  <2> QED  BY <1>7, <1>8, <2>2
<1>9. place \in Injection(S, 1..n)
  BY <1>5, <1>8 DEF Injection, IsInjective
<1>10. IsFiniteSet(1..n) /\ Cardinality(1..n) = n
  BY <1>3, FS_Interval
<1>11. place \in Surjection(S, 1..n)
  <2> HIDE DEF n
  <2>1. Cardinality(S) = n
    BY DEF n
  <2> QED  BY <1>9, <1>10, <2>1, FS_Injection
<1> QED  BY <1>6, <1>9, <1>11 DEF Bijection

\* The result is all of S, every member once, in the order asked for.
LEMMA SortedIsSorted ==
    ASSUME NEW S, IsFiniteSet(S), NEW before, IsOrder(S, before)
    PROVE  /\ Cardinality(S) \in Nat
           /\ Sorted(S, before) \in [1..Cardinality(S) -> S]
           /\ InOrder(Sorted(S, before), before)
           /\ \A d \in S : \E i \in 1..Cardinality(S) : Sorted(S, before)[i] = d
<1> DEFINE n == Cardinality(S)
<1>1. n \in Nat
  BY FS_CardinalityType
<1>2. PICK place \in Bijection(S, 1..n) : \A d, e \in S : <<d, e>> \in before => place[d] < place[e]
  BY PlacesAreDistinct
<1>3. /\ place \in [S -> 1..n]
      /\ \A d, e \in S : place[d] = place[e] => d = e
      /\ \A i \in 1..n : \E d \in S : place[d] = i
  BY <1>2 DEF Bijection, Injection, Surjection, IsInjective
<1> DEFINE list == [i \in 1..n |-> CHOOSE d \in S : place[d] = i]
<1>4. \A i \in 1..n : list[i] \in S /\ place[list[i]] = i
  BY <1>3
<1>5. list \in [1..n -> S] /\ DOMAIN list = 1..n
  BY <1>4
<1> HIDE DEF list
<1>6. InOrder(list, before)
  <2> SUFFICES ASSUME NEW i \in 1..n, NEW j \in 1..n, i < j
               PROVE  <<list[i], list[j]>> \in before
    BY <1>5 DEF InOrder
  <2>1. list[i] \in S /\ list[j] \in S /\ place[list[i]] = i /\ place[list[j]] = j
    BY <1>4
  <2>2. list[i] # list[j] /\ ~(place[list[j]] < place[list[i]])
    BY <1>1, <2>1
  <2> QED  BY <1>2, <2>1, <2>2 DEF IsOrder
<1>7. list \in SetToSeqs(S)
  BY <1>4, <1>5 DEF SetToSeqs
<1>8. Sorted(S, before) \in SetToSeqs(S) /\ InOrder(Sorted(S, before), before)
  BY <1>6, <1>7 DEF Sorted, InOrder
<1> DEFINE sorted == Sorted(S, before)
<1> HIDE DEF sorted
<1>9. sorted \in [1..n -> S] /\ \A i, j \in 1..n : i # j => sorted[i] # sorted[j]
  BY <1>8 DEF SetToSeqs, sorted
<1>10. sorted \in Injection(1..n, S)
  BY <1>9 DEF Injection, IsInjective
<1>11. IsFiniteSet(1..n) /\ Cardinality(1..n) = n
  BY <1>1, FS_Interval
<1>12. sorted \in Surjection(1..n, S)
  <2> HIDE DEF n
  <2>1. Cardinality(S) = n
    BY DEF n
  <2> QED  BY <1>10, <1>11, <2>1, FS_Injection
<1>13. \A d \in S : \E i \in 1..n : sorted[i] = d
  BY <1>12 DEF Surjection
<1> QED  BY <1>1, <1>8, <1>9, <1>13 DEF sorted

-----------------------------------------------------------------------------
(***************************************************************************)
(* Scores.  Fractions are compared by their products crosswise; the order  *)
(* is one of the fractions as denominators are positive.                   *)
(***************************************************************************)
Fraction == Nat \X (Nat \ {0})

LEMMA Times ==
    ASSUME NEW x \in Int, NEW y \in Int, NEW z \in Int, z > 0
    PROVE  /\ x * z \in Int /\ y * z \in Int
           /\ x > y <=> x * z > y * z
  BY SMTT(30)

LEMMA CrossProducts ==
    ASSUME NEW a \in Int, NEW b \in Int, NEW c \in Int, NEW d \in Int, NEW e \in Int, NEW f \in Int,
           b > 0, d > 0, f > 0
    PROVE  /\ a * d > c * b /\ c * f >= e * d => a * f > e * b
           /\ a * d >= c * b /\ c * f > e * d => a * f > e * b
           /\ a * d >= c * b /\ c * f >= e * d => a * f >= e * b
<1>1. /\ a * d > c * b <=> (a * d) * f > (c * b) * f
      /\ c * b > a * d <=> (c * b) * f > (a * d) * f
  BY Times
<1>2. /\ c * f > e * d <=> (c * f) * b > (e * d) * b
      /\ e * d > c * f <=> (e * d) * b > (c * f) * b
  BY Times
<1>3. /\ a * f > e * b <=> (a * f) * d > (e * b) * d
      /\ e * b > a * f <=> (e * b) * d > (a * f) * d
  BY Times
<1>4. /\ (a * d) * f = (a * f) * d
      /\ (c * b) * f = (c * f) * b
      /\ (e * d) * b = (e * b) * d
  BY SMTT(30)
<1>5. /\ a * d \in Int /\ c * b \in Int /\ c * f \in Int /\ e * d \in Int /\ a * f \in Int /\ e * b \in Int
      /\ (a * f) * d \in Int /\ (c * f) * b \in Int /\ (e * b) * d \in Int
  OBVIOUS
<1> QED  BY <1>1, <1>2, <1>3, <1>4, <1>5

LEMMA AheadOrders ==
    ASSUME NEW f \in Fraction, NEW g \in Fraction, NEW h \in Fraction
    PROVE  /\ ~(Ahead(f, g) /\ Ahead(g, f))
           /\ Ahead(f, g) /\ ~Ahead(h, g) => Ahead(f, h)
           /\ ~Ahead(g, f) /\ Ahead(g, h) => Ahead(f, h)
           /\ ~Ahead(g, f) /\ ~Ahead(h, g) => ~Ahead(h, f)
<1>1. /\ f[1] \in Int /\ f[2] \in Int /\ f[2] > 0
      /\ g[1] \in Int /\ g[2] \in Int /\ g[2] > 0
      /\ h[1] \in Int /\ h[2] \in Int /\ h[2] > 0
  BY DEF Fraction
<1>2. /\ f[1] * g[2] > g[1] * f[2] /\ g[1] * h[2] >= h[1] * g[2] => f[1] * h[2] > h[1] * f[2]
      /\ f[1] * g[2] >= g[1] * f[2] /\ g[1] * h[2] > h[1] * g[2] => f[1] * h[2] > h[1] * f[2]
      /\ f[1] * g[2] >= g[1] * f[2] /\ g[1] * h[2] >= h[1] * g[2] => f[1] * h[2] >= h[1] * f[2]
  <2> DEFINE a == f[1]
             b == f[2]
             c == g[1]
             d == g[2]
             i == h[1]
             j == h[2]
  <2>1. a \in Int /\ b \in Int /\ c \in Int /\ d \in Int /\ i \in Int /\ j \in Int /\ b > 0 /\ d > 0 /\ j > 0
    BY <1>1
  <2> HIDE DEF a, b, c, d, i, j
  <2>2. /\ a * d > c * b /\ c * j >= i * d => a * j > i * b
        /\ a * d >= c * b /\ c * j > i * d => a * j > i * b
        /\ a * d >= c * b /\ c * j >= i * d => a * j >= i * b
    BY ONLY <2>1, CrossProducts, Zenon
  <2> QED  BY ONLY <2>2 DEF a, b, c, d, i, j
<1>3. /\ f[1] * g[2] \in Int /\ g[1] * f[2] \in Int /\ g[1] * h[2] \in Int
      /\ h[1] * g[2] \in Int /\ f[1] * h[2] \in Int /\ h[1] * f[2] \in Int
  BY <1>1
<1> QED  BY <1>2, <1>3 DEF Ahead

\* What is said of a list: whether d is in it, and where.
LEMMA RankIsPlace ==
    ASSUME NEW list, Len(list) \in Nat, NEW d
    PROVE  /\ Listed(list, d) => Rank(list, d) \in 1..Len(list) /\ list[Rank(list, d)] = d
           /\ Reciprocal(list, d) \in Fraction
<1>1. Listed(list, d) => Rank(list, d) \in 1..Len(list) /\ list[Rank(list, d)] = d
  BY DEF Listed, Rank
<1>2. CASE Listed(list, d)
  <2>1. 60 + Rank(list, d) \in Nat \ {0}
    BY <1>1, <1>2
  <2> QED  BY <1>1, <1>2, <2>1 DEF Reciprocal, Fraction
<1>3. CASE ~Listed(list, d)
  BY <1>3 DEF Reciprocal, Fraction, Listed
<1> QED  BY <1>1, <1>2, <1>3

LEMMA ScoreIsFraction ==
    ASSUME NEW bm25, Len(bm25) \in Nat, NEW vector, Len(vector) \in Nat, NEW d
    PROVE  Score(bm25, vector, d) \in Fraction
<1>1. ASSUME NEW a \in Nat, NEW b \in Nat \ {0}, NEW c \in Nat, NEW e \in Nat \ {0}
      PROVE  a * e + c * b \in Nat /\ b * e \in Nat \ {0}
  <2>1. a * e \in Nat /\ c * b \in Nat /\ b * e \in Nat
    BY SMTT(30)
  <2>2. b * e > 0 * e
    BY Times
  <2> QED  BY <2>1, <2>2
<1>2. Reciprocal(bm25, d) \in Fraction /\ Reciprocal(vector, d) \in Fraction
  BY RankIsPlace
<1> QED  BY <1>1, <1>2 DEF Score, Plus, Fraction

\* A sum is greater if one part is and the other is no less.
LEMMA PlusMonotone ==
    ASSUME NEW p \in Fraction, NEW q \in Fraction, NEW r \in Fraction, NEW s \in Fraction,
           ~Ahead(r, p), ~Ahead(s, q), Ahead(p, r) \/ Ahead(q, s)
    PROVE  Ahead(Plus(p, q), Plus(r, s))
<1> DEFINE pr == p[1] * r[2]
           rp == r[1] * p[2]
           qs == q[1] * s[2]
           sq == s[1] * q[2]
           qs2 == q[2] * s[2]
           pr2 == p[2] * r[2]
<1>1. /\ p[1] \in Int /\ p[2] \in Int /\ p[2] > 0
      /\ q[1] \in Int /\ q[2] \in Int /\ q[2] > 0
      /\ r[1] \in Int /\ r[2] \in Int /\ r[2] > 0
      /\ s[1] \in Int /\ s[2] \in Int /\ s[2] > 0
  BY DEF Fraction
<1>2. /\ pr \in Int /\ rp \in Int /\ qs \in Int /\ sq \in Int /\ qs2 \in Int /\ pr2 \in Int
      /\ pr >= rp /\ qs >= sq /\ (pr > rp \/ qs > sq)
  BY <1>1 DEF Ahead
<1>3. qs2 > 0 /\ pr2 > 0
  <2>1. q[2] * s[2] > 0 * s[2] /\ p[2] * r[2] > 0 * r[2]
    BY <1>1, Times
  <2> QED  BY <1>1, <2>1
<1>4. /\ (p[1] * q[2] + q[1] * p[2]) * (r[2] * s[2]) = pr * qs2 + qs * pr2
      /\ (r[1] * s[2] + s[1] * r[2]) * (p[2] * q[2]) = rp * qs2 + sq * pr2
  BY <1>1, SMTT(30)
<1> HIDE DEF pr, rp, qs, sq, qs2, pr2
<1>5. /\ pr * qs2 \in Int /\ rp * qs2 \in Int /\ (pr > rp <=> pr * qs2 > rp * qs2)
      /\ qs * pr2 \in Int /\ sq * pr2 \in Int /\ (qs > sq <=> qs * pr2 > sq * pr2)
      /\ (rp > pr <=> rp * qs2 > pr * qs2) /\ (sq > qs <=> sq * pr2 > qs * pr2)
  BY <1>2, <1>3, Times
<1>6. pr * qs2 + qs * pr2 > rp * qs2 + sq * pr2
  BY <1>2, <1>5
<1> QED  BY <1>4, <1>6 DEF Ahead, Plus

LEMMA AheadInList ==
    ASSUME NEW list, Len(list) \in Nat, NEW d, NEW e, AheadIn(list, d, e)
    PROVE  /\ ~Ahead(Reciprocal(list, e), Reciprocal(list, d))
           /\ Listed(list, e) => Ahead(Reciprocal(list, d), Reciprocal(list, e))
<1>1. CASE Listed(list, e)
  <2>1. Listed(list, d) /\ Rank(list, d) < Rank(list, e)
    BY <1>1 DEF AheadIn
  <2>2. Rank(list, d) \in Nat /\ Rank(list, e) \in Nat
    BY <1>1, <2>1, RankIsPlace
  <2> QED  BY <1>1, <2>1, <2>2 DEF Reciprocal, Ahead
<1>2. CASE ~Listed(list, e)
  <2>1. Reciprocal(list, d) \in Fraction
    BY RankIsPlace
  <2>2. Reciprocal(list, e) = <<0, 1>>
    BY <1>2 DEF Reciprocal
  <2> QED  BY <1>2, <2>1, <2>2 DEF Ahead, Fraction
<1> QED  BY <1>1, <1>2

LEMMA ConsensusIsAhead ==
    ASSUME NEW bm25, Len(bm25) \in Nat, NEW vector, Len(vector) \in Nat, NEW d, NEW e,
           AheadIn(bm25, d, e), AheadIn(vector, d, e), Listed(bm25, e) \/ Listed(vector, e)
    PROVE  Ahead(Score(bm25, vector, d), Score(bm25, vector, e))
<1>1. /\ Reciprocal(bm25, d) \in Fraction /\ Reciprocal(vector, d) \in Fraction
      /\ Reciprocal(bm25, e) \in Fraction /\ Reciprocal(vector, e) \in Fraction
  BY RankIsPlace
<1>2. /\ ~Ahead(Reciprocal(bm25, e), Reciprocal(bm25, d))
      /\ ~Ahead(Reciprocal(vector, e), Reciprocal(vector, d))
      /\ \/ Ahead(Reciprocal(bm25, d), Reciprocal(bm25, e))
         \/ Ahead(Reciprocal(vector, d), Reciprocal(vector, e))
  BY AheadInList
<1> QED  BY <1>1, <1>2, PlusMonotone DEF Score

-----------------------------------------------------------------------------
(***************************************************************************)
(* The merged ranking.                                                     *)
(***************************************************************************)
ByScore(bm25, vector) ==
    {de \in Hits(bm25, vector) \X Hits(bm25, vector) : Before(bm25, vector, de[1], de[2])}

LEMMA ByScoreOrders ==
    ASSUME NEW bm25 \in Seq(Doc), NEW vector \in Seq(Doc)
    PROVE  IsOrder(Hits(bm25, vector), ByScore(bm25, vector))
<1> DEFINE S == Hits(bm25, vector)
           score(d) == Score(bm25, vector, d)
<1>1. Len(bm25) \in Nat /\ Len(vector) \in Nat
  OBVIOUS
<1>2. \A d \in S : d \in Int /\ score(d) \in Fraction
  <2>1. S \subseteq Doc
    BY DEF Hits, ToSet
  <2>2. \A d \in Doc : d \in Int
    BY DocsAssumption DEF Doc, DocsAssumption
  <2>3. \A d \in S : score(d) \in Fraction
    BY <1>1, ScoreIsFraction
  <2> QED  BY <2>1, <2>2, <2>3
<1>3. \A d, e \in S : <<d, e>> \in ByScore(bm25, vector) <=>
          Ahead(score(d), score(e)) \/ (~Ahead(score(e), score(d)) /\ d < e)
  BY DEF ByScore, Before
<1> HIDE DEF S, score
<1>4. ASSUME NEW d \in S, NEW e \in S
      PROVE  /\ <<d, d>> \notin ByScore(bm25, vector)
             /\ d # e => <<d, e>> \in ByScore(bm25, vector) \/ <<e, d>> \in ByScore(bm25, vector)
  BY <1>2, <1>3, AheadOrders
<1>5. ASSUME NEW d \in S, NEW e \in S, NEW f \in S,
             <<d, e>> \in ByScore(bm25, vector), <<e, f>> \in ByScore(bm25, vector)
      PROVE  <<d, f>> \in ByScore(bm25, vector)
  <2>1. ~Ahead(score(e), score(d)) /\ ~Ahead(score(f), score(e))
    BY <1>2, <1>3, <1>5, AheadOrders
  <2>2. CASE Ahead(score(d), score(e)) \/ Ahead(score(e), score(f))
    BY <1>2, <1>3, <2>1, <2>2, AheadOrders
  <2>3. CASE ~Ahead(score(d), score(e)) /\ ~Ahead(score(e), score(f))
    <3>1. d < e /\ e < f
      BY <1>3, <1>5, <2>3
    <3>2. d < f
      BY <1>2, <3>1
    <3>3. ~Ahead(score(f), score(d))
      BY <1>2, <2>1, AheadOrders
    <3> QED  BY <1>3, <3>2, <3>3
  <2> QED  BY <2>2, <2>3
<1>6. IsOrder(S, ByScore(bm25, vector))
  BY <1>4, <1>5 DEF IsOrder
<1> QED  BY <1>6 DEF S

LEMMA HitsAreFinite ==
    ASSUME NEW bm25 \in Seq(Doc), NEW vector \in Seq(Doc)
    PROVE  IsFiniteSet(Hits(bm25, vector))
<1>1. IsFiniteSet(Doc)
  BY DocsAssumption, FS_Interval DEF Doc, DocsAssumption
<1>2. Hits(bm25, vector) \in SUBSET Doc
  BY DEF Hits, ToSet
<1> QED  BY <1>1, <1>2, FS_Subset

\* First(list, n) begins as list does.
LEMMA FirstBegins ==
    ASSUME NEW S, NEW list \in Seq(S), NEW n \in Nat
    PROVE  /\ First(list, n) \in Seq(S)
           /\ Len(First(list, n)) = IF Len(list) < n THEN Len(list) ELSE n
           /\ \A i \in 1..Len(First(list, n)) : First(list, n)[i] = list[i]
  BY DEF First

LEMMA MergeRespectsConsensus ==
    ASSUME NEW bm25 \in Seq(Doc), NEW vector \in Seq(Doc)
    PROVE  RespectsConsensus(bm25, vector, First(RrfMerge(bm25, vector), Limit))
<1> DEFINE S == Hits(bm25, vector)
           n == Cardinality(S)
           list == RrfMerge(bm25, vector)
           results == First(list, Limit)
<1>1. /\ n \in Nat /\ list \in [1..n -> S] /\ InOrder(list, ByScore(bm25, vector))
      /\ \A d \in S : \E i \in 1..n : list[i] = d
  <2> DEFINE before == ByScore(bm25, vector)
  <2>1. list = Sorted(S, before)
    BY DEF RrfMerge, ByScore
  <2>2. IsFiniteSet(S)
    BY HitsAreFinite
  <2>3. IsOrder(S, before)
    BY ByScoreOrders
  <2> HIDE DEF S, list, before
  <2>4. /\ Cardinality(S) \in Nat
        /\ Sorted(S, before) \in [1..Cardinality(S) -> S]
        /\ InOrder(Sorted(S, before), before)
    BY ONLY <2>2, <2>3, SortedIsSorted
  <2>5. \A d \in S : \E i \in 1..Cardinality(S) : Sorted(S, before)[i] = d
    BY ONLY <2>2, <2>3, SortedIsSorted
  <2>6. /\ n \in Nat /\ list \in [1..n -> S] /\ InOrder(list, before)
        /\ \A d \in S : \E i \in 1..n : list[i] = d
    BY ONLY <2>1, <2>4, <2>5
  <2> QED  BY <2>6 DEF before
<1>2. list \in Seq(S) /\ Len(list) = n /\ DOMAIN list = 1..n
  <2> HIDE DEF list, n, S
  <2> QED  BY <1>1
<1>3. Limit \in Nat
  BY LimitAssumption DEF LimitAssumption
<1>4. IsOrder(S, ByScore(bm25, vector))
  BY ByScoreOrders
<1> HIDE DEF list
<1>5. /\ results \in Seq(S) /\ Len(results) = IF n < Limit THEN n ELSE Limit
      /\ \A i \in 1..Len(results) : results[i] = list[i]
  BY <1>2, <1>3, FirstBegins
<1> HIDE DEF results
<1> SUFFICES ASSUME NEW i \in 1..Len(results), NEW d \in S, d # results[i],
                    AheadIn(bm25, d, results[i]), AheadIn(vector, d, results[i])
             PROVE  Listed(First(results, i), d)
  BY DEF RespectsConsensus, Hits, results, list
<1> DEFINE e == results[i]
<1>6. i \in 1..n /\ i \in Nat /\ e = list[i] /\ e \in S
  BY <1>1, <1>3, <1>5
<1>7. PICK j \in 1..n : list[j] = d
  BY <1>1
<1>8. Listed(bm25, e) \/ Listed(vector, e)
  <2>1. e \in Hits(bm25, vector)
    BY <1>6
  <2> HIDE DEF e, S, n
  <2>2. e \in ToSet(bm25) \/ e \in ToSet(vector)
    BY ONLY <2>1 DEF Hits
  <2> QED  BY ONLY <2>2 DEF ToSet, Listed
<1>9. <<d, e>> \in ByScore(bm25, vector)
  <2>1. Ahead(Score(bm25, vector, d), Score(bm25, vector, e))
    BY <1>8, ConsensusIsAhead
  <2> QED  BY <1>6, <2>1 DEF ByScore, Before
<1>10. j < i
  <2> DEFINE before == ByScore(bm25, vector)
  <2>1. ASSUME i < j
        PROVE  FALSE
    <3>1. InOrder(list, before) /\ i \in DOMAIN list /\ j \in DOMAIN list
      BY <1>1, <1>2, <1>6, <1>7
    <3>2. IsOrder(S, before) /\ <<d, e>> \in before /\ d \in S /\ e \in S
      BY <1>4, <1>6, <1>9
    <3> HIDE DEF before, e, S, n
    <3>3. <<e, d>> \in before
      BY ONLY <1>6, <1>7, <2>1, <3>1 DEF InOrder
    <3>4. <<d, d>> \in before /\ <<d, d>> \notin before
      BY ONLY <3>2, <3>3 DEF IsOrder
    <3> QED  BY ONLY <3>4
  <2>2. i # j
    BY <1>6, <1>7
  <2> QED  BY <1>1, <1>6, <2>1, <2>2
<1>11. j \in 1..Len(results) /\ results[j] = d
  BY <1>1, <1>5, <1>7, <1>10
<1>12. /\ Len(First(results, i)) = i
       /\ \A k \in 1..i : First(results, i)[k] = results[k]
  BY <1>1, <1>3, <1>5, <1>6, FirstBegins
<1> QED  BY <1>1, <1>10, <1>11, <1>12, <1>6 DEF Listed

-----------------------------------------------------------------------------
(***************************************************************************)
(* What the two fetches give is a list of documents.                       *)
(***************************************************************************)
TextHits == search.at = "vectors" => search.bm25 \in Seq(Doc)

LEMMA LimitsAreNumbers == FetchLimit \in Nat /\ Limit \in Nat /\ MaxSections \in Nat /\ Docs \in Nat
BY LimitAssumption, DocsAssumption DEF FetchLimit, LimitAssumption, DocsAssumption

LEMMA ListsOfMembers ==
    ASSUME NEW S, IsFiniteSet(S), NEW list \in SetToSeqs(S)
    PROVE  list \in Seq(S)
<1>1. Cardinality(S) \in Nat
  BY FS_CardinalityType
<1> QED  BY <1>1 DEF SetToSeqs

LEMMA TextHitsInit == SearchInit => TextHits
BY DEF SearchInit, TextHits

LEMMA TextHitsNext ==
    ASSUME TextHits, [SearchNext]_searchVars
    PROVE  TextHits'
<1>1. CASE SearchText
  <2> DEFINE T == {d \in Doc : text[d] # NoRow}
  <2>1. PICK hits \in SetToAllKPermutations(T) :
            search' = [at |-> "vectors", bm25 |-> First(hits, FetchLimit)]
    BY <1>1 DEF SearchText
  <2>2. PICK s \in SUBSET T : hits \in SetToSeqs(s)
    BY DEF SetToAllKPermutations
  <2>3. s \in SUBSET Doc
    OBVIOUS
  <2>4. IsFiniteSet(s)
    <3>1. IsFiniteSet(Doc)
      BY LimitsAreNumbers, FS_Interval DEF Doc
    <3> QED  BY <2>3, <3>1, FS_Subset
  <2> HIDE DEF T
  <2>5. hits \in Seq(s)
    BY <2>2, <2>4, ListsOfMembers
  <2>6. hits \in Seq(Doc)
    BY <2>3, <2>5
  <2>7. First(hits, FetchLimit) \in Seq(Doc)
    BY <2>6, LimitsAreNumbers, FirstBegins
  <2> QED  BY <2>1, <2>7 DEF TextHits
<1>2. CASE SearchVectors
  BY <1>2 DEF SearchVectors, TextHits
<1>3. CASE UNCHANGED search
  BY <1>3 DEF TextHits
<1> QED  BY <1>1, <1>2, <1>3 DEF SearchNext, searchVars

LEMMA VectorPathsAreDocs ==
    ASSUME NEW nearest \in SetToSeqs({k \in Key : vectors[k] # NoRow})
    PROVE  VectorPaths(nearest) \in Seq(Doc)
<1> DEFINE K == {k \in Key : vectors[k] # NoRow}
           hits == BestHits(nearest)
           before == {ij \in hits \X hits : ij[1] < ij[2]}
           sorted == Sorted(hits, before)
<1>1. nearest \in Seq(Key)
  <2>1. IsFiniteSet(Key)
    <3>1. IsFiniteSet(Doc) /\ IsFiniteSet(1..MaxSections)
      BY LimitsAreNumbers, FS_Interval DEF Doc
    <3> QED  BY <3>1, FS_Product DEF Key
  <2>2. K \in SUBSET Key
    OBVIOUS
  <2>3. IsFiniteSet(K)
    BY <2>1, <2>2, FS_Subset
  <2> HIDE DEF K
  <2>4. nearest \in Seq(K)
    BY <2>3, ListsOfMembers DEF K
  <2> QED  BY <2>2, <2>4
<1>2. hits \in SUBSET (1..Len(nearest))
  <2>1. /\ First(nearest, FetchLimit) \in Seq(Key)
        /\ Len(First(nearest, FetchLimit)) = IF Len(nearest) < FetchLimit THEN Len(nearest) ELSE FetchLimit
    BY <1>1, LimitsAreNumbers, FirstBegins
  <2>2. DOMAIN First(nearest, FetchLimit) \subseteq 1..Len(nearest)
    BY <1>1, <2>1, LimitsAreNumbers
  <2> QED  BY <2>2 DEF BestHits, VectorHits
<1>3. IsFiniteSet(hits)
  <2>1. IsFiniteSet(1..Len(nearest))
    BY <1>1, FS_Interval
  <2> QED  BY <1>2, <2>1, FS_Subset
<1> HIDE DEF hits
<1>4. \A i \in hits : i \in Nat
  BY <1>1, <1>2
<1>5. IsOrder(hits, before)
  BY <1>4 DEF IsOrder
<1> HIDE DEF before
<1>6. Cardinality(hits) \in Nat /\ sorted \in [1..Cardinality(hits) -> hits]
  BY <1>3, <1>5, SortedIsSorted
<1>7. VectorPaths(nearest) = [n \in DOMAIN sorted |-> nearest[sorted[n]][1]]
  BY DEF VectorPaths, hits, before
<1> HIDE DEF sorted
<1>8. ASSUME NEW n \in 1..Cardinality(hits)
      PROVE  nearest[sorted[n]][1] \in Doc
  <2>1. sorted[n] \in 1..Len(nearest)
    BY <1>2, <1>6
  <2>2. nearest[sorted[n]] \in Key
    BY <1>1, <2>1
  <2> QED  BY <2>2 DEF Key
<1>9. DOMAIN sorted = 1..Cardinality(hits)
  BY <1>6
<1> QED  BY <1>6, <1>7, <1>8, <1>9

(***************************************************************************)
(* Whatever is relevant and near, and whatever a reindex has done so far:  *)
(* a document that is ahead in every list that has another is ahead of it  *)
(* in the results of hybrid_search, also where limit cuts them.            *)
(***************************************************************************)
THEOREM MergesRespectConsensus == SearchSpec => ConsensusRespected
<1>1. TextHits /\ [SearchNext]_searchVars =>
          [search.at = "vectors" /\ search'.at = "answered" =>
               RespectsConsensus(search.bm25, search'.vector, search'.results)]_searchVars
  <2> SUFFICES ASSUME TextHits, SearchNext, search.at = "vectors", search'.at = "answered"
               PROVE  RespectsConsensus(search.bm25, search'.vector, search'.results)
    OBVIOUS
  <2>1. SearchVectors
    BY DEF SearchNext, SearchText, NoneUnderWay
  <2>2. PICK nearest \in SetToSeqs({k \in Key : vectors[k] # NoRow}) :
            search' = [at |-> "answered", vector |-> VectorPaths(nearest),
                       results |-> First(RrfMerge(search.bm25, VectorPaths(nearest)), Limit)]
    BY <2>1 DEF SearchVectors
  <2>3. VectorPaths(nearest) \in Seq(Doc) /\ search.bm25 \in Seq(Doc)
    BY VectorPathsAreDocs DEF TextHits
  <2>4. /\ search'.vector = VectorPaths(nearest)
        /\ search'.results = First(RrfMerge(search.bm25, VectorPaths(nearest)), Limit)
    BY <2>2
  <2> QED  BY <2>3, <2>4, MergeRespectsConsensus
<1>2. SearchInit => TextHits
  BY TextHitsInit
<1>3. TextHits /\ [SearchNext]_searchVars => TextHits'
  BY TextHitsNext
<1> QED  BY <1>1, <1>2, <1>3, PTL DEF SearchSpec, ConsensusRespected
=============================================================================
