---------------------------- MODULE SearchIndex -----------------------------
(***************************************************************************)
(* okf-reindex (src/src/search/query.rs, index.rs, vectors.rs): a text     *)
(* index that is replaced as a whole, and a SQLite database of embedded    *)
(* sections that is brought up to date document by document, one statement *)
(* after another without a transaction around them.                        *)
(*                                                                         *)
(* A document's content is the sequence of its sections (chunk_by_heading, *)
(* one at least); an embedding is the section it was computed from, and    *)
(* content_hash the content it was computed from.                          *)
(***************************************************************************)
EXTENDS Integers, Sequences

CONSTANTS
    Docs,           \* bound: documents are 1..Docs, in the order they are listed
    ContentOf,      \* for every document, the contents it may have
    MaxSections,    \* bound: sections of a document
    Section,        \* what a section may say
    NoRow,          \* no row, no file, not an active source
    Indexer,        \* who may run a reindex
    Exclusive       \* whether reindexes with embeddings exclude each other

Doc == 1..Docs
Content == {c \in Seq(Section) : Len(c) \in 1..MaxSections}
Key == Doc \X (1..MaxSections)

ASSUME DocsAssumption == Docs \in Nat \ {0} /\ MaxSections \in Nat \ {0} /\ Exclusive \in BOOLEAN
ASSUME ContentAssumption ==
    \A d \in Doc : \A c \in ContentOf[d] :
        Len(c) \in 1..MaxSections /\ \A k \in 1..Len(c) : c[k] \in Section
ASSUME NoRowAssumption == NoRow \notin Section \cup UNION {ContentOf[d] : d \in Doc}

VARIABLES
    docs,       \* what collect_documents finds: active raw sources, readable pages
    text,       \* the committed text index
    hashes,     \* table documents: content_hash by path
    sections,   \* table sections: what it says under a section_key
    vectors,    \* table document_vectors: what its embedding was made from
    proc,       \* every reindexer
    cut         \* history: documents whose last rewriting broke off

tables == <<hashes, sections, vectors>>
indexVars == <<docs, text, tables, proc, cut>>

Nothing == [d \in Doc |-> NoRow]
Empty == [k \in Key |-> NoRow]

IndexInit ==
    /\ docs = Nothing
    /\ text = Nothing
    /\ hashes = Nothing
    /\ sections = Empty
    /\ vectors = Empty
    /\ proc = [p \in Indexer |-> [at |-> "idle"]]
    /\ cut = {}

-----------------------------------------------------------------------------
(***************************************************************************)
(* The vault changes: a page is written or removed, a source is ingested,  *)
(* tombstoned or purged.                                                   *)
(***************************************************************************)
Change(d, c) ==
    /\ docs[d] # c
    /\ docs' = [docs EXCEPT ![d] = c]
    /\ UNCHANGED <<text, tables, proc, cut>>

Indexing(p) == proc[p].at \notin {"idle", "failed"}

Embedding(p) == Indexing(p) /\ proc[p].embeddings

Reindex(p, embeddings) ==
    /\ ~ Indexing(p)
    /\ Exclusive /\ embeddings => \A q \in Indexer : ~ Embedding(q)
    /\ proc' = [proc EXCEPT ![p] = [at |-> "collect", embeddings |-> embeddings,
                                    got |-> Nothing, doc |-> 1, section |-> 1]]
    /\ UNCHANGED <<docs, text, tables, cut>>

StartReindex(p) == \E embeddings \in BOOLEAN : Reindex(p, embeddings)

MoveTo(p, at) == proc' = [proc EXCEPT ![p].at = at]

\* The next document of those collected, or the end.
NextAfter(p, n) ==
    LET later == {d \in Doc : d > n /\ proc[p].got[d] # NoRow}
    IN  proc' = [proc EXCEPT ![p] =
                   IF later = {} THEN [at |-> "idle"]
                   ELSE [@ EXCEPT !.at = "check", !.section = 1,
                                  !.doc = CHOOSE d \in later : \A e \in later : d <= e]]

(***************************************************************************)
(* collect_documents reads one file after the other.                       *)
(***************************************************************************)
Collect(p) ==
    /\ proc[p].at = "collect"
    /\ LET d == proc[p].doc
       IN  proc' = [proc EXCEPT ![p] =
                      [@ EXCEPT !.got[d] = docs[d],
                                !.at = IF d = Docs THEN "text" ELSE "collect",
                                !.doc = IF d = Docs THEN d ELSE d + 1]]
    /\ UNCHANGED <<docs, text, tables, cut>>

\* Wrong on purpose: what is no longer there is not taken out.
WriteTextOver(p) ==
    /\ proc[p].at = "text"
    /\ text' = [d \in Doc |-> IF proc[p].got[d] = NoRow THEN text[d] ELSE proc[p].got[d]]
    /\ IF proc[p].embeddings THEN NextAfter(p, 0)
                             ELSE proc' = [proc EXCEPT ![p] = [at |-> "idle"]]
    /\ UNCHANGED <<docs, tables, cut>>

(***************************************************************************)
(* write_documents: everything out, what was collected in, one commit.     *)
(***************************************************************************)
WriteText(p) ==
    /\ proc[p].at = "text"
    /\ text' = proc[p].got
    /\ IF proc[p].embeddings THEN NextAfter(p, 0)
                             ELSE proc' = [proc EXCEPT ![p] = [at |-> "idle"]]
    /\ UNCHANGED <<docs, tables, cut>>

-----------------------------------------------------------------------------
\* The document a reindexer is at, its content, and its key of section n.
At(p) == proc[p].doc
Got(p) == proc[p].got[At(p)]
KeyOf(p) == <<At(p), proc[p].section>>

KeysIn(table, d) == {k \in Key : k[1] = d /\ table[k] # NoRow}

Check(p) ==
    /\ proc[p].at = "check"
    /\ MoveTo(p, IF hashes[At(p)] # Got(p) THEN "outdated" ELSE "unchanged")
    /\ UNCHANGED <<docs, text, tables, cut>>

\* Wrong on purpose: the stored hash is looked at after it was overwritten.
UpsertFirst(p) ==
    /\ proc[p].at \in {"outdated", "unchanged"}
    /\ hashes' = [hashes EXCEPT ![At(p)] = Got(p)]
    /\ NextAfter(p, At(p))
    /\ UNCHANGED <<docs, text, sections, vectors, cut>>

(***************************************************************************)
(* upsert_document_metadata: the new hash is stored, whether or not the    *)
(* sections must be rewritten, and before they are.                        *)
(***************************************************************************)
Upsert(p) ==
    /\ proc[p].at \in {"outdated", "unchanged"}
    /\ hashes' = [hashes EXCEPT ![At(p)] = Got(p)]
    /\ IF proc[p].at = "outdated" THEN MoveTo(p, "embedded") ELSE NextAfter(p, At(p))
    /\ UNCHANGED <<docs, text, sections, vectors, cut>>

\* Wrong on purpose: the sections go first, and with them the keys of their vectors.
DeleteSectionsFirst(p) ==
    /\ proc[p].at = "embedded"
    /\ sections' = [k \in Key |-> IF k[1] = At(p) THEN NoRow ELSE sections[k]]
    /\ MoveTo(p, "unlisted")
    /\ UNCHANGED <<docs, text, hashes, vectors, cut>>

(***************************************************************************)
(* replace_sections, statement by statement: the vectors whose key is in   *)
(* table sections, then those sections, then a section and its vector at a *)
(* time.  Every section was embedded before the first statement.           *)
(***************************************************************************)
DeleteVectors(p) ==
    /\ proc[p].at = "embedded"
    /\ vectors' = [k \in Key |-> IF k \in KeysIn(sections, At(p)) THEN NoRow ELSE vectors[k]]
    /\ MoveTo(p, "unlisted")
    /\ UNCHANGED <<docs, text, hashes, sections, cut>>

DeleteSections(p) ==
    /\ proc[p].at = "unlisted"
    /\ sections' = [k \in Key |-> IF k[1] = At(p) THEN NoRow ELSE sections[k]]
    /\ MoveTo(p, "section")
    /\ UNCHANGED <<docs, text, hashes, vectors, cut>>

InsertSection(p) ==
    /\ proc[p].at = "section"
    /\ sections[KeyOf(p)] = NoRow
    /\ sections' = [sections EXCEPT ![KeyOf(p)] = Got(p)[proc[p].section]]
    /\ MoveTo(p, "vector")
    /\ UNCHANGED <<docs, text, hashes, vectors, cut>>

InsertVector(p) ==
    /\ proc[p].at = "vector"
    /\ vectors[KeyOf(p)] = NoRow
    /\ vectors' = [vectors EXCEPT ![KeyOf(p)] = Got(p)[proc[p].section]]
    /\ IF proc[p].section < Len(Got(p))
       THEN /\ proc' = [proc EXCEPT ![p].at = "section", ![p].section = @ + 1]
            /\ UNCHANGED cut
       ELSE NextAfter(p, At(p)) /\ cut' = cut \ {At(p)}
    /\ UNCHANGED <<docs, text, hashes, sections>>

Rewriting(p) == proc[p].at \in {"embedded", "unlisted", "section", "vector"}

(***************************************************************************)
(* A file cannot be read, the text index is locked by another writer, a    *)
(* section cannot be embedded, a key is taken, or the process is killed:   *)
(* what was written stays.                                                 *)
(***************************************************************************)
Fail(p) ==
    /\ Indexing(p)
    /\ proc' = [proc EXCEPT ![p] = [at |-> "failed"]]
    /\ cut' = IF Rewriting(p) THEN cut \cup {At(p)} ELSE cut
    /\ UNCHANGED <<docs, text, tables>>

Work(p) == \/ Collect(p) \/ WriteText(p)
           \/ Check(p) \/ Upsert(p)
           \/ DeleteVectors(p) \/ DeleteSections(p) \/ InsertSection(p) \/ InsertVector(p)

IndexNext ==
    \/ \E d \in Doc : \E c \in ContentOf[d] \cup {NoRow} : Change(d, c)
    \/ \E p \in Indexer : StartReindex(p) \/ Work(p) \/ Fail(p)

(***************************************************************************)
(* A reindex that is neither killed nor refused runs to its end, and there *)
(* is always another one with embeddings.                                  *)
(***************************************************************************)
IndexFairness == \A p \in Indexer : WF_indexVars(Work(p)) /\ SF_indexVars(Reindex(p, TRUE))
=============================================================================
