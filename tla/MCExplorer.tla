----------------------------- MODULE MCExplorer -----------------------------
(***************************************************************************)
(* Which part a behaviour is about is chosen at its start.                 *)
(*                                                                         *)
(* "graph": two families of wikis.  Shapes: four pages, any links from a   *)
(* page to one after it, any of them tagged (every undirected graph of     *)
(* five nodes is among them), and the untagged ones once more with a link  *)
(* back.  Readings: up to three files, two of them with one slug in two    *)
(* directories, that do or do not parse and link to themselves, to each    *)
(* other, with an anchor or not, and to nothing.                           *)
(*                                                                         *)
(* "explorer": two pages with one name in two directories, and a third;    *)
(* all with the same text, which links to the pages of the one name, to    *)
(* the third, that it went by once itself, to nothing and to another vault,*)
(* and cites a raw source, of which there may be two files.  One page is   *)
(* there at first.                                                         *)
(***************************************************************************)
EXTENDS LinkGraphProperties, Explorer, TLC

CONSTANT Parts

Tag == 1
a == 2
b == 3
c == 4
d == 5
Present == 6
Gone == 7
Elsewhere == 8

MCFile == {"concepts/a", "entities/a", "questions/b", "concepts/c", "concepts/d"}

MCSlugOf == [f \in MCFile |-> CASE f \in {"concepts/a", "entities/a"} -> a
                                [] f = "questions/b" -> b
                                [] f = "concepts/c" -> c
                                [] f = "concepts/d" -> d]

MCKindOf == [f \in MCFile |-> CASE f = "entities/a" -> "entity"
                                [] f = "questions/b" -> "question"
                                [] OTHER -> "concept"]

To(id) == [id |-> id, anchored |-> FALSE]
Into(id) == [id |-> id, anchored |-> TRUE]

Text(ok, wikilinks, tags, sources, cross) ==
    [ok |-> ok, wikilinks |-> wikilinks, tags |-> tags, sources |-> sources, cross |-> cross,
     legacy |-> {}]

Wiki(files) == [f \in MCFile |-> IF f \in DOMAIN files THEN files[f] ELSE NoFile]

Shaped == MCFile \ {"entities/a"}

Forward == {l \in (a..d) \X (a..d) : l[1] < l[2]}

Shape(E, T) == Wiki([f \in Shaped |->
                       Text(TRUE, {To(id) : id \in {j \in a..d : <<MCSlugOf[f], j>> \in E}},
                            {Tag : x \in {g \in T : g = f}}, {}, {})])

Shapes == {Shape(E, T) : E \in SUBSET Forward, T \in SUBSET Shaped}
          \cup {Shape(E \cup {<<b, a>>}, {}) : E \in SUBSET Forward}

ReadingOf(self, named) == {NoFile}
    \cup {Text(ok, L, {}, IF To(c) \in L THEN {Present, Gone} ELSE {Present}, {}) :
              ok \in BOOLEAN, L \in SUBSET named}
    \cup {Text(TRUE, {Into(self), To(self)}, {Tag}, {}, {Elsewhere})}

Readings == {Wiki([f \in {"concepts/a", "entities/a", "questions/b"} |->
                      IF f = "concepts/a" THEN x
                      ELSE IF f = "entities/a" THEN y ELSE z]) :
             x \in ReadingOf(a, {To(a), Into(a), To(b), To(c)}), z \in ReadingOf(b, {To(a), Into(a), To(b)}),
             y \in {NoFile, Text(TRUE, {To(a)}, {}, {}, {}), Text(TRUE, {Into(b)}, {Tag}, {}, {})}}

-----------------------------------------------------------------------------
MCWalk == <<"concepts/a", "concepts/c", "entities/a">>

Older(page) == [page EXCEPT !.legacy = {c}]

Thing == Older(Text(TRUE, {To(t) : t \in {a, c, Gone}}, {}, {Present}, {Elsewhere}))

MCTexts == {NoFile, Thing}

FirstPages == Wiki("concepts/a" :> Thing)

MCWikis == Shapes \cup Readings \cup {FirstPages}

MCRawIdOf == [blob \in Blob |-> Present]

MCSymmetry == Permutations(Blob) \cup Permutations(Server) \cup Permutations(Call) \cup Permutations(Refresh)

-----------------------------------------------------------------------------
VARIABLE part

readerVars == <<part, graphVars, explorerVars>>

ReaderInit ==
    /\ part \in Parts
    /\ GraphInit /\ (part # "graph" => pages = FirstPages)
    /\ ExplorerInit /\ disk.pages = FirstPages /\ (part # "explorer" => disk.raws = {})

ReaderNext ==
    /\ UNCHANGED part
    /\ \/ part = "graph" /\ GraphNext /\ UNCHANGED explorerVars
       \/ part = "explorer" /\ ExplorerNext /\ UNCHANGED graphVars

ReaderSpec == ReaderInit /\ [][ReaderNext]_readerVars
=============================================================================
