----------------------------- MODULE PageLinks ------------------------------
(***************************************************************************)
(* What two readers make of the same page files: lint (lint_bundle in      *)
(* src/src/validator/rules.rs), which reports links to nowhere, pages      *)
(* nobody links to and sources that are gone, and the explorer (build_graph*)
(* in src/src/explorer/graph.rs), which draws pages, tags, sources and     *)
(* missing pages as one graph.  They share how files are found and how     *)
(* links are read out of a page, and differ in nearly everything else.     *)
(***************************************************************************)
EXTENDS Naturals, FiniteSets

CONSTANTS
    File,       \* the files the content directories may hold
    SlugOf,     \* a file's stem, which is what links name
    KindOf,     \* the directory it is in: "concept", "question", ...
    NoFile      \* a file that does not exist

(***************************************************************************)
(* Nodes and links have ids; here they are numbers, in the order of the    *)
(* strings.  A wikilink names a slug, maybe with a place inside the page;  *)
(* cross, tags and sources are the ids the graph gives to links into other *)
(* vaults, tags and raw sources; legacy the names an id: field gives it.   *)
(* Of a page that does not parse (ok = FALSE) only the wikilinks are known.*)
(***************************************************************************)
Id == Nat

WikiLink == [id : Id, anchored : BOOLEAN]

Page == [ok : BOOLEAN, wikilinks : SUBSET WikiLink,
         cross : SUBSET Id, tags : SUBSET Id, sources : SUBSET Id, legacy : SUBSET Id]

ASSUME FilesAssumption ==
    /\ IsFiniteSet(File) /\ SlugOf \in [File -> Id] /\ DOMAIN KindOf = File
    /\ NoFile \notin Page /\ NoFile \notin File

Files(w) == {f \in File : w[f] # NoFile}

-----------------------------------------------------------------------------
(***************************************************************************)
(* lint_bundle.  It compares links with slugs as they are written: one     *)
(* with an anchor matches no page.  One page that does not parse is an     *)
(* error instead of a report.                                              *)
(***************************************************************************)
CanLint(w) == \A f \in Files(w) : w[f].ok

ExistingSlugs(w) == {SlugOf[f] : f \in Files(w)}

\* Wrong on purpose: knows only the two directories there were at first.
IsBrokenInFirstTwo(w, link) ==
    \/ link.anchored
    \/ link.id \notin {SlugOf[f] : f \in {g \in Files(w) : KindOf[g] \in {"concept", "entity"}}}

IsBroken(w, link) == link.anchored \/ link.id \notin ExistingSlugs(w)

BrokenLinks(w) ==
    UNION {{<<f, link>> : link \in {l \in w[f].wikilinks : IsBroken(w, l)}} : f \in Files(w)}

LinkedSlugs(w) ==
    UNION {{l.id : l \in {k \in w[f].wikilinks : ~k.anchored}} : f \in Files(w)}

ExemptFromOrphanCheck(kind) == kind \in {"question", "decision"}

OrphanPages(w) ==
    {f \in Files(w) : SlugOf[f] \notin LinkedSlugs(w) /\ ~ExemptFromOrphanCheck(KindOf[f])}

\* resolved are the raw ids resolve_raw_path finds a file of.
MissingSources(w, resolved) ==
    UNION {{<<f, r>> : r \in w[f].sources \ resolved} : f \in Files(w)}

\* What fails a build, and what okf-lint calls clean.
HasErrors(w, resolved) == BrokenLinks(w) # {} \/ MissingSources(w, resolved) # {}

IsClean(w, resolved, strict) == ~HasErrors(w, resolved) /\ (strict => OrphanPages(w) = {})

-----------------------------------------------------------------------------
(***************************************************************************)
(* build_graph.  strip_anchor first, then links of a page to itself are    *)
(* left out; a page that does not parse keeps its wikilinks.               *)
(***************************************************************************)
Targets(w, f) == {l.id : l \in w[f].wikilinks} \ {SlugOf[f]}

LinksFrom(w, f) ==
    LET to(ids, kind) == {<<SlugOf[f], id, kind>> : id \in ids}
    IN  to(Targets(w, f), "wikilink") \cup to(w[f].cross, "cross_vault")
            \cup (IF w[f].ok THEN to(w[f].tags, "tag") \cup to(w[f].sources, "source") ELSE {})

GraphLinks(w) == UNION {LinksFrom(w, f) : f \in Files(w)}

CitedRaws(w) == {l[2] : l \in {k \in GraphLinks(w) : k[3] = "source"}}

\* Pages become nodes in pass 1, whatever links name becomes one in pass 2.
NodeIds(w) == ExistingSlugs(w) \cup {l[2] : l \in GraphLinks(w)}

MissingNodes(w) ==
    {l[2] : l \in {k \in GraphLinks(w) : k[3] = "wikilink"}} \ ExistingSlugs(w)
=============================================================================
