-------------------------------- MODULE Wiki --------------------------------
(***************************************************************************)
(* The wiki, as the compile commands see it: what a page is, what a        *)
(* response does to the pages (src/src/compiler/operations.rs), which      *)
(* sources they cite (referenced_raw_ids in src/src/compiler/driver.rs)    *)
(* and which links are broken (src/src/validator/rules.rs).                *)
(***************************************************************************)
EXTENDS Naturals, Sequences, FiniteSets, FiniteSetsExt

CONSTANTS
    Sources,    \* how many active sources the manifest has
    Page,       \* the paths a response may name
    Missing     \* a page that does not exist

Source == 1..Sources

(***************************************************************************)
(* A page is what is read back from it: the sources it cites and the pages *)
(* it links to.  Writing Missing is a DELETE operation.                    *)
(***************************************************************************)
PageContent == [cites : SUBSET Source, links : SUBSET Page]

Op == [page : Page, content : PageContent \cup {Missing}]

ASSUME SourcesAssumption == Sources \in Nat
ASSUME MissingAssumption == Missing \notin PageContent

NoPage == [p \in Page |-> Missing]

Existing(w) == {p \in Page : w[p] # Missing}

Referenced(w) == UNION {w[p].cites : p \in Existing(w)}

\* Links <<from, to>> from a page that exists to one that does not.
BrokenLinks(w) == {l \in Existing(w) \X Page : l[2] \in w[l[1]].links /\ w[l[2]] = Missing}

Performed(w, op) == [w EXCEPT ![op.page] = op.content]

\* The wiki after the first n operations of a response: of several that name
\* a page, the last counts.
Written(w, ops, n) ==
    [p \in Page |-> LET named == {k \in 1..n : ops[k].page = p}
                    IN  IF named = {} THEN w[p] ELSE ops[Max(named)].content]
=============================================================================
