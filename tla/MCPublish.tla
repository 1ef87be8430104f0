----------------------------- MODULE MCPublish -----------------------------
(***************************************************************************)
(* Two pages.  A source may be answered with nothing, with a page of its   *)
(* own, with one that links to the other page, with both, or with the      *)
(* removal of one; a missing page with itself, with or without links.      *)
(***************************************************************************)
EXTENDS PublishProperties, CompileRunProperties

CONSTANTS a, b

Write(p, cites, links) == [page |-> p, content |-> [cites |-> cites, links |-> links]]

Removal == [page |-> a, content |-> Missing]

MCResponses == [s \in Source |-> { <<>>,
                                   <<Write(a, {s}, {})>>,
                                   <<Write(b, {s}, {a})>>,
                                   <<Write(b, {s}, {a}), Write(a, {s}, {})>>,
                                   <<Removal>> }]

MCFixResponses == [p \in Page |-> {<<Write(p, {1}, {})>>, <<Write(p, {1}, {a, b})>>}]
=============================================================================
