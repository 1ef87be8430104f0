------------------------------ MODULE MCRaces ------------------------------
(***************************************************************************)
(* Two who work at once, on one of two things, chosen at the start:        *)
(*   "vault"  two commands on the manifest and the blobs: two sources      *)
(*            whose slugs differ, two contents with different raw_ids;     *)
(*   "index"  a reindex and the searches, beside a changing vault: one     *)
(*            document that is rewritten from two sections to one, the     *)
(*            first of them another, and one that comes and goes.          *)
(***************************************************************************)
EXTENDS MCVault, SearchProperties

CONSTANT Parts

MCContentOf == <<{<<"a", "b">>, <<"b">>}, {<<"a">>}>>

VARIABLE part

raceVars == <<part, vars, searchVars>>

RaceInit == part \in Parts /\ Init /\ SearchInit

RaceNext ==
    /\ UNCHANGED part
    /\ \/ part = "vault" /\ Next /\ UNCHANGED searchVars
       \/ part = "index" /\ SearchNext /\ UNCHANGED vars

RaceSpec == RaceInit /\ [][RaceNext]_raceVars /\ (part = "index" => IndexFairness)
=============================================================================
