------------------------- MODULE PublishProperties -------------------------
(***************************************************************************)
(* What okf.json and the git history may hold.                             *)
(***************************************************************************)
EXTENDS Publish

(***************************************************************************)
(* "A partial/broken run's inconsistent wiki state must never land in      *)
(* `okf.json`": every link of a page okf.json describes is to a page it    *)
(* describes.  What decides is the last lint, what is described are the    *)
(* pages as they are when okf.json is written: --fix, which works through  *)
(* the links an earlier lint found, writes pages with links of their own   *)
(* in between.                                                             *)
(***************************************************************************)
BundleIsClosed == BrokenLinks(okf) = {}

(***************************************************************************)
(* ... nor "git history": every link of a page in the last commit is to a  *)
(* page in it.                                                             *)
(***************************************************************************)
HeadIsClosed == BrokenLinks(head.pages) = {}

(***************************************************************************)
(* What a run wrote is committed with it, --fix's pages included: as long  *)
(* as every run ended in a commit, the last commit is the wiki.  So is its *)
(* index, except for the pages --fix added after it was made.              *)
(***************************************************************************)
CommitIsWiki ==
    phase = "idle" /\ allDid =>
        /\ head.pages = wiki
        /\ fixed = {} => head.index = Existing(wiki)
=============================================================================
