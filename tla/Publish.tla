------------------------------- MODULE Publish -------------------------------
(***************************************************************************)
(* What the CLI does with a compile's report (report_and_commit in         *)
(* src/src/cli/compile.rs): with --fix, have missing pages synthesized     *)
(* (src/src/compiler/link_fix.rs); then, if no source failed and lint has  *)
(* no errors, write okf.json (src/src/storage/bundle.rs) and commit the    *)
(* paths this run touched (src/src/storage/git.rs).                        *)
(*                                                                         *)
(* Git is what the code uses of it: `git add -- <paths>` refuses all of    *)
(* them if one neither exists nor is tracked, `git commit` records what is *)
(* staged.                                                                 *)
(***************************************************************************)
EXTENDS CompileRun

CONSTANTS FixResponses,     \* what an LLM may answer for each missing page
          Fix               \* whether --fix is given

ASSUME FixAssumption ==
    /\ Fix \in BOOLEAN
    /\ \A p \in Page : FixResponses[p] \subseteq Seq(Op)

VARIABLES
    linted,     \* lint_report: the broken links the last lint found
    missing,    \* the broken links link_fix still has to look at: <<from, to>>
    fixed,      \* fixed_paths
    okf,        \* the pages okf.json describes, as they were
    staging,    \* git's index: the tree the next commit will record
    head,       \* the tree of the last commit
    committed,  \* history: whether this run's report ended in a commit
    allDid      \* history: whether every run's did, and all --fix applied was whole

git == <<staging, head, committed>>
report == <<runs, diff, queue, saveError, outcome, touched, job, marked, applied, succeeded, index>>
allVars == <<compileVars, linted, missing, fixed, okf, git, allDid>>

Failed == \E s \in Source : outcome[s] = "err"

\* The pages that linked to q when --fix looked, and are still there.
Referencing(q) == {p \in Existing(wiki) : <<p, q>> \in missing}

CitedBy(pages) == UNION {wiki[p].cites : p \in pages}

PublishInit == /\ CompileInit
               /\ linted = {}
               /\ missing = {}
               /\ fixed = {}
               /\ okf = NoPage
               /\ staging = [pages |-> NoPage, index |-> {}]
               /\ head = staging
               /\ committed = FALSE
               /\ allDid = TRUE

-----------------------------------------------------------------------------
(***************************************************************************)
(* The report arrives with the lint the compile ended with.  --fix lints   *)
(* again and, if anything is broken, lists the broken links, once, for the *)
(* command and for the tool alike.  Every page parses here: there is no    *)
(* frontmatter for the mechanical repair to mend.                          *)
(***************************************************************************)
LintedForFix == IF Fix THEN BrokenLinks(wiki) ELSE linted

ReportArrives ==
    /\ phase = "report"
    /\ linted' = LintedForFix
    /\ missing' = IF Fix THEN LintedForFix ELSE {}
    /\ phase' = IF missing' # {} THEN "fix" ELSE "commit"
    /\ fixed' = {}
    /\ UNCHANGED <<report, wiki, okf, git>>

(***************************************************************************)
(* One missing page.  Without a cited source in the pages that link to it  *)
(* it is skipped; a response that fails to apply leaves what it wrote, but *)
(* only the paths of one that succeeds are kept for the commit.            *)
(***************************************************************************)
FixPage(q) ==
    /\ phase = "fix"
    /\ \E p \in Page : <<p, q>> \in missing
    /\ missing' = {l \in missing : l[2] # q}
    /\ \/ /\ CitedBy(Referencing(q)) = {}
          /\ UNCHANGED <<wiki, fixed, allDid>>
       \/ /\ CitedBy(Referencing(q)) # {}
          /\ \/ /\ Faults
                /\ UNCHANGED <<wiki, fixed, allDid>>
             \/ \E r \in FixResponses[q] : \E n \in 0..Len(r) :
                   /\ n < Len(r) => Faults
                   /\ wiki' = Written(wiki, r, n)
                   /\ fixed' = IF n < Len(r) THEN fixed ELSE fixed \cup {r[k].page : k \in 1..n}
                   /\ allDid' = (allDid /\ (n = 0 \/ n = Len(r)))
    /\ UNCHANGED <<report, phase, linted, okf, git>>

\* Wrong on purpose: what is left of the list stands for a new lint.
FixDoneByList == /\ phase = "fix"
                 /\ missing = {}
                 /\ linted' = missing
                 /\ phase' = "commit"
                 /\ UNCHANGED <<report, wiki, missing, fixed, okf, git>>

\* The new pages may have broken links of their own: --fix ends with a lint.
FixDone == /\ phase = "fix"
           /\ missing = {}
           /\ linted' = BrokenLinks(wiki)
           /\ phase' = "commit"
           /\ UNCHANGED <<report, wiki, missing, fixed, okf, git>>

Gate == ~Failed /\ linted = {}

(***************************************************************************)
(* "not committing; fix and re-run compile", or lint or write_bundle       *)
(* itself fails.                                                           *)
(***************************************************************************)
Refuse == /\ phase \in {"fix", "commit"}
          /\ Faults \/ (phase = "commit" /\ ~Gate)
          /\ phase' = "idle"
          /\ UNCHANGED <<report, wiki, linted, missing, fixed, okf, git>>

\* Wrong on purpose: the paths --fix wrote are not staged.
StagedWithoutFix == touched

Staged == touched \cup fixed

(***************************************************************************)
(* git add refuses every path if one neither exists nor is tracked;        *)
(* wiki/index.md is always among them.                                     *)
(***************************************************************************)
Addable == \A p \in Staged : wiki[p] # Missing \/ staging.pages[p] # Missing

Added == [pages |-> [p \in Page |-> IF p \in Staged THEN wiki[p] ELSE staging.pages[p]],
          index |-> index]

WriteBundle == /\ phase = "commit"
               /\ Gate
               /\ phase' = "idle"
               /\ okf' = wiki
               /\ UNCHANGED <<report, wiki, linted, missing, fixed>>

Commit == /\ WriteBundle
          /\ Addable
          /\ staging' = Added
          /\ head' = Added
          /\ committed' = TRUE

(***************************************************************************)
(* "git commit skipped": git add fails, or git commit does after it.       *)
(***************************************************************************)
CommitSkipped == /\ WriteBundle
                 /\ \/ ~Addable /\ UNCHANGED staging
                    \/ Faults /\ UNCHANGED staging
                    \/ Faults /\ Addable /\ staging' = Added
                 /\ UNCHANGED <<head, committed>>

(***************************************************************************)
(* Nobody confirms that what --fix synthesized is committed.               *)
(***************************************************************************)
Unconfirmed == WriteBundle /\ fixed # {} /\ UNCHANGED git

\* compile() ends with a lint, which is part of its report.
CompileStep == /\ CompileNext
               /\ linted' = IF phase' = "report" THEN BrokenLinks(wiki') ELSE {}
               /\ UNCHANGED <<missing, fixed, okf, staging, head>>
               /\ committed' = (committed /\ runs' = runs)

\* okf-compile and okf-rebuild of the MCP server never commit.
ToolEnds == /\ phase \in {"report", "commit"}
            /\ phase' = "idle"
            /\ UNCHANGED <<report, wiki, linted, missing, fixed, okf, git>>

EndsTold == allDid' = (allDid /\ (phase' = "idle" => phase = "idle" \/ committed'))

PublishStep == ToolEnds \/ ReportArrives \/ FixDone \/ Refuse \/ Commit \/ CommitSkipped \/ Unconfirmed

PublishNext == \/ (CompileStep \/ PublishStep) /\ EndsTold
               \/ \E q \in Page : FixPage(q)

PublishSpec == PublishInit /\ [][PublishNext]_allVars
=============================================================================
