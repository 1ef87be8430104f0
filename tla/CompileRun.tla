----------------------------- MODULE CompileRun -----------------------------
(***************************************************************************)
(* Successive runs of `okf-mcp compile` / `rebuild` over one vault         *)
(* (src/src/compiler/driver.rs, src/src/compiler/operations.rs): sources   *)
(* are selected, compiled at up to Window at once, the operations of each  *)
(* response are applied to the wiki one by one, and every success is       *)
(* marked in the manifest and saved before the next result is looked at.   *)
(*                                                                         *)
(* The sources' contents stay as they are here; Vault.tla has them change. *)
(* RunBounded.tla has run_bounded step by step; here it is what is proved  *)
(* of it: sources start in order, at most Window are in flight, each       *)
(* result is delivered once, and after a refusal nothing more starts.      *)
(***************************************************************************)
EXTENDS Wiki

CONSTANTS
    Responses,  \* what an LLM may answer for each source: sequences of Op
    Window,     \* options.concurrency, at least 1
    MaxRuns,    \* bound: how many runs are started
    Faults      \* whether kills, I/O errors and failing calls happen

ASSUME RunAssumption == Window \in Nat \ {0} /\ Faults \in BOOLEAN
ASSUME ResponsesAssumption ==
    \A s \in Source : Responses[s] \subseteq Seq(Op)

VARIABLES
    runs,       \* runs started
    phase,      \* "idle", "sources" in run_compile_sources, "report" after it
    diff,       \* diff_only of the run under way
    queue,      \* sources not started yet; the least is next
    job,        \* what every source's task is doing, and what it touched
    marked,     \* sources the manifest on disk marks as compiled
    saveError,  \* manifest_save_error
    outcome,    \* SourceOutcome of every source of this run
    touched,    \* touched_paths
    wiki,       \* the pages
    index,      \* the pages wiki/index.md lists
    applied,    \* history: sources some response of which was applied in full
    succeeded   \* history: sources whose success reached on_result

run == <<runs, phase, diff, queue, saveError, outcome, touched>>
compileVars == <<run, job, marked, wiki, index, applied, succeeded>>

NoJob == [at |-> "none", ops |-> <<>>, wrote |-> {}]

InFlight == {s \in Source : job[s].at # "none"}

CompileInit ==
    /\ runs = 0
    /\ phase = "idle"
    /\ diff = TRUE
    /\ queue = {}
    /\ job = [s \in Source |-> NoJob]
    /\ marked = {}
    /\ saveError = FALSE
    /\ outcome = [s \in Source |-> "none"]
    /\ touched = {}
    /\ wiki = NoPage
    /\ index = {}
    /\ applied = {}
    /\ succeeded = {}

-----------------------------------------------------------------------------
(***************************************************************************)
(* select_sources over the manifest as it is on disk at the start.         *)
(***************************************************************************)
Select(diffOnly) == IF diffOnly THEN Source \ (Referenced(wiki) \cup marked) ELSE Source

StartRun(diffOnly) ==
    /\ phase = "idle"
    /\ runs < MaxRuns
    /\ runs' = runs + 1
    /\ diff' = diffOnly
    /\ queue' = Select(diffOnly)
    /\ phase' = "sources"
    /\ saveError' = FALSE
    /\ outcome' = [s \in Source |-> "none"]
    /\ touched' = {}
    /\ UNCHANGED <<job, marked, wiki, index, applied, succeeded>>

\* Only the tool can be told to compile more than what is pending.
StartCompile == \E diffOnly \in BOOLEAN : StartRun(diffOnly)

StartRebuild == \E force \in BOOLEAN : StartRun(~force)

StartSource ==
    /\ phase = "sources"
    /\ ~saveError
    /\ Cardinality(InFlight) < Window
    /\ \E s \in queue : /\ \A t \in queue : s <= t
                       /\ job' = [job EXCEPT ![s].at = "work"]
                       /\ queue' = queue \ {s}
    /\ UNCHANGED <<runs, phase, diff, saveError, outcome, touched>>
    /\ UNCHANGED <<marked, wiki, index, applied, succeeded>>

(***************************************************************************)
(* compile_one_source: reading the blob, asking the LLM or parsing its     *)
(* answer may fail; otherwise there is a sequence of operations to apply.  *)
(***************************************************************************)
Respond(s) ==
    /\ job[s].at = "work"
    /\ \/ \E r \in Responses[s] : job' = [job EXCEPT ![s].at = "apply", ![s].ops = r]
       \/ Faults /\ job' = [job EXCEPT ![s].at = "err"]
    /\ UNCHANGED <<run, marked, wiki, index, applied, succeeded>>

\* Wrong on purpose: an operation that fails is left out, the others count.
ApplyOpTolerant(s) ==
    /\ job[s].at = "apply"
    /\ job[s].ops # <<>>
    /\ LET op == Head(job[s].ops) IN
       \/ /\ wiki' = Performed(wiki, op)
          /\ job' = [job EXCEPT ![s].ops = Tail(@), ![s].wrote = @ \cup {op.page}]
       \/ /\ Faults
          /\ job' = [job EXCEPT ![s].at = "ok"]
          /\ UNCHANGED wiki
    /\ UNCHANGED <<run, marked, index, applied, succeeded>>

(***************************************************************************)
(* apply_operations: one operation; the first that fails ends the          *)
(* source's task with an error, what was written before it stays.          *)
(***************************************************************************)
ApplyOp(s) ==
    /\ job[s].at = "apply"
    /\ job[s].ops # <<>>
    /\ LET op == Head(job[s].ops) IN
       \/ /\ wiki' = Performed(wiki, op)
          /\ job' = [job EXCEPT ![s].ops = Tail(@), ![s].wrote = @ \cup {op.page}]
       \/ /\ Faults
          /\ job' = [job EXCEPT ![s].at = "err"]
          /\ UNCHANGED wiki
    /\ UNCHANGED <<run, marked, index, applied, succeeded>>

Applied(s) ==
    /\ job[s].at = "apply"
    /\ job[s].ops = <<>>
    /\ job' = [job EXCEPT ![s].at = "ok"]
    /\ applied' = applied \cup {s}
    /\ UNCHANGED <<run, marked, wiki, index, succeeded>>

-----------------------------------------------------------------------------
(***************************************************************************)
(* The on_result callback.  The manifest in memory is the one on disk with *)
(* the sources marked since: they differ only after a failed save, after   *)
(* which nothing is marked or saved any more.                              *)
(***************************************************************************)
Report(s, result) == outcome' = [outcome EXCEPT ![s] = result]

\* Wrong on purpose: the manifest is saved once, after the last source.
DeliverOkBatched(s) ==
    /\ job[s].at = "ok"
    /\ marked' = IF queue = {} /\ InFlight = {s} THEN marked \cup succeeded \cup {s} ELSE marked
    /\ succeeded' = succeeded \cup {s}
    /\ Report(s, "ok")
    /\ touched' = touched \cup job[s].wrote
    /\ job' = [job EXCEPT ![s] = NoJob]
    /\ UNCHANGED <<runs, phase, diff, queue, saveError, wiki, index, applied>>

\* Wrong on purpose: a save that failed is forgotten, the run goes on.
DeliverOkCarelessly(s) ==
    /\ job[s].at = "ok"
    /\ \/ marked' = marked \cup {s} /\ succeeded' = succeeded \cup {s}
       \/ Faults /\ UNCHANGED <<marked, succeeded>>
    /\ Report(s, "ok")
    /\ touched' = touched \cup job[s].wrote
    /\ job' = [job EXCEPT ![s] = NoJob]
    /\ UNCHANGED <<runs, phase, diff, queue, saveError, wiki, index, applied>>

DeliverOk(s) ==
    /\ job[s].at = "ok"
    /\ \/ /\ ~saveError
          /\ marked' = marked \cup {s}
          /\ succeeded' = succeeded \cup {s}
          /\ UNCHANGED saveError
       \/ /\ ~saveError /\ Faults
          /\ saveError' = TRUE
          /\ UNCHANGED <<marked, succeeded>>
       \/ /\ saveError
          /\ UNCHANGED <<saveError, marked, succeeded>>
    /\ Report(s, "ok")
    /\ touched' = touched \cup job[s].wrote
    /\ job' = [job EXCEPT ![s] = NoJob]
    /\ UNCHANGED <<runs, phase, diff, queue, wiki, index, applied>>

DeliverErr(s) ==
    /\ job[s].at = "err"
    /\ Report(s, "err")
    /\ job' = [job EXCEPT ![s] = NoJob]
    /\ UNCHANGED <<runs, phase, diff, queue, saveError, touched>>
    /\ UNCHANGED <<marked, wiki, index, applied, succeeded>>

(***************************************************************************)
(* run_bounded returned: a failed save is the run's error, otherwise the   *)
(* index is regenerated (which may fail too) and the bundle linted.        *)
(***************************************************************************)
FinishSources ==
    /\ phase = "sources"
    /\ InFlight = {}
    /\ queue = {} \/ saveError
    /\ \/ /\ ~saveError
          /\ phase' = "report"
          /\ index' = Existing(wiki)
       \/ /\ saveError
          /\ phase' = "idle"
          /\ UNCHANGED index
       \/ /\ ~saveError /\ Faults
          /\ phase' = "idle"
          /\ index' \in {index, Existing(wiki)}
    /\ UNCHANGED <<runs, diff, queue, saveError, outcome, touched>>
    /\ UNCHANGED <<job, marked, wiki, applied, succeeded>>

Kill == /\ Faults
        /\ phase # "idle"
        /\ phase' = "idle"
        /\ job' = [s \in Source |-> NoJob]
        /\ UNCHANGED <<runs, diff, queue, saveError, outcome, touched>>
        /\ UNCHANGED <<marked, wiki, index, applied, succeeded>>

TaskStep == \E s \in Source : Respond(s) \/ ApplyOp(s) \/ Applied(s)

CallerStep == StartSource \/ FinishSources \/ \E s \in Source : DeliverOk(s) \/ DeliverErr(s)

CompileNext == StartCompile \/ StartRebuild \/ TaskStep \/ CallerStep \/ Kill
=============================================================================
