--------------------------- MODULE CompileProofs ---------------------------
(***************************************************************************)
(* What a compile leaves behind in the manifest, in okf.json and in git,   *)
(* for any numbers of sources, pages and runs, any limit and whatever an   *)
(* LLM answers.                                                            *)
(***************************************************************************)
EXTENDS PublishProperties, CompileRunProperties, TLAPS

Task == [at : {"none", "work", "apply", "ok", "err"}, ops : Seq(Op), wrote : SUBSET Page]

RunTypeOK ==
    /\ runs \in Nat
    /\ phase \in {"idle", "sources", "report", "fix", "commit"}
    /\ diff \in BOOLEAN /\ saveError \in BOOLEAN
    /\ queue \subseteq Source
    /\ job \in [Source -> Task]
    /\ outcome \in [Source -> {"none", "ok", "err"}]

(***************************************************************************)
(* A source of the run under way: not started, in flight or reported.      *)
(***************************************************************************)
Accounted(s) ==
    /\ s \in queue => job[s].at = "none"
    /\ s \in queue \/ job[s].at # "none" => outcome[s] = "none"
    /\ ~diff => s \in queue \/ job[s].at # "none" \/ outcome[s] # "none"
    /\ outcome[s] = "ok" /\ ~saveError => s \in marked
    /\ s \in queue /\ diff => s \notin succeeded

RunInv ==
    /\ RunTypeOK
    /\ \A s \in Source : phase # "sources" \/ job[s].at = "none" => job[s] = NoJob
    /\ \A s \in Source : job[s].at = "ok" => s \in applied
    /\ succeeded \subseteq marked
    /\ phase = "sources" => \A s \in Source : Accounted(s)
    /\ MarkedIsApplied
    /\ ReportIsTrue

(***************************************************************************)
(* What makes CommitIsWiki inductive: the pages that differ from the last  *)
(* commit.  Those of sources in flight are not in touched yet, and those   *)
(* of a source that failed never will be: then there is no commit.         *)
(***************************************************************************)
Changed == {p \in Page : wiki[p] # head.pages[p]}

InHand == UNION {job[s].wrote : s \in Source}

CommitInv ==
    /\ DOMAIN wiki = Page /\ wiki = [p \in Page |-> wiki[p]]
    /\ committed \in BOOLEAN /\ allDid \in BOOLEAN
    /\ phase # "idle" => ~committed
    /\ phase = "report" => index = Existing(wiki)
    /\ allDid =>
          /\ staging = head
          /\ phase = "sources" /\ ~Failed => Changed \subseteq touched \cup InHand
          /\ phase = "report" /\ ~Failed => Changed \subseteq touched
          /\ phase \in {"fix", "commit"} /\ ~Failed => Changed \subseteq touched \cup fixed
          /\ phase \in {"fix", "commit"} /\ fixed = {} => index = Existing(wiki)
    /\ CommitIsWiki

(***************************************************************************)
(* What makes BundleIsClosed inductive: while a report waits, and until    *)
(* okf.json is written, the last lint is true of the wiki as it is now.    *)
(***************************************************************************)
BundleInv ==
    /\ BundleIsClosed
    /\ phase \in {"report", "commit"} => linted = BrokenLinks(wiki)

-----------------------------------------------------------------------------
\* Of a source that was not started nothing was written.
LEMMA NoJobIsTask == NoJob \in Task /\ NoJob.at = "none" /\ NoJob.wrote = {}
BY DEF NoJob, Task

LEMMA TaskTypes ==
    ASSUME NEW t \in Task
    PROVE  /\ \A at \in {"none", "work", "apply", "ok", "err"} : [t EXCEPT !.at = at] \in Task
           /\ \A r \in Seq(Op) : [t EXCEPT !.at = "apply", !.ops = r] \in Task
           /\ t.ops # <<>> => /\ Head(t.ops) \in Op
                              /\ [t EXCEPT !.ops = Tail(t.ops),
                                           !.wrote = t.wrote \cup {Head(t.ops).page}] \in Task
<1>1. t.ops # <<>> => Head(t.ops) \in Op /\ Tail(t.ops) \in Seq(Op)
  BY DEF Task
<1>2. \A op \in Op : op.page \in Page
  BY DEF Op
<1> QED  BY <1>1, <1>2 DEF Task

LEMMA InitRun == PublishInit => RunInv /\ CommitInv /\ BundleInv
<1> SUFFICES ASSUME PublishInit PROVE RunInv /\ CommitInv /\ BundleInv
  OBVIOUS
<1> USE DEF PublishInit, CompileInit
<1>1. RunInv
  BY NoJobIsTask DEF RunInv, RunTypeOK, MarkedIsApplied, ReportIsTrue
<1>2. Existing(wiki) = {} /\ Existing(okf) = {}
  BY DEF Existing, NoPage
<1>3. CommitInv
  BY <1>2 DEF CommitInv, CommitIsWiki, NoPage
<1>4. BundleInv
  BY <1>2 DEF BundleInv, BundleIsClosed, BrokenLinks
<1> QED  BY <1>1, <1>3, <1>4

-----------------------------------------------------------------------------
(***************************************************************************)
(* One step of a run at a time: RunInv stays.                              *)
(***************************************************************************)
LEMMA StartKeepsRun ==
    ASSUME RunInv, NEW d \in BOOLEAN, StartRun(d)
    PROVE  RunInv'
<1>1. /\ phase = "idle" /\ phase' = "sources" /\ runs' = runs + 1 /\ diff' = d
      /\ queue' = Select(d) /\ saveError' = FALSE /\ outcome' = [s \in Source |-> "none"]
      /\ UNCHANGED <<job, marked, applied, succeeded>>
  BY DEF StartRun
<1>2. Select(d) \subseteq Source /\ (d => Select(d) \cap marked = {}) /\ (~d => Select(d) = Source)
  BY DEF Select
<1>3. RunTypeOK'
  <2>1. diff' \in BOOLEAN /\ saveError' \in BOOLEAN /\ job' \in [Source -> Task] /\ phase' = "sources"
    BY <1>1, Zenon DEF RunInv, RunTypeOK
  <2>2. runs' \in Nat /\ queue' \subseteq Source /\ outcome' \in [Source -> {"none", "ok", "err"}]
    BY <1>1, <1>2 DEF RunInv, RunTypeOK
  <2> QED  BY <2>1, <2>2 DEF RunTypeOK
<1>4. \A s \in Source : job[s] = NoJob /\ NoJob.at = "none"
  BY <1>1, NoJobIsTask DEF RunInv
<1>5. \A s \in Source : Accounted(s)'
  BY <1>1, <1>2, <1>4 DEF RunInv, Accounted
<1> QED  BY <1>1, <1>3, <1>4, <1>5 DEF RunInv, MarkedIsApplied, ReportIsTrue

\* The job of one source changes, the rest of the run stays.
LEMMA JobTypes ==
    ASSUME job \in [Source -> Task], NEW s \in Source, NEW t \in Task, job' = [job EXCEPT ![s] = t]
    PROVE  job' \in [Source -> Task] /\ job'[s] = t /\ \A x \in Source \ {s} : job'[x] = job[x]
OBVIOUS

LEMMA StartSourceKeepsRun ==
    ASSUME RunInv, StartSource
    PROVE  RunInv'
<1>1. PICK s \in queue : /\ job' = [job EXCEPT ![s].at = "work"]
                         /\ queue' = queue \ {s}
  BY DEF StartSource
<1>2. s \in Source /\ job[s] \in Task /\ job' = [job EXCEPT ![s] = [job[s] EXCEPT !.at = "work"]]
  BY <1>1 DEF RunInv, RunTypeOK
<1>3. /\ job' \in [Source -> Task] /\ job'[s].at = "work"
      /\ \A x \in Source \ {s} : job'[x] = job[x]
  <2> DEFINE t == [job[s] EXCEPT !.at = "work"]
  <2>1. t \in Task /\ t.at = "work"
    BY <1>2, TaskTypes DEF Task
  <2>2. job' = [job EXCEPT ![s] = t]
    BY <1>2
  <2> HIDE DEF t
  <2> QED  BY <1>2, <2>1, <2>2, JobTypes DEF RunInv, RunTypeOK
<1>4. phase = "sources" /\ UNCHANGED <<runs, phase, diff, saveError, outcome, touched, marked, wiki, index, applied, succeeded>>
  BY DEF StartSource
<1>5. \A x \in Source : Accounted(x)'
  BY <1>1, <1>2, <1>3, <1>4 DEF RunInv, Accounted
<1> QED  BY <1>1, <1>2, <1>3, <1>4, <1>5 DEF RunInv, RunTypeOK, MarkedIsApplied, ReportIsTrue

\* What a task does, as far as the run sees it.
Works(s, t) ==
    /\ job[s].at \in {"work", "apply"}
    /\ t \in Task /\ t.at # "none"
    /\ job' = [job EXCEPT ![s] = t]
    /\ t.at = "ok" => s \in applied'
    /\ applied \subseteq applied'
    /\ UNCHANGED <<run, marked, index, succeeded>>

LEMMA WorksKeepsRun ==
    ASSUME RunInv, NEW s \in Source, NEW t, Works(s, t)
    PROVE  RunInv'
<1>1. /\ job' \in [Source -> Task] /\ job'[s] = t
      /\ \A x \in Source \ {s} : job'[x] = job[x]
  BY JobTypes DEF RunInv, RunTypeOK, Works
<1>2. phase = "sources"
  BY NoJobIsTask DEF Works, RunInv
<1>3. \A x \in Source : Accounted(x)'
  BY <1>1, <1>2 DEF RunInv, Accounted, Works, run
<1> QED  BY <1>1, <1>2, <1>3 DEF RunInv, RunTypeOK, MarkedIsApplied, ReportIsTrue, Works, run

LEMMA RespondWorks ==
    ASSUME RunInv, NEW s \in Source, Respond(s)
    PROVE  \E t : Works(s, t) /\ t.wrote = job[s].wrote /\ UNCHANGED wiki
<1>1. job[s] \in Task
  BY DEF RunInv, RunTypeOK
<1>2. CASE \E r \in Responses[s] : job' = [job EXCEPT ![s].at = "apply", ![s].ops = r]
  <2>1. PICK r \in Responses[s] : job' = [job EXCEPT ![s].at = "apply", ![s].ops = r]
    BY <1>2
  <2> DEFINE t == [job[s] EXCEPT !.at = "apply", !.ops = r]
  <2>2. job' = [job EXCEPT ![s] = t] /\ t.at = "apply" /\ t.wrote = job[s].wrote
    BY <1>1, <2>1 DEF RunInv, RunTypeOK, Task
  <2>3. t \in Task
    BY <1>1, ResponsesAssumption, TaskTypes
  <2> HIDE DEF t
  <2> QED  BY <2>2, <2>3 DEF Respond, Works
<1>3. CASE job' = [job EXCEPT ![s].at = "err"]
  <2> DEFINE t == [job[s] EXCEPT !.at = "err"]
  <2>1. job' = [job EXCEPT ![s] = t] /\ t.at = "err" /\ t.wrote = job[s].wrote
    BY <1>1, <1>3 DEF RunInv, RunTypeOK, Task
  <2>2. t \in Task
    BY <1>1, TaskTypes
  <2> HIDE DEF t
  <2> QED  BY <2>1, <2>2 DEF Respond, Works
<1> QED  BY <1>2, <1>3 DEF Respond

LEMMA ApplyOpWorks ==
    ASSUME RunInv, NEW s \in Source, ApplyOp(s)
    PROVE  \E t : /\ Works(s, t)
                  /\ \/ t.wrote = job[s].wrote /\ UNCHANGED wiki
                     \/ \E op \in Op : t.wrote = job[s].wrote \cup {op.page} /\ wiki' = Performed(wiki, op)
<1>1. job[s] \in Task /\ job[s].ops # <<>>
  BY DEF RunInv, RunTypeOK, ApplyOp
<1> DEFINE op == Head(job[s].ops)
<1>2. CASE /\ wiki' = Performed(wiki, op)
           /\ job' = [job EXCEPT ![s].ops = Tail(@), ![s].wrote = @ \cup {op.page}]
  <2> DEFINE t == [job[s] EXCEPT !.ops = Tail(job[s].ops), !.wrote = job[s].wrote \cup {op.page}]
  <2>1. job' = [job EXCEPT ![s] = t] /\ t.at = job[s].at /\ t.wrote = job[s].wrote \cup {op.page}
    BY <1>1, <1>2 DEF RunInv, RunTypeOK, Task
  <2>2. t \in Task /\ op \in Op
    BY <1>1, TaskTypes
  <2> HIDE DEF t, op
  <2>3. Works(s, t)
    BY <2>1, <2>2 DEF ApplyOp, Works
  <2> QED  BY <1>2, <2>1, <2>2, <2>3
<1>3. CASE job' = [job EXCEPT ![s].at = "err"] /\ UNCHANGED wiki
  <2> DEFINE t == [job[s] EXCEPT !.at = "err"]
  <2>1. job' = [job EXCEPT ![s] = t] /\ t.at = "err" /\ t.wrote = job[s].wrote
    BY <1>1, <1>3 DEF RunInv, RunTypeOK, Task
  <2>2. t \in Task
    BY <1>1, TaskTypes
  <2> HIDE DEF t, op
  <2> QED  BY <1>3, <2>1, <2>2 DEF ApplyOp, Works
<1> QED  BY <1>2, <1>3 DEF ApplyOp

LEMMA AppliedWorks ==
    ASSUME RunInv, NEW s \in Source, Applied(s)
    PROVE  \E t : Works(s, t) /\ t.wrote = job[s].wrote /\ UNCHANGED wiki
<1>1. job[s] \in Task
  BY DEF RunInv, RunTypeOK
<1> DEFINE t == [job[s] EXCEPT !.at = "ok"]
<1>2. job' = [job EXCEPT ![s] = t] /\ t.at = "ok" /\ t.wrote = job[s].wrote
  BY <1>1 DEF RunInv, RunTypeOK, Task, Applied
<1>3. t \in Task
  BY <1>1, TaskTypes
<1> HIDE DEF t
<1> QED  BY <1>2, <1>3 DEF Applied, Works

LEMMA DeliverKeepsRun ==
    ASSUME RunInv, NEW s \in Source, DeliverOk(s) \/ DeliverErr(s)
    PROVE  RunInv'
<1>1. /\ job' \in [Source -> Task] /\ job'[s] = NoJob
      /\ \A x \in Source \ {s} : job'[x] = job[x]
  BY NoJobIsTask DEF RunInv, RunTypeOK, DeliverOk, DeliverErr
<1>2. phase = "sources" /\ UNCHANGED <<runs, phase, diff, queue, applied>>
  BY NoJobIsTask DEF DeliverOk, DeliverErr, RunInv
<1>3. /\ outcome' \in [Source -> {"none", "ok", "err"}] /\ outcome'[s] \in {"ok", "err"}
      /\ \A x \in Source \ {s} : outcome'[x] = outcome[x]
  BY DEF RunInv, RunTypeOK, DeliverOk, DeliverErr, Report
<1>4. CASE DeliverOk(s)
  <2>1. s \in applied /\ s \notin queue
    BY <1>2, <1>4 DEF RunInv, DeliverOk, Accounted
  <2>2. /\ succeeded' \subseteq marked' /\ marked \subseteq marked' /\ marked' \subseteq marked \cup {s}
        /\ saveError' \in BOOLEAN /\ (~saveError' => ~saveError /\ s \in marked')
        /\ succeeded' \subseteq succeeded \cup {s}
    <3>1. succeeded \subseteq marked /\ saveError \in BOOLEAN
      BY DEF RunInv, RunTypeOK
    <3>2. \/ /\ ~saveError /\ marked' = marked \cup {s} /\ succeeded' = succeeded \cup {s}
             /\ saveError' = saveError
          \/ saveError' = TRUE /\ marked' = marked /\ succeeded' = succeeded
          \/ /\ saveError /\ saveError' = saveError
             /\ marked' = marked /\ succeeded' = succeeded
      BY <1>4 DEF DeliverOk
    <3> QED  BY <3>1, <3>2
  <2>3. \A x \in Source : Accounted(x)'
    BY <1>1, <1>2, <1>3, <2>1, <2>2, NoJobIsTask DEF RunInv, Accounted
  <2> QED  BY <1>1, <1>2, <1>3, <2>1, <2>2, <2>3, NoJobIsTask DEF RunInv, RunTypeOK, MarkedIsApplied, ReportIsTrue
<1>5. CASE DeliverErr(s)
  <2>1. /\ UNCHANGED <<marked, succeeded, saveError>> /\ outcome'[s] = "err"
        /\ s \notin queue
    BY <1>2, <1>5 DEF DeliverErr, Report, RunInv, RunTypeOK, Accounted
  <2>2. \A x \in Source : Accounted(x)'
    BY <1>1, <1>2, <1>3, <2>1, NoJobIsTask DEF RunInv, Accounted
  <2> QED  BY <1>1, <1>2, <1>3, <2>1, <2>2, NoJobIsTask DEF RunInv, RunTypeOK, MarkedIsApplied, ReportIsTrue
<1> QED  BY <1>4, <1>5

LEMMA FinishKeepsRun ==
    ASSUME RunInv, FinishSources
    PROVE  RunInv'
<1>1. \A s \in Source : job[s].at = "none"
  BY DEF FinishSources, InFlight
<1>2. /\ phase' \in {"report", "idle"} /\ (phase' = "report" => ~saveError /\ queue = {})
      /\ UNCHANGED <<runs, diff, queue, saveError, outcome, job, marked, applied, succeeded>>
      /\ phase = "sources"
  BY DEF FinishSources
<1> QED  BY <1>1, <1>2 DEF RunInv, RunTypeOK, Accounted, MarkedIsApplied, ReportIsTrue

LEMMA KillKeepsRun ==
    ASSUME RunInv, Kill
    PROVE  RunInv'
BY NoJobIsTask DEF RunInv, RunTypeOK, Kill, MarkedIsApplied, ReportIsTrue

\* What follows the report leaves the manifest and the outcomes as they are.
LEMMA PublishKeepsRun ==
    ASSUME RunInv, UNCHANGED report, phase # "sources",
           phase' \in {"idle", "fix", "commit"}
    PROVE  RunInv'
BY DEF RunInv, RunTypeOK, report, MarkedIsApplied, ReportIsTrue

LEMMA StepKeepsRun == RunInv /\ [PublishNext]_allVars => RunInv'
<1> SUFFICES ASSUME RunInv, [PublishNext]_allVars PROVE RunInv'
  OBVIOUS
<1>1. CASE CompileNext
  <2>1. ASSUME NEW s \in Source, Respond(s) \/ ApplyOp(s) \/ Applied(s) PROVE RunInv'
    BY <2>1, RespondWorks, ApplyOpWorks, AppliedWorks, WorksKeepsRun
  <2>2. CASE StartCompile \/ StartRebuild
    BY <2>2, StartKeepsRun DEF StartCompile, StartRebuild
  <2> QED  BY <1>1, <2>1, <2>2, StartSourceKeepsRun, DeliverKeepsRun, FinishKeepsRun, KillKeepsRun
             DEF CompileNext, TaskStep, CallerStep
<1>2. CASE PublishStep
  <2>1. UNCHANGED report /\ phase # "sources" /\ phase' \in {"idle", "fix", "commit"}
    BY <1>2 DEF PublishStep, ToolEnds, ReportArrives, FixDone, Refuse, Commit, CommitSkipped,
                Unconfirmed, WriteBundle
  <2> QED  BY <2>1, PublishKeepsRun
<1>3. ASSUME NEW q \in Page, FixPage(q) PROVE RunInv'
  <2>1. UNCHANGED report /\ phase # "sources" /\ phase' \in {"idle", "fix", "commit"}
    BY <1>3 DEF FixPage
  <2> QED  BY <2>1, PublishKeepsRun
<1>4. CASE UNCHANGED allVars
  BY <1>4 DEF allVars, compileVars, run, RunInv, RunTypeOK, Accounted, MarkedIsApplied, ReportIsTrue
<1> QED  BY <1>1, <1>2, <1>3, <1>4 DEF PublishNext, CompileStep

LEMMA AlwaysRun == PublishSpec => []RunInv
BY InitRun, StepKeepsRun, PTL DEF PublishSpec

(***************************************************************************)
(* Only the sources in the queue are started, and with diff_only those are *)
(* none whose success was accepted: a step is one of NoRework.             *)
(***************************************************************************)
StartsNoneAgain ==
    \A s \in Source : job[s].at = "none" /\ job'[s].at = "work" /\ diff => s \notin succeeded

LEMMA StepStartsNoneAgain == RunInv /\ [PublishNext]_allVars => StartsNoneAgain
<1> SUFFICES ASSUME RunInv, [PublishNext]_allVars,
                    NEW s \in Source, job[s].at = "none", job'[s].at = "work", diff
             PROVE  s \notin succeeded
  BY DEF StartsNoneAgain
<1>1. CASE StartSource
  <2>1. PICK x \in queue : job' = [job EXCEPT ![x].at = "work"]
    BY <1>1 DEF StartSource
  <2>2. s = x
    BY <2>1 DEF RunInv, RunTypeOK
  <2>3. Accounted(s)
    BY <1>1 DEF StartSource, RunInv
  <2> QED  BY <2>1, <2>2, <2>3 DEF Accounted
<1>2. ASSUME NEW x \in Source, Respond(x) \/ ApplyOp(x) \/ Applied(x) PROVE FALSE
  <2>1. PICK t : Works(x, t)
    BY <1>2, RespondWorks, ApplyOpWorks, AppliedWorks
  <2>2. s # x
    BY <2>1 DEF Works
  <2> QED  BY <2>1, <2>2 DEF Works, RunInv, RunTypeOK
<1>3. ASSUME NEW x \in Source, DeliverOk(x) \/ DeliverErr(x) PROVE FALSE
  <2>1. job' = [job EXCEPT ![x] = NoJob]
    BY <1>3 DEF DeliverOk, DeliverErr
  <2> QED  BY <2>1, NoJobIsTask DEF RunInv, RunTypeOK
<1>4. CASE Kill
  BY <1>4, NoJobIsTask DEF Kill
<1>5. CASE UNCHANGED job
  BY <1>5
<1>6. StartCompile \/ StartRebuild \/ FinishSources => UNCHANGED job
  BY DEF StartCompile, StartRebuild, StartRun, FinishSources
<1>7. PublishStep \/ (\E q \in Page : FixPage(q)) => UNCHANGED job
  BY DEF PublishStep, ToolEnds, ReportArrives, FixDone, Refuse, Commit, CommitSkipped,
         Unconfirmed, WriteBundle, FixPage, report
<1>8. UNCHANGED allVars => UNCHANGED job
  BY DEF allVars, compileVars
<1> QED  BY <1>1, <1>2, <1>3, <1>4, <1>5, <1>6, <1>7, <1>8
            DEF PublishNext, CompileStep, CompileNext, TaskStep, CallerStep

-----------------------------------------------------------------------------
(***************************************************************************)
(* What is written to the wiki, and that all of it is staged.              *)
(***************************************************************************)
LEMMA PerformedChanges ==
    ASSUME NEW w, DOMAIN w = Page, NEW op \in Op
    PROVE  /\ DOMAIN Performed(w, op) = Page
           /\ Performed(w, op) = [p \in Page |-> Performed(w, op)[p]]
           /\ \A p \in Page \ {op.page} : Performed(w, op)[p] = w[p]
<1> DEFINE v == [w EXCEPT ![op.page] = op.content]
<1>1. v = [p \in Page |-> IF p = op.page THEN op.content ELSE w[p]]
  OBVIOUS
<1> QED  BY <1>1 DEF Performed

LEMMA WrittenChanges ==
    ASSUME NEW w, w = [p \in Page |-> w[p]], NEW ops, NEW n \in Nat
    PROVE  /\ DOMAIN Written(w, ops, n) = Page
           /\ Written(w, ops, n) = [p \in Page |-> Written(w, ops, n)[p]]
           /\ \A p \in Page \ {ops[k].page : k \in 1..n} : Written(w, ops, n)[p] = w[p]
           /\ n = 0 => Written(w, ops, n) = w
<1>1. \A p \in Page : p \notin {ops[k].page : k \in 1..n} => {k \in 1..n : ops[k].page = p} = {}
  OBVIOUS
<1>2. n = 0 => \A p \in Page : {k \in 1..n : ops[k].page = p} = {}
  OBVIOUS
<1>3. \A p \in Page : {k \in 1..n : ops[k].page = p} = {} => Written(w, ops, n)[p] = w[p]
  BY DEF Written
<1>4. DOMAIN Written(w, ops, n) = Page /\ Written(w, ops, n) = [p \in Page |-> Written(w, ops, n)[p]]
  BY DEF Written
<1> QED  BY <1>1, <1>2, <1>3, <1>4

LEMMA CompileEnds ==
    ASSUME RunInv, CommitInv, CompileStep, EndsTold
    PROVE  /\ UNCHANGED <<staging, head, fixed>> /\ committed' \in BOOLEAN
           /\ (~committed \/ runs' # runs) => ~committed'
           /\ allDid' \in BOOLEAN /\ (allDid' => allDid)
           /\ phase # "idle" /\ phase' = "idle" => ~allDid'
BY DEF CompileStep, EndsTold, CommitInv

LEMMA StartKeepsCommit ==
    ASSUME RunInv, CommitInv, NEW d \in BOOLEAN, StartRun(d), CompileStep, EndsTold
    PROVE  CommitInv'
<1>1. /\ phase = "idle" /\ phase' = "sources" /\ runs' # runs
      /\ UNCHANGED <<wiki, job>>
  BY DEF StartRun, RunInv, RunTypeOK
<1>2. allDid => Changed = {} /\ staging = head
  BY <1>1 DEF CommitInv, CommitIsWiki, Changed
<1>3. Changed' = Changed
  BY <1>1, CompileEnds DEF Changed
<1> QED  BY <1>1, <1>2, <1>3, CompileEnds DEF CommitInv, CommitIsWiki

LEMMA StartSourceKeepsCommit ==
    ASSUME RunInv, CommitInv, StartSource, CompileStep, EndsTold
    PROVE  CommitInv'
<1>1. PICK x \in queue : job' = [job EXCEPT ![x].at = "work"]
  BY DEF StartSource
<1>2. /\ phase = "sources" /\ phase' = "sources" /\ runs' = runs
      /\ UNCHANGED <<wiki, outcome, touched>>
  BY DEF StartSource
<1>3. InHand' = InHand
  <2>1. \A s \in Source : job'[s].wrote = job[s].wrote
    BY <1>1 DEF RunInv, RunTypeOK, Task
  <2> QED  BY <2>1 DEF InHand
<1>4. Changed' = Changed /\ Failed' = Failed
  BY <1>2, CompileEnds DEF Changed, Failed
<1> QED  BY <1>2, <1>3, <1>4, CompileEnds DEF CommitInv, CommitIsWiki

LEMMA TaskKeepsCommit ==
    ASSUME RunInv, CommitInv, CompileStep, EndsTold, NEW s \in Source, NEW t, Works(s, t),
           \/ t.wrote = job[s].wrote /\ UNCHANGED wiki
           \/ \E op \in Op : t.wrote = job[s].wrote \cup {op.page} /\ wiki' = Performed(wiki, op)
    PROVE  CommitInv'
<1>1. /\ phase = "sources" /\ phase' = "sources" /\ runs' = runs
      /\ UNCHANGED <<outcome, touched>>
  BY NoJobIsTask DEF Works, RunInv, run
<1>2. /\ job'[s].wrote = t.wrote /\ \A x \in Source \ {s} : job'[x] = job[x]
      /\ job[s].wrote \subseteq t.wrote
  BY DEF Works, RunInv, RunTypeOK
<1>3. InHand \cup t.wrote \subseteq InHand'
  BY <1>2 DEF InHand
<1>4. /\ DOMAIN wiki' = Page /\ wiki' = [p \in Page |-> wiki'[p]]
      /\ \A p \in Page \ t.wrote : wiki'[p] = wiki[p]
  <2>1. CASE UNCHANGED wiki
    BY <2>1 DEF CommitInv
  <2>2. CASE \E op \in Op : t.wrote = job[s].wrote \cup {op.page} /\ wiki' = Performed(wiki, op)
    <3>1. PICK op \in Op : t.wrote = job[s].wrote \cup {op.page} /\ wiki' = Performed(wiki, op)
      BY <2>2
    <3>2. DOMAIN wiki = Page
      BY DEF CommitInv
    <3>3. /\ DOMAIN Performed(wiki, op) = Page
          /\ Performed(wiki, op) = [p \in Page |-> Performed(wiki, op)[p]]
          /\ \A p \in Page \ {op.page} : Performed(wiki, op)[p] = wiki[p]
      BY ONLY <3>2, op \in Op, PerformedChanges
    <3> QED  BY ONLY <3>1, <3>3
  <2> QED  BY <2>1, <2>2
<1>5. Changed' \subseteq Changed \cup t.wrote /\ Failed' = Failed
  BY <1>1, <1>4, CompileEnds DEF Changed, Failed
<1> QED  BY <1>1, <1>3, <1>4, <1>5, CompileEnds DEF CommitInv, CommitIsWiki

LEMMA DeliverKeepsCommit ==
    ASSUME RunInv, CommitInv, CompileStep, EndsTold, NEW s \in Source, DeliverOk(s) \/ DeliverErr(s)
    PROVE  CommitInv'
<1>1. /\ phase = "sources" /\ phase' = "sources" /\ runs' = runs /\ UNCHANGED wiki
      /\ job[s].at \in {"ok", "err"} /\ job' = [job EXCEPT ![s] = NoJob]
  BY NoJobIsTask DEF DeliverOk, DeliverErr, RunInv
<1>2. \A x \in Source \ {s} : job'[x] = job[x]
  BY <1>1 DEF RunInv, RunTypeOK
<1>3. InHand \subseteq InHand' \cup job[s].wrote
  BY <1>2 DEF InHand
<1>4. outcome[s] = "none" /\ \A x \in Source \ {s} : outcome'[x] = outcome[x]
  BY <1>1 DEF RunInv, RunTypeOK, Accounted, DeliverOk, DeliverErr, Report
<1>5. Failed => Failed'
  BY <1>4 DEF Failed
<1>6. Failed' \/ touched' = touched \cup job[s].wrote
  BY DEF DeliverOk, DeliverErr, Report, Failed, RunInv, RunTypeOK
<1>7. DeliverErr(s) => Failed'
  BY DEF DeliverErr, Report, Failed, RunInv, RunTypeOK
<1>8. Changed' = Changed
  BY <1>1, CompileEnds DEF Changed
<1> QED  BY <1>1, <1>3, <1>5, <1>6, <1>8, CompileEnds DEF CommitInv, CommitIsWiki

LEMMA FinishKeepsCommit ==
    ASSUME RunInv, CommitInv, CompileStep, EndsTold, FinishSources
    PROVE  CommitInv'
<1>1. /\ phase = "sources" /\ phase' \in {"report", "idle"} /\ runs' = runs
      /\ UNCHANGED <<wiki, outcome, touched, job>>
      /\ phase' = "report" => index' = Existing(wiki)
  BY DEF FinishSources
<1>2. InHand = {}
  BY NoJobIsTask DEF FinishSources, InFlight, RunInv, InHand
<1>3. Changed' = Changed /\ Failed' = Failed /\ Existing(wiki') = Existing(wiki)
  BY <1>1, CompileEnds DEF Changed, Failed
<1> QED  BY <1>1, <1>2, <1>3, CompileEnds DEF CommitInv, CommitIsWiki

LEMMA KillKeepsCommit ==
    ASSUME RunInv, CommitInv, CompileStep, EndsTold, Kill
    PROVE  CommitInv'
<1>1. phase # "idle" /\ phase' = "idle" /\ runs' = runs /\ UNCHANGED wiki
  BY DEF Kill
<1> QED  BY <1>1, CompileEnds DEF CommitInv, CommitIsWiki

-----------------------------------------------------------------------------
LEMMA ReportKeepsCommit ==
    ASSUME RunInv, CommitInv, ReportArrives, EndsTold
    PROVE  CommitInv'
<1>1. /\ phase = "report" /\ phase' \in {"fix", "commit"} /\ fixed' = {}
      /\ UNCHANGED <<wiki, index, outcome, touched, staging, head, committed>>
  BY DEF ReportArrives, report, git
<1>2. allDid' \in BOOLEAN /\ (allDid' => allDid)
  BY DEF EndsTold, CommitInv
<1>3. Changed' = Changed /\ Failed' = Failed
  BY <1>1 DEF Changed, Failed
<1> QED  BY <1>1, <1>2, <1>3 DEF CommitInv, CommitIsWiki

LEMMA FixKeepsCommit ==
    ASSUME RunInv, CommitInv, NEW q \in Page, FixPage(q)
    PROVE  CommitInv'
<1>1. /\ phase = "fix" /\ phase' = "fix"
      /\ UNCHANGED <<index, outcome, touched, staging, head, committed>>
  BY DEF FixPage, report, git
<1>2. CASE UNCHANGED <<wiki, fixed, allDid>>
  <2>1. Changed' = Changed /\ Failed' = Failed
    BY <1>1, <1>2 DEF Changed, Failed
  <2> QED  BY <1>1, <1>2, <2>1 DEF CommitInv, CommitIsWiki
<1>3. CASE \E r \in FixResponses[q] : \E n \in 0..Len(r) :
              /\ wiki' = Written(wiki, r, n)
              /\ fixed' = IF n < Len(r) THEN fixed ELSE fixed \cup {r[k].page : k \in 1..n}
              /\ allDid' = (allDid /\ (n = 0 \/ n = Len(r)))
  <2>0. PICK r \in FixResponses[q] : \E n \in 0..Len(r) :
              /\ wiki' = Written(wiki, r, n)
              /\ fixed' = IF n < Len(r) THEN fixed ELSE fixed \cup {r[k].page : k \in 1..n}
              /\ allDid' = (allDid /\ (n = 0 \/ n = Len(r)))
    BY <1>3
  <2>1. PICK n \in 0..Len(r) :
              /\ wiki' = Written(wiki, r, n)
              /\ fixed' = IF n < Len(r) THEN fixed ELSE fixed \cup {r[k].page : k \in 1..n}
              /\ allDid' = (allDid /\ (n = 0 \/ n = Len(r)))
    BY <2>0
  <2> DEFINE written == {r[k].page : k \in 1..n}
  <2>2. Len(r) \in Nat /\ n \in Nat
    BY FixAssumption
  <2>3. /\ DOMAIN wiki' = Page /\ wiki' = [p \in Page |-> wiki'[p]]
        /\ \A p \in Page \ written : wiki'[p] = wiki[p]
        /\ n = 0 => wiki' = wiki
    BY <2>1, <2>2, WrittenChanges DEF CommitInv
  <2>4. /\ fixed \subseteq fixed'
        /\ n = Len(r) => fixed' = fixed \cup written
        /\ n # 0 => written # {}
        /\ n = 0 => written = {}
    BY <2>1, <2>2
  <2>5. allDid' \in BOOLEAN /\ (allDid' => allDid /\ (n = 0 \/ n = Len(r)))
    BY <2>1 DEF CommitInv
  <2> HIDE DEF written
  <2>6. Changed' \subseteq Changed \cup written /\ Failed' = Failed
    BY <1>1, <2>3 DEF Changed, Failed
  <2>7. allDid' => Changed \cup written \subseteq (Changed \cup fixed')
    BY <2>4, <2>5
  <2>8. allDid' /\ fixed' = {} => n = 0 /\ fixed = {}
    BY <2>4, <2>5
  <2> QED  BY <1>1, <2>3, <2>4, <2>5, <2>6, <2>7, <2>8 DEF CommitInv, CommitIsWiki
<1> QED  BY <1>2, <1>3 DEF FixPage

\* A run that ends without a commit: its pages may stay uncommitted.
LEMMA EndKeepsCommit ==
    ASSUME RunInv, CommitInv, ToolEnds \/ Refuse \/ CommitSkipped \/ Unconfirmed, EndsTold
    PROVE  CommitInv'
<1>1. phase # "idle" /\ phase' = "idle" /\ UNCHANGED <<wiki, committed>>
  BY DEF ToolEnds, Refuse, CommitSkipped, Unconfirmed, WriteBundle, git
<1>2. ~allDid' /\ allDid' \in BOOLEAN
  BY <1>1 DEF EndsTold, CommitInv
<1> QED  BY <1>1, <1>2 DEF CommitInv, CommitIsWiki

LEMMA FixDoneKeepsCommit ==
    ASSUME RunInv, CommitInv, FixDone, EndsTold
    PROVE  CommitInv'
<1>1. /\ phase = "fix" /\ phase' = "commit"
      /\ UNCHANGED <<wiki, index, outcome, touched, fixed, staging, head, committed>>
  BY DEF FixDone, report, git
<1>2. allDid' \in BOOLEAN /\ (allDid' => allDid)
  BY DEF EndsTold, CommitInv
<1>3. Changed' = Changed /\ Failed' = Failed
  BY <1>1 DEF Changed, Failed
<1> QED  BY <1>1, <1>2, <1>3 DEF CommitInv, CommitIsWiki

LEMMA CommitKeepsCommit ==
    ASSUME RunInv, CommitInv, Commit, EndsTold
    PROVE  CommitInv'
<1>1. /\ phase = "commit" /\ phase' = "idle" /\ ~Failed /\ committed' = TRUE
      /\ staging' = Added /\ head' = Added
      /\ UNCHANGED <<wiki, index, fixed>>
  BY DEF Commit, WriteBundle, Gate, report
<1>2. allDid' = allDid
  BY <1>1 DEF EndsTold, CommitInv
<1>3. allDid => Added.pages = wiki
  <2>1. \A p \in Page : p \notin touched \cup fixed /\ allDid => staging.pages[p] = wiki[p]
    BY <1>1 DEF CommitInv, Changed
  <2>2. Added.pages = [p \in Page |-> IF p \in touched \cup fixed THEN wiki[p] ELSE staging.pages[p]]
    BY DEF Added, Staged
  <2> QED  BY <2>1, <2>2 DEF CommitInv
<1>4. allDid /\ fixed = {} => Added.index = Existing(wiki)
  BY <1>1 DEF CommitInv, Added
<1>5. CommitIsWiki'
  BY <1>1, <1>2, <1>3, <1>4 DEF CommitIsWiki
<1> QED  BY <1>1, <1>2, <1>5 DEF CommitInv

LEMMA StepKeepsCommit == RunInv /\ CommitInv /\ [PublishNext]_allVars => CommitInv'
<1> SUFFICES ASSUME RunInv, CommitInv, [PublishNext]_allVars PROVE CommitInv'
  OBVIOUS
<1>1. CASE CompileStep /\ EndsTold
  <2>1. ASSUME NEW s \in Source, Respond(s) \/ ApplyOp(s) \/ Applied(s) PROVE CommitInv'
    BY <1>1, <2>1, RespondWorks, ApplyOpWorks, AppliedWorks, TaskKeepsCommit
  <2>2. CASE StartCompile \/ StartRebuild
    BY <1>1, <2>2, StartKeepsCommit DEF StartCompile, StartRebuild
  <2> QED  BY <1>1, <2>1, <2>2, StartSourceKeepsCommit, DeliverKeepsCommit, FinishKeepsCommit,
              KillKeepsCommit DEF CompileStep, CompileNext, TaskStep, CallerStep
<1>2. CASE PublishStep /\ EndsTold
  BY <1>2, ReportKeepsCommit, EndKeepsCommit, FixDoneKeepsCommit, CommitKeepsCommit DEF PublishStep
<1>3. ASSUME NEW q \in Page, FixPage(q) PROVE CommitInv'
  BY <1>3, FixKeepsCommit
<1>4. CASE UNCHANGED allVars
  <2>1. /\ UNCHANGED <<phase, wiki, index, outcome, touched, job, fixed>>
        /\ UNCHANGED <<staging, head, committed, allDid>>
    BY <1>4 DEF allVars, compileVars, run, git
  <2>2. Changed' = Changed /\ InHand' = InHand /\ Failed' = Failed
    BY <2>1 DEF Changed, InHand, Failed
  <2> QED  BY <2>1, <2>2 DEF CommitInv, CommitIsWiki
<1> QED  BY <1>1, <1>2, <1>3, <1>4 DEF PublishNext

\* What a compile's step may leave behind: a report with its own lint, or none.
LEMMA CompileLints ==
    ASSUME RunInv, CompileStep
    PROVE  phase' \in {"report", "commit"} => phase' = "report" /\ linted' = BrokenLinks(wiki')
<1>1. ASSUME NEW s \in Source, Respond(s) \/ ApplyOp(s) \/ Applied(s) \/ DeliverOk(s) \/ DeliverErr(s)
      PROVE  phase' = "sources"
  <2>1. job[s] # NoJob /\ phase' = phase
    BY <1>1, NoJobIsTask DEF Respond, ApplyOp, Applied, DeliverOk, DeliverErr, run
  <2> QED  BY <2>1 DEF RunInv
<1>2. phase' # "commit"
  BY <1>1 DEF CompileStep, CompileNext, TaskStep, CallerStep, StartCompile, StartRebuild, StartRun,
              StartSource, FinishSources, Kill
<1> QED  BY <1>2 DEF CompileStep

LEMMA StepKeepsBundle == RunInv /\ BundleInv /\ [PublishNext]_allVars => BundleInv'
<1> SUFFICES ASSUME RunInv, BundleInv, [PublishNext]_allVars PROVE BundleInv'
  OBVIOUS
<1>1. CASE CompileStep
  BY <1>1, CompileLints DEF CompileStep, BundleInv, BundleIsClosed
<1>2. CASE ReportArrives
  <2>1. phase = "report" /\ linted = BrokenLinks(wiki) /\ UNCHANGED <<wiki, okf>>
    BY <1>2 DEF ReportArrives, BundleInv
  <2>2. linted' = BrokenLinks(wiki)
    BY <1>2, <2>1 DEF ReportArrives, LintedForFix
  <2> QED  BY <2>1, <2>2 DEF BundleInv, BundleIsClosed
<1>3. CASE FixDone
  BY <1>3 DEF FixDone, BundleInv, BundleIsClosed
<1>4. ASSUME NEW q \in Page, FixPage(q) PROVE BundleInv'
  BY <1>4 DEF FixPage, BundleInv, BundleIsClosed
<1>5. CASE Commit \/ CommitSkipped \/ Unconfirmed
  <2>1. phase = "commit" /\ phase' = "idle" /\ okf' = wiki /\ linted = {}
    BY <1>5 DEF Commit, CommitSkipped, Unconfirmed, WriteBundle, Gate
  <2> QED  BY <2>1 DEF BundleInv, BundleIsClosed
<1>6. CASE ToolEnds \/ Refuse
  BY <1>6 DEF ToolEnds, Refuse, BundleInv, BundleIsClosed
<1>7. CASE UNCHANGED allVars
  BY <1>7 DEF allVars, compileVars, run, BundleInv, BundleIsClosed
<1> QED  BY <1>1, <1>2, <1>3, <1>4, <1>5, <1>6, <1>7 DEF PublishNext, PublishStep

-----------------------------------------------------------------------------
(***************************************************************************)
(* However many sources are compiled at once, whatever is killed or fails  *)
(* in between (run_compile_sources, apply_operations): a source is marked  *)
(* on disk only if a response for it was applied in full, ...              *)
(***************************************************************************)
THEOREM OnlyAppliedIsMarked == PublishSpec => []MarkedIsApplied
<1>1. RunInv => MarkedIsApplied
  BY DEF RunInv
<1> QED  BY <1>1, AlwaysRun, PTL

(***************************************************************************)
(* ... a report has every source that was selected, and those it calls     *)
(* processed are on disk as compiled, ...                                  *)
(***************************************************************************)
THEOREM ReportsAreTrue == PublishSpec => []ReportIsTrue
<1>1. RunInv => ReportIsTrue
  BY DEF RunInv
<1> QED  BY <1>1, AlwaysRun, PTL

(***************************************************************************)
(* ... and a source whose success was accepted is not compiled again by a  *)
(* run that only does what is pending.                                     *)
(***************************************************************************)
THEOREM NothingIsRedone == PublishSpec => NoRework
<1>1. RunInv /\ [PublishNext]_allVars =>
         [\A s \in Source : job[s].at = "none" /\ job'[s].at = "work" /\ diff => s \notin succeeded]_compileVars
  BY StepStartsNoneAgain DEF StartsNoneAgain
<1> QED  BY <1>1, AlwaysRun, PTL DEF PublishSpec, NoRework

(***************************************************************************)
(* Whatever earlier runs left and --fix adds (report_and_commit), okf.json *)
(* describes a wiki in which every link is to a page: from the lint that   *)
(* decides to the writing of okf.json this run changes no page.            *)
(***************************************************************************)
THEOREM BundlesAreClosed == PublishSpec => []BundleIsClosed
<1>1. BundleInv => BundleIsClosed
  BY DEF BundleInv
<1>2. PublishSpec => []BundleInv
  BY InitRun, StepKeepsBundle, AlwaysRun, PTL DEF PublishSpec
<1> QED  BY <1>1, <1>2, PTL

(***************************************************************************)
(* As long as every run ended in a commit, the last commit is the wiki:    *)
(* what the run touched and --fix wrote is all that changed since.         *)
(***************************************************************************)
THEOREM CommitsAreWhole == PublishSpec => []CommitIsWiki
<1>1. CommitInv => CommitIsWiki
  BY DEF CommitInv
<1>2. PublishSpec => []CommitInv
  BY InitRun, StepKeepsCommit, AlwaysRun, PTL DEF PublishSpec
<1> QED  BY <1>1, <1>2, PTL
=============================================================================
