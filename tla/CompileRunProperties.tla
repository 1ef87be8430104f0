------------------------ MODULE CompileRunProperties ------------------------
(***************************************************************************)
(* What a run of compile leaves behind, however it ends.                   *)
(***************************************************************************)
EXTENDS CompileRun

(***************************************************************************)
(* A source is only marked compiled on disk when all the operations of one *)
(* of its responses were applied: "*fully* compiled without error".        *)
(***************************************************************************)
MarkedIsApplied == marked \subseteq applied

(***************************************************************************)
(* When compile returns a report, every source it selected is in it, and   *)
(* those it calls processed are on disk as compiled.                       *)
(***************************************************************************)
ReportIsTrue ==
    phase = "report" =>
        /\ queue = {}
        /\ \A s \in Source : outcome[s] = "ok" => s \in marked
        /\ ~diff => \A s \in Source : outcome[s] # "none"

(***************************************************************************)
(* "A crash/kill partway through a run leaves already-succeeded sources    *)
(* durably resumable": a source whose success was accepted in one run is   *)
(* not paid for again by a later diff-only run.                            *)
(***************************************************************************)
NoRework ==
    [][\A s \in Source :
           job[s].at = "none" /\ job'[s].at = "work" /\ diff => s \notin succeeded]_compileVars
=============================================================================
