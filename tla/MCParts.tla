------------------------------ MODULE MCParts -------------------------------
(***************************************************************************)
(* Components that share no state, checked in one run: which of them a     *)
(* behaviour is about is chosen at its start, and the others stand still   *)
(* in an initial state.                                                    *)
(*   "runner"   run_bounded on a few items;                                *)
(*   "writer"   one file, two writers, as many inodes as can be in use;    *)
(*   "breaker"  two tasks that share a client;                             *)
(*   "fetch"    the calls of one process;                                  *)
(*   "jobs"     synthesis of one source, answered with nothing or with a   *)
(*              page that links to another, which is answered with itself. *)
(***************************************************************************)
EXTENDS RunBounded, SafeWrite, Fetch, SynthesizeProperties

CONSTANT Parts

Write(p, cites, links) == [page |-> p, content |-> [cites |-> cites, links |-> links]]

MCAnswers == [s \in Source |-> {<<>>, <<Write(1, {s}, {2}), Write(2, {}, {1})>>}]

MCFixAnswers == [p \in Page |-> {<<Write(p, {1}, {})>>}]

VARIABLE part

partsVars == <<part, runnerVars, writeVars, breakerVars, fetchVars, vars>>

AtRest == process = "stdio" /\ exported = NoPat /\ savedPat = NoPat

PartsInit ==
    /\ part \in Parts
    /\ RunnerInit /\ WriteInit /\ BreakerInit
    /\ FetchInit /\ (part # "fetch" => AtRest)
    /\ Init

PartsNext ==
    /\ UNCHANGED part
    /\ \/ /\ part = "runner" /\ RunnerNext
          /\ UNCHANGED <<writeVars, breakerVars, fetchVars, vars>>
       \/ /\ part = "writer" /\ WriteNext
          /\ UNCHANGED <<runnerVars, breakerVars, fetchVars, vars>>
       \/ /\ part = "breaker" /\ BreakerNext
          /\ UNCHANGED <<runnerVars, writeVars, fetchVars, vars>>
       \/ /\ part = "fetch" /\ FetchNext
          /\ UNCHANGED <<runnerVars, writeVars, breakerVars, vars>>
       \/ /\ part = "jobs" /\ Next
          /\ UNCHANGED <<runnerVars, writeVars, breakerVars, fetchVars>>

(***************************************************************************)
(* The fairness of a part asks nothing of the others.                      *)
(*                                                                         *)
(* The runtime polls a task that can run.  That a running f ends at all is *)
(* up to f: the only one the program passes waits for an LLM request with a*)
(* timeout.                                                                *)
(***************************************************************************)
RunnerFairness ==
    /\ WF_runnerVars(part = "runner" /\ Caller)
    /\ \A i \in Item : /\ WF_runnerVars(part = "runner" /\ Release(i))
                       /\ WF_runnerVars(part = "runner" /\ End(i))

\* A call that has the lock goes on: reqwest has a timeout for each send.
FetchFairness == \A c \in Ingest : WF_fetchVars(part = "fetch" /\ Proceed(c))

(***************************************************************************)
(* Tool calls end.  The client does as it is told: it keeps asking for     *)
(* more and keeps submitting what it has; and not everything it submits    *)
(* fails to be applied.                                                    *)
(***************************************************************************)
SomeCallIs(at) == \E c \in Call : call[c].at = at

JobsFairness ==
    /\ \A c \in Call : WF_vars(part = "jobs" /\ Server(c))
    /\ SF_vars(part = "jobs" /\ \E c \in Call : NextBatch(c))
    /\ SF_vars(part = "jobs" /\ \E c \in Call : Submit(c, handed))
    /\ []<>SomeCallIs("apply") => []<>SomeCallIs("remove")

PartsSpec ==
    /\ PartsInit /\ [][PartsNext]_partsVars
    /\ RunnerFairness /\ FetchFairness /\ JobsFairness

-----------------------------------------------------------------------------
(***************************************************************************)
(* Synthesis comes to "done" where it is what a behaviour is about.        *)
(***************************************************************************)
JobsReachDone == []<>(part = "jobs") => ReachesDone
=============================================================================
