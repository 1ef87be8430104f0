----------------------------- MODULE Synthesize -----------------------------
(***************************************************************************)
(* Client-driven synthesis: okf-synthesize-next hands out jobs, the client *)
(* answers them with its own LLM and okf-synthesize-submit applies the     *)
(* answers (src/src/core/mcp_server.rs, next_batch in                      *)
(* src/src/compiler/synthesize.rs).  The tool calls of a session run       *)
(* beside each other; the map of pending jobs is all they share in memory, *)
(* and it is locked for a look or a change, not across a call.             *)
(*                                                                         *)
(* The sources' contents stay as they are here, and of the manifest only   *)
(* its marks are kept; Vault.tla has the contents change between the two   *)
(* calls.                                                                  *)
(***************************************************************************)
EXTENDS Wiki, SequencesExt

CONSTANTS
    Call,           \* the tool calls a client has under way at once
    BatchSize,      \* batch_size, clamped to 1..50
    Diff,           \* the diff argument, by default TRUE
    Cap,            \* SYNTHESIZE_JOB_CAP
    MaxJobs,        \* bound: no more jobs are asked for when so many were numbered,
    StartOver,      \*   and whether the numbers start over when none is in use
    MaxExpiries,    \* bound: how often jobs pass SYNTHESIZE_JOB_TTL
    Faults,         \* whether what is submitted may fail to apply
    Unreadable,     \* sources whose raw blob cannot be read
    Answers,        \* what a client may submit for a source: sequences of Op
    FixAnswers      \* what it may submit for a missing page

ASSUME JobAssumption == BatchSize \in 1..50 /\ Cap \in Nat /\ MaxJobs \in Nat /\ StartOver \in BOOLEAN
\* Slugs are taken in order; a file system has only so many paths.
ASSUME PageAssumption == Page \subseteq Nat /\ IsFiniteSet(Page)
ASSUME AnswersAssumption ==
    /\ Faults \in BOOLEAN /\ Diff \in BOOLEAN /\ Unreadable \subseteq Source
    /\ \A s \in Source : Answers[s] \subseteq Seq(Op)
    /\ \A p \in Page : FixAnswers[p] \subseteq Seq(Op)

VARIABLES
    counter,    \* synthesize_job_counter: the number of the next job
    jobs,       \* synthesize_jobs, oldest first
    old,        \* how many of them have passed the TTL
    expiries,   \* how often that happened
    call,       \* every tool call: where it is and what it holds
    handed,     \* the jobs the client was handed and has not settled
    wiki,       \* the pages
    marked,     \* sources the manifest marks as compiled
    answered    \* history: sources an answer made for them was applied in full

map == <<jobs, old>>
vault == <<wiki, marked, answered>>
vars == <<counter, map, expiries, call, handed, vault>>

Job == [id : Nat, kind : {"compile", "fix"}, of : Source \cup Page]

Idle == [at |-> "idle"]

Init == /\ counter = 1
        /\ jobs = <<>>
        /\ old = 0
        /\ expiries = 0
        /\ call = [c \in Call |-> Idle]
        /\ handed = {}
        /\ wiki = NoPage
        /\ marked = {}
        /\ answered = {}

-----------------------------------------------------------------------------
Age == /\ old < Len(jobs)
       /\ expiries < MaxExpiries
       /\ expiries' = expiries + 1
       /\ old' \in (old + 1)..Len(jobs)
       /\ UNCHANGED <<counter, jobs, call, handed, vault>>

(***************************************************************************)
(* evict_stale_and_excess_synthesize_jobs: those past the TTL, then the    *)
(* oldest until Cap are left.                                              *)
(***************************************************************************)
\* Wrong on purpose: a map with Cap jobs is full already.
KeptBelowCap == LET dropped == Max({old, Len(jobs) - Cap + 1})
                IN  SubSeq(jobs, dropped + 1, Len(jobs))

Kept == LET dropped == Max({old, Len(jobs) - Cap})
        IN  SubSeq(jobs, dropped + 1, Len(jobs))

Evict == jobs' = Kept /\ old' = 0

\* The jobs that somebody still has: the map, the client, a call under way.
HeldBy(c) == CASE call[c].at = "idle" -> {}
               [] call[c].at = "next" -> ToSet(call[c].batch)
               [] OTHER               -> ToSet(call[c].left)

Live == ToSet(jobs) \cup handed \cup UNION {HeldBy(c) : c \in Call}

\* The least BatchSize members.
FirstOf(S) == {x \in S : Cardinality({y \in S : y < x}) < BatchSize}

Pending == IF Diff THEN Source \ (Referenced(wiki) \cup marked) ELSE Source

Gone == {l[2] : l \in BrokenLinks(wiki)}

\* Some page that links to p cites a source.
Grounded(p) == \E l \in BrokenLinks(wiki) : l[2] = p /\ wiki[l[1]].cites # {}

(***************************************************************************)
(* next_batch: pending sources first, then missing pages; those without a  *)
(* source to ground them in are "skipped", after the batch was cut.  One   *)
(* source that cannot be read fails the call.                              *)
(***************************************************************************)
Targets == IF Pending # {} THEN FirstOf(Pending) ELSE {p \in FirstOf(Gone) : Grounded(p)}

Phase == IF Pending # {} THEN "compile" ELSE IF Gone # {} THEN "fix" ELSE "done"

NextBatch(c) ==
    /\ call[c] = Idle
    /\ counter <= MaxJobs \/ (StartOver /\ Live = {})
    /\ counter' = IF StartOver /\ Live = {} THEN 1 ELSE counter
    /\ FirstOf(Pending) \cap Unreadable = {}
    /\ call' = [call EXCEPT ![c] = [at |-> "next", phase |-> Phase, todo |-> SetToSortSeq(Targets, <),
                                       batch |-> <<>>, older |-> ToSet(jobs)]]
    /\ UNCHANGED <<map, expiries, handed, vault>>

(***************************************************************************)
(* next_job_id: fetch_add on the counter all calls of the session share.   *)
(***************************************************************************)
Numbered(c, number) ==
    /\ call[c].at = "next" /\ call[c].todo # <<>>
    /\ call' = [call EXCEPT ![c] =
                  [at |-> "next", phase |-> @.phase, todo |-> Tail(@.todo), older |-> @.older,
                   batch |-> Append(@.batch, [id |-> number, kind |-> @.phase, of |-> Head(@.todo)])]]
    /\ UNCHANGED <<map, expiries, handed, vault>>

\* Wrong on purpose: the number is taken from how many jobs the map has.
MintBySize(c) == Numbered(c, Len(jobs) + 1) /\ UNCHANGED counter

Mint(c) == Numbered(c, counter) /\ counter' = counter + 1

(***************************************************************************)
(* The map is locked, evicted from, inserted into; the jobs are answered.  *)
(* They date from when they were made: those inserted since may be younger.*)
(***************************************************************************)
Insert(c) ==
    /\ call[c].at = "next" /\ call[c].todo = <<>>
    /\ \E n \in 0..Len(Kept) :
          /\ ToSet(SubSeq(Kept, n + 1, Len(Kept))) \cap call[c].older = {}
          /\ jobs' = SubSeq(Kept, 1, n) \o call[c].batch \o SubSeq(Kept, n + 1, Len(Kept))
    /\ old' = 0
    /\ handed' = handed \cup ToSet(call[c].batch)
    /\ call' = [call EXCEPT ![c] = Idle]
    /\ UNCHANGED <<counter, expiries, vault>>

-----------------------------------------------------------------------------
(***************************************************************************)
(* A call submits results for some of the jobs; the same ones may be in    *)
(* another call too.  What they are is chosen when their job is looked up. *)
(***************************************************************************)
Submit(c, results) ==
    /\ call[c] = Idle
    /\ results # {}
    /\ call' = [call EXCEPT ![c] = [at |-> "lookup", left |-> SetToSeq(results)]]
    /\ UNCHANGED <<counter, map, expiries, handed, vault>>

Result(c) == Head(call[c].left)

Done(c) == call' = [call EXCEPT ![c] = IF Len(@.left) = 1 THEN Idle
                                       ELSE [at |-> "lookup", left |-> Tail(@.left)]]

AnswersTo(j) == IF j.kind = "compile" THEN Answers[j.of] ELSE FixAnswers[j.of]

Lookup(c) ==
    /\ call[c].at = "lookup"
    /\ Evict
    /\ \/ \E j \in ToSet(Kept), ops \in AnswersTo(Result(c)) :
             /\ j.id = Result(c).id
             /\ call' = [call EXCEPT ![c] = [at |-> "apply", left |-> @.left, job |-> j, ops |-> ops]]
             /\ UNCHANGED handed
       \/ /\ \A j \in ToSet(Kept) : j.id # Result(c).id
          /\ Done(c)
          /\ handed' = handed \ {Result(c)}
    /\ UNCHANGED <<counter, expiries, vault>>

SourceOf(j) == IF j.kind = "compile" THEN {j.of} ELSE {}

ApplyOperation(c) ==
    /\ call[c].at = "apply" /\ call[c].ops # <<>>
    /\ wiki' = Performed(wiki, Head(call[c].ops))
    /\ call' = [call EXCEPT ![c] = [at |-> "apply", left |-> @.left, job |-> @.job, ops |-> Tail(@.ops)]]
    /\ UNCHANGED <<counter, map, expiries, handed, marked, answered>>

(***************************************************************************)
(* All of them are applied.  The manifest is loaded, marked and saved      *)
(* whole, so that marks another call saves in between are lost.            *)
(***************************************************************************)
LoadManifest(c) ==
    /\ call[c].at = "apply" /\ call[c].ops = <<>>
    /\ answered' = answered \cup SourceOf(Result(c))
    /\ call' = [call EXCEPT ![c] =
                  IF call[c].job.kind = "compile"
                  THEN [at |-> "save", left |-> @.left, job |-> @.job,
                        manifest |-> marked \cup SourceOf(@.job)]
                  ELSE [at |-> "remove", left |-> @.left, job |-> @.job]]
    /\ UNCHANGED <<counter, map, expiries, handed, wiki, marked>>

SaveManifest(c) ==
    /\ call[c].at = "save"
    /\ marked' = call[c].manifest
    /\ call' = [call EXCEPT ![c] = [at |-> "remove", left |-> @.left, job |-> @.job]]
    /\ UNCHANGED <<counter, map, expiries, handed, wiki, answered>>

(***************************************************************************)
(* An operation, or the manifest, fails: the job is left in the map.       *)
(***************************************************************************)
ApplyFails(c) ==
    /\ Faults
    /\ \/ call[c].at = "apply" /\ (call[c].ops # <<>> \/ call[c].job.kind = "compile")
       \/ call[c].at = "save"
    /\ Done(c)
    /\ UNCHANGED <<counter, map, expiries, handed, vault>>

(***************************************************************************)
(* "applied": the lock is taken again to remove the job.                   *)
(***************************************************************************)
Settle(c) ==
    /\ call[c].at = "remove"
    /\ \/ \E k \in 1..Len(jobs) :
             /\ jobs[k].id = Result(c).id
             /\ jobs' = RemoveAt(jobs, k)
             /\ old' = IF k <= old THEN old - 1 ELSE old
       \/ /\ \A k \in 1..Len(jobs) : jobs[k].id # Result(c).id
          /\ UNCHANGED map
    /\ handed' = handed \ {Result(c)}
    /\ Done(c)
    /\ UNCHANGED <<counter, expiries, vault>>

Server(c) == \/ Mint(c) \/ Insert(c)
             \/ Lookup(c) \/ ApplyOperation(c) \/ LoadManifest(c) \/ SaveManifest(c)
             \/ ApplyFails(c) \/ Settle(c)

Next == \/ Age
        \/ \E c \in Call : \/ NextBatch(c)
                           \/ \E results \in SUBSET handed : Submit(c, results)
                           \/ Server(c)

Spec == Init /\ [][Next]_vars
=============================================================================
