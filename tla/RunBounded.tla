----------------------------- MODULE RunBounded -----------------------------
(***************************************************************************)
(* The bounded-concurrency runner (src/src/compiler/concurrency.rs).       *)
(*                                                                         *)
(* The caller's task is a loop with two points where it waits: for a       *)
(* permit of the semaphore and for a task of the JoinSet.  The tasks it    *)
(* spawned run beside it, on other threads.  on_result is the caller's own *)
(* code: here it answers either way, CompileRun.tla has the one that       *)
(* run_compile_sources passes.                                             *)
(***************************************************************************)
EXTENDS Naturals, Sequences, FiniteSets

CONSTANTS Items,    \* items.len()
          Limit     \* `limit`, 0 included

ASSUME ItemsAssumption == Items \in Nat
ASSUME LimitAssumption == Limit \in Nat

Item == 1..Items

Window == IF Limit = 0 THEN 1 ELSE Limit

VARIABLES pc,           \* where the caller is
          next,         \* the item `pending` yields next
          permits,      \* permits left in the semaphore
          task,         \* the task of every item
          keep,         \* keep_dispatching
          delivered     \* on_result's calls and answers, in order

runnerVars == <<pc, next, permits, task, keep, delivered>>

(***************************************************************************)
(* A task runs f, drops its permit, and only then ends, with its result in *)
(* the JoinSet; one whose f panics ends with a JoinError instead.  A slot  *)
(* of the result vector is filled iff its task is "joined".                *)
(***************************************************************************)
TaskState == {"pending", "running", "released", "ended", "panicked", "joined", "aborted"}

Spawned == {i \in Item : task[i] \in {"running", "released", "ended", "panicked"}}

RunnerInit == /\ pc = "prime"
              /\ next = 1
              /\ permits = Window
              /\ task = [i \in Item |-> "pending"]
              /\ keep = TRUE
              /\ delivered = <<>>

-----------------------------------------------------------------------------
(***************************************************************************)
(* spawn_one: waits for a permit, then spawns.                             *)
(***************************************************************************)
Spawn == /\ permits > 0
         /\ permits' = permits - 1
         /\ task' = [task EXCEPT ![next] = "running"]
         /\ next' = next + 1
         /\ UNCHANGED <<keep, delivered>>

\* Wrong on purpose: primes as many as there are permits for, not `limit`.
PrimeWhilePermits == /\ pc = "prime"
                     /\ next <= Items
                     /\ Spawn
                     /\ UNCHANGED pc

Prime == /\ pc = "prime"
         /\ next <= Items
         /\ next <= Window
         /\ Spawn
         /\ UNCHANGED pc

Primed == /\ pc = "prime"
          /\ next > Items \/ next > Window
          /\ pc' = "join"
          /\ UNCHANGED <<next, permits, task, keep, delivered>>

\* Wrong on purpose: a refused result ends the loop without its siblings'.
DeliverThenReturn(i, go) ==
    /\ pc = "join"
    /\ task[i] = "ended"
    /\ task' = [task EXCEPT ![i] = "joined"]
    /\ delivered' = Append(delivered, [item |-> i, go |-> go])
    /\ keep' = (keep /\ go)
    /\ pc' = IF ~keep' THEN "done" ELSE IF next <= Items THEN "spawn" ELSE "join"
    /\ UNCHANGED <<next, permits>>

(***************************************************************************)
(* join_next returned item i's result: on_result answers `go`, and the     *)
(* next pending item, if any, is due unless on_result ever answered no.    *)
(***************************************************************************)
Deliver(i, go) ==
    /\ pc = "join"
    /\ task[i] = "ended"
    /\ task' = [task EXCEPT ![i] = "joined"]
    /\ delivered' = Append(delivered, [item |-> i, go |-> go])
    /\ keep' = (keep /\ go)
    /\ pc' = IF keep' /\ next <= Items THEN "spawn" ELSE "join"
    /\ UNCHANGED <<next, permits>>

Respawn == /\ pc = "spawn"
           /\ Spawn
           /\ pc' = "join"

(***************************************************************************)
(* join_next returned a JoinError: expect panics, and dropping the JoinSet *)
(* aborts the tasks still in it, each at its next await.                   *)
(***************************************************************************)
Collapse(i) == /\ pc = "join"
               /\ task[i] = "panicked"
               /\ pc' = "panicked"
               /\ UNCHANGED <<next, permits, task, keep, delivered>>

Return == /\ pc = "join"
          /\ Spawned = {}
          /\ pc' = "done"
          /\ UNCHANGED <<next, permits, task, keep, delivered>>

-----------------------------------------------------------------------------
Task(i, from, to) == /\ task[i] = from
                     /\ task' = [task EXCEPT ![i] = to]
                     /\ UNCHANGED <<pc, next, keep, delivered>>

\* Wrong on purpose: the permit stays with the result.
KeepPermit(i) == Task(i, "running", "released") /\ UNCHANGED permits

Release(i) == Task(i, "running", "released") /\ permits' = permits + 1

End(i) == Task(i, "released", "ended") /\ UNCHANGED permits

PanicTask(i) == Task(i, "running", "panicked") /\ permits' = permits + 1

Abort(i) == /\ pc = "panicked"
            /\ Task(i, "running", "aborted")
            /\ permits' = permits + 1

Caller == \/ Prime \/ Primed \/ Respawn \/ Return
          \/ \E i \in Item : Collapse(i) \/ \E go \in BOOLEAN : Deliver(i, go)

Runtime == \E i \in Item : Release(i) \/ End(i) \/ PanicTask(i) \/ Abort(i)

RunnerNext == Caller \/ Runtime

RunnerSpec == RunnerInit /\ [][RunnerNext]_runnerVars

-----------------------------------------------------------------------------
RunnerTypeOK == /\ pc \in {"prime", "join", "spawn", "done", "panicked"}
                /\ next \in 1..(Items + 1)
                /\ permits \in 0..Window
                /\ task \in [Item -> TaskState]
                /\ keep \in BOOLEAN
                /\ delivered \in Seq([item : Item, go : BOOLEAN])

DeliveredItems == {delivered[k].item : k \in 1..Len(delivered)}

(***************************************************************************)
(* "at most `limit` tasks are ever spawned at once": those whose result    *)
(* the caller has not had yet are at most `limit`, the ones that already   *)
(* gave their permit back included.                                        *)
(***************************************************************************)
BoundedInFlight == Cardinality(Spawned) <= Window

(***************************************************************************)
(* "A permit just freed up": whenever the caller is about to spawn there   *)
(* is a permit for it, so the loop never waits for one while results pile  *)
(* up behind it.                                                           *)
(***************************************************************************)
PermitAtHand == pc = "spawn" \/ (pc = "prime" /\ next <= Window) => permits > 0

(***************************************************************************)
(* on_result is invoked "once per item", for exactly the tasks that were   *)
(* joined, and on return for every task that was spawned: for every item,  *)
(* unless on_result refused one.                                           *)
(***************************************************************************)
EachOnce ==
    /\ \A j, k \in 1..Len(delivered) : delivered[j].item = delivered[k].item => j = k
    /\ DeliveredItems = {i \in Item : task[i] = "joined"}
    /\ pc = "done" => /\ DeliveredItems = 1..(next - 1)
                      /\ keep => next = Items + 1

(***************************************************************************)
(* After on_result answered no, "up to `limit - 1` already in-flight       *)
(* siblings may still complete afterward", and no more than those.         *)
(***************************************************************************)
FailFast == \A k \in 1..Len(delivered) :
                ~delivered[k].go => Len(delivered) - k <= Window - 1

\* Both: what the caller was told, and when it stopped being told.
OncePerItem == EachOnce /\ FailFast

(***************************************************************************)
(* At limit 1, and at limit 0, the caller sees "byte-for-byte" what a      *)
(* plain for loop shows it.  Only claimed of a Window of 1.                *)
(***************************************************************************)
Loop == INSTANCE ForLoop
            WITH log <- delivered,
                 outcome <- IF pc \in {"done", "panicked"} THEN pc ELSE "running"

IsForLoop == Loop!Spec

(***************************************************************************)
(* run_bounded, once it has spawned a task, returns or panics.             *)
(***************************************************************************)
Ends == []<>((\E i \in Item : task[i] # "pending") => pc \in {"done", "panicked"})
=============================================================================
