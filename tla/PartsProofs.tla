---------------------------- MODULE PartsProofs ----------------------------
(***************************************************************************)
(* What is proved of the components that share no state with others: the   *)
(* runner of bounded concurrency, the replacement of a file, the prompt    *)
(* within its budget, and which secrets leave the process: the key that a  *)
(* request to a model provider carries (Provider), the token that a scrape *)
(* carries (Fetch), and what holds a scrape back (CircuitBreaker).  One    *)
(* section each, for any values of their constants.                        *)
(***************************************************************************)
EXTENDS RunBounded, SafeWrite, PromptBudget, Provider, Fetch, FiniteSetTheorems, TLAPS

-----------------------------------------------------------------------------
(***************************************************************************)
(* The promises of run_bounded, proved for any number of items and any     *)
(* limit.  The tasks the caller has not had back yet are counted: spawning *)
(* one adds to the count, only a delivery takes from it, and the caller    *)
(* never spawns without one of the two being due.                          *)
(***************************************************************************)
Holding == {i \in Item : task[i] = "running"}

InTurn == \A i \in Item : task[i] = "pending" <=> next <= i

Phases ==
    /\ pc \in {"prime", "spawn"} => keep
    /\ pc = "prime" => /\ delivered = <<>>
                       /\ next <= Window + 1
                       /\ \A i \in Item : task[i] # "joined"
    /\ pc = "spawn" => next <= Items
    /\ pc # "panicked" => \A i \in Item : task[i] # "aborted"
    /\ pc = "join" /\ keep /\ next <= Items => Spawned # {}
    /\ pc = "done" => Spawned = {} /\ (keep => next = Items + 1)

Counted ==
    /\ Cardinality(Holding) + permits = Window
    /\ Cardinality(Spawned) <= Window
    /\ pc = "spawn" => Cardinality(Spawned) <= Window - 1
    /\ pc = "prime" => Cardinality(Spawned) <= next - 1

Distinct == \A j, k \in 1..Len(delivered) : delivered[j].item = delivered[k].item => j = k

Joined == \A i \in Item : task[i] = "joined" <=> \E k \in 1..Len(delivered) : delivered[k].item = i

KeepIsNoRefusal == keep <=> \A k \in 1..Len(delivered) : delivered[k].go

Refusals ==
    \A k \in 1..Len(delivered) :
        ~delivered[k].go => Len(delivered) - k + Cardinality(Spawned) <= Window - 1

BoundedInv == /\ RunnerTypeOK
              /\ InTurn
              /\ Phases
              /\ Counted
              /\ Distinct
              /\ Joined
              /\ KeepIsNoRefusal
              /\ Refusals

-----------------------------------------------------------------------------
LEMMA WindowFacts == Window \in Nat /\ Window >= 1
BY LimitAssumption DEF Window

LEMMA Counting ==
    ASSUME NEW S, S \subseteq Item
    PROVE  /\ IsFiniteSet(S)
           /\ Cardinality(S) \in Nat
           /\ S = {} <=> Cardinality(S) = 0
           /\ \A x \in Item : x \notin S => Cardinality(S \cup {x}) = Cardinality(S) + 1
           /\ \A x \in S : Cardinality(S \ {x}) = Cardinality(S) - 1
           /\ \A T : T \subseteq S => Cardinality(T) <= Cardinality(S)
<1>1. IsFiniteSet(Item)
  BY FS_Interval, ItemsAssumption DEF Item
<1>2. IsFiniteSet(S)
  BY <1>1, FS_Subset
<1> QED
  BY <1>2, FS_CardinalityType, FS_EmptySet, FS_AddElement, FS_RemoveElement, FS_Subset

LEMMA Appending ==
    ASSUME NEW s \in Seq([item : Item, go : BOOLEAN]),
           NEW i \in Item, NEW go \in BOOLEAN,
           NEW t, t = Append(s, [item |-> i, go |-> go])
    PROVE  /\ t \in Seq([item : Item, go : BOOLEAN])
           /\ Len(t) = Len(s) + 1
           /\ Len(s) \in Nat
           /\ \A k \in 1..Len(s) : t[k] = s[k]
           /\ t[Len(s) + 1].item = i /\ t[Len(s) + 1].go = go
OBVIOUS

LEMMA InitBounded == RunnerInit => BoundedInv
<1> SUFFICES ASSUME RunnerInit PROVE BoundedInv
  OBVIOUS
<1> USE DEF RunnerInit
<1>1. Holding = {} /\ Spawned = {}
  BY DEF Holding, Spawned
<1>2. Cardinality({}) = 0
  BY FS_EmptySet
<1>3. RunnerTypeOK
  BY WindowFacts, ItemsAssumption DEF RunnerTypeOK, TaskState
<1>4. InTurn /\ Phases /\ Counted
  BY <1>1, <1>2, WindowFacts, ItemsAssumption DEF InTurn, Phases, Counted, Item
<1>5. Distinct /\ Joined /\ KeepIsNoRefusal /\ Refusals
  BY DEF Distinct, Joined, KeepIsNoRefusal, Refusals
<1> QED
  BY <1>3, <1>4, <1>5 DEF BoundedInv

(***************************************************************************)
(* The two steps that spawn.                                               *)
(***************************************************************************)
LEMMA SpawnKeeps ==
    ASSUME BoundedInv, Spawn, next <= Items,
           \/ pc = "prime" /\ next <= Window /\ pc' = "prime"
           \/ pc = "spawn" /\ pc' = "join"
    PROVE  BoundedInv'
<1> USE DEF BoundedInv
<1> USE WindowFacts, ItemsAssumption
<1>1. next \in Item /\ task[next] = "pending"
  BY DEF RunnerTypeOK, Item, InTurn
<1>2. /\ task' = [task EXCEPT ![next] = "running"]
      /\ permits > 0 /\ permits' = permits - 1 /\ next' = next + 1
      /\ keep' = keep /\ delivered' = delivered
  BY DEF Spawn
<1>3. Spawned' = Spawned \cup {next} /\ next \notin Spawned
  BY <1>1, <1>2 DEF Spawned, RunnerTypeOK
<1>4. Holding' = Holding \cup {next} /\ next \notin Holding
  BY <1>1, <1>2 DEF Holding, RunnerTypeOK
<1>5. /\ Cardinality(Spawned') = Cardinality(Spawned) + 1
      /\ Cardinality(Spawned) \in Nat
  BY <1>1, <1>3, Counting DEF Spawned
<1>6. /\ Cardinality(Holding') = Cardinality(Holding) + 1
      /\ Cardinality(Holding) \in Nat
  BY <1>1, <1>4, Counting DEF Holding
<1>7. RunnerTypeOK'
  BY <1>1, <1>2 DEF RunnerTypeOK, TaskState
<1>8. InTurn'
  BY <1>1, <1>2 DEF InTurn, RunnerTypeOK, Item
<1>9. Phases'
  BY <1>1, <1>2, <1>3 DEF Phases, RunnerTypeOK
<1>10. Counted'
  BY <1>2, <1>5, <1>6 DEF Counted, RunnerTypeOK
<1>11. Distinct' /\ KeepIsNoRefusal'
  BY <1>2 DEF Distinct, KeepIsNoRefusal
<1>12. Joined'
  BY <1>1, <1>2 DEF Joined, RunnerTypeOK
<1>13. \A k \in 1..Len(delivered) : delivered[k].go
  BY DEF Phases, KeepIsNoRefusal
<1>14. Refusals'
  BY <1>2, <1>13 DEF Refusals
<1> QED
  BY <1>7, <1>8, <1>9, <1>10, <1>11, <1>12, <1>14

(***************************************************************************)
(* A delivery.                                                             *)
(***************************************************************************)
LEMMA DeliverKeeps ==
    ASSUME BoundedInv, NEW i \in Item, NEW go \in BOOLEAN, Deliver(i, go)
    PROVE  BoundedInv'
<1> USE DEF BoundedInv
<1> USE WindowFacts, ItemsAssumption
<1> DEFINE n == Len(delivered)
<1>1. /\ pc = "join" /\ task[i] = "ended"
      /\ task' = [task EXCEPT ![i] = "joined"]
      /\ delivered' = Append(delivered, [item |-> i, go |-> go])
      /\ keep' = (keep /\ go)
      /\ pc' = IF keep' /\ next <= Items THEN "spawn" ELSE "join"
      /\ permits' = permits /\ next' = next
  BY DEF Deliver
<1>2. delivered \in Seq([item : Item, go : BOOLEAN])
  BY DEF RunnerTypeOK
<1>3. /\ delivered' \in Seq([item : Item, go : BOOLEAN])
      /\ Len(delivered') = n + 1
      /\ n \in Nat
      /\ \A k \in 1..n : delivered'[k] = delivered[k]
      /\ delivered'[n + 1].item = i /\ delivered'[n + 1].go = go
  BY <1>1, <1>2, Appending
<1>4. Spawned' = Spawned \ {i} /\ i \in Spawned
  BY <1>1 DEF Spawned, RunnerTypeOK
<1>5. Holding' = Holding
  BY <1>1 DEF Holding, RunnerTypeOK
<1>6. /\ Cardinality(Spawned') = Cardinality(Spawned) - 1
      /\ Cardinality(Spawned) \in Nat
      /\ Cardinality(Spawned') \in Nat
  BY <1>4, Counting DEF Spawned
<1>7. ~ \E k \in 1..n : delivered[k].item = i
  BY <1>1 DEF Joined
<1>8. RunnerTypeOK'
  BY <1>1, <1>3 DEF RunnerTypeOK, TaskState
<1>9. InTurn'
  BY <1>1 DEF InTurn, RunnerTypeOK
<1>10. Phases'
  <2>1. keep' \in BOOLEAN /\ pc' \in {"join", "spawn"}
    BY <1>1 DEF RunnerTypeOK
  <2>2. pc' = "spawn" => keep' /\ next' <= Items
    BY <1>1
  <2>3. ~ (pc' = "join" /\ keep' /\ next' <= Items)
    BY <1>1
  <2>4. \A j \in Item : task'[j] # "aborted"
    BY <1>1 DEF Phases, RunnerTypeOK
  <2> QED
    BY <2>1, <2>2, <2>3, <2>4 DEF Phases
<1>11. Counted'
  <2>1. pc' \in {"join", "spawn"}
    BY <1>1
  <2> QED
    BY <1>1, <1>5, <1>6, <2>1 DEF Counted
<1>12. Distinct'
  BY <1>3, <1>7 DEF Distinct
<1>13. Joined'
  BY <1>1, <1>3 DEF Joined, RunnerTypeOK
<1>14. KeepIsNoRefusal'
  <2>1. (\A k \in 1..(n + 1) : delivered'[k].go) <=> ((\A k \in 1..n : delivered[k].go) /\ go)
    BY <1>3
  <2> QED
    BY <1>1, <1>3, <2>1 DEF KeepIsNoRefusal
<1>15. Refusals'
  <2> SUFFICES ASSUME NEW k \in 1..(n + 1), ~ delivered'[k].go
               PROVE  n + 1 - k + Cardinality(Spawned') <= Window - 1
    BY <1>3 DEF Refusals
  <2>1. CASE k = n + 1
    BY <1>3, <1>6, <2>1 DEF Counted
  <2>2. CASE k \in 1..n
    BY <1>3, <1>6, <2>2 DEF Refusals
  <2> QED
    BY <1>3, <2>1, <2>2
<1> QED
  BY <1>8, <1>9, <1>10, <1>11, <1>12, <1>13, <1>14, <1>15

(***************************************************************************)
(* Steps of a task that the caller does not see: it stays spawned.         *)
(***************************************************************************)
LEMMA TaskKeeps ==
    ASSUME BoundedInv, NEW i \in Item, NEW from, NEW to, Task(i, from, to),
           from \in {"running", "released"},
           to \in {"released", "ended", "panicked"},
           IF from = "running" THEN permits' = permits + 1 ELSE permits' = permits
    PROVE  BoundedInv'
<1> USE DEF BoundedInv
<1> USE WindowFacts, ItemsAssumption
<1>1. /\ task[i] = from /\ task' = [task EXCEPT ![i] = to]
      /\ pc' = pc /\ next' = next /\ keep' = keep /\ delivered' = delivered
  BY DEF Task
<1>2. Spawned' = Spawned
  BY <1>1 DEF Spawned, RunnerTypeOK
<1>3. Holding' = IF from = "running" THEN Holding \ {i} ELSE Holding
  BY <1>1 DEF Holding, RunnerTypeOK
<1>4. from = "running" => i \in Holding
  BY <1>1 DEF Holding
<1>5. /\ Cardinality(Holding) \in Nat
      /\ from = "running" => Cardinality(Holding') = Cardinality(Holding) - 1
      /\ from # "running" => Cardinality(Holding') = Cardinality(Holding)
      /\ Cardinality(Holding') \in Nat
  BY <1>3, <1>4, Counting DEF Holding
<1>6. RunnerTypeOK'
  BY <1>1, <1>5 DEF RunnerTypeOK, TaskState, Counted
<1>7. InTurn' /\ Joined'
  BY <1>1 DEF InTurn, Joined, RunnerTypeOK
<1>8. Phases'
  BY <1>1, <1>2 DEF Phases, RunnerTypeOK
<1>9. Counted'
  BY <1>1, <1>2, <1>5 DEF Counted, RunnerTypeOK
<1>10. Distinct' /\ KeepIsNoRefusal'
  BY <1>1 DEF Distinct, KeepIsNoRefusal
<1>11. Refusals'
  BY <1>1, <1>2 DEF Refusals
<1> QED
  BY <1>6, <1>7, <1>8, <1>9, <1>10, <1>11

LEMMA AbortKeeps ==
    ASSUME BoundedInv, NEW i \in Item, Abort(i)
    PROVE  BoundedInv'
<1> USE DEF BoundedInv
<1> USE WindowFacts, ItemsAssumption
<1>1. /\ pc = "panicked" /\ task[i] = "running" /\ task' = [task EXCEPT ![i] = "aborted"]
      /\ pc' = pc /\ next' = next /\ keep' = keep /\ delivered' = delivered
      /\ permits' = permits + 1
  BY DEF Abort, Task
<1>2. Spawned' = Spawned \ {i} /\ i \in Spawned
  BY <1>1 DEF Spawned, RunnerTypeOK
<1>3. Holding' = Holding \ {i} /\ i \in Holding
  BY <1>1 DEF Holding, RunnerTypeOK
<1>4. /\ Cardinality(Spawned') = Cardinality(Spawned) - 1
      /\ Cardinality(Spawned) \in Nat
      /\ Cardinality(Spawned') \in Nat
  BY <1>2, Counting DEF Spawned
<1>5. /\ Cardinality(Holding') = Cardinality(Holding) - 1
      /\ Cardinality(Holding) \in Nat
      /\ Cardinality(Holding') \in Nat
  BY <1>3, Counting DEF Holding
<1>6. RunnerTypeOK'
  BY <1>1, <1>5 DEF RunnerTypeOK, TaskState, Counted
<1>7. InTurn' /\ Joined'
  BY <1>1 DEF InTurn, Joined, RunnerTypeOK
<1>8. Phases' /\ Counted'
  BY <1>1, <1>4, <1>5 DEF Phases, Counted, RunnerTypeOK
<1>9. Distinct' /\ KeepIsNoRefusal'
  BY <1>1 DEF Distinct, KeepIsNoRefusal
<1>10. Len(delivered) \in Nat
  BY DEF RunnerTypeOK
<1>11. Refusals'
  BY <1>1, <1>4, <1>10 DEF Refusals
<1> QED
  BY <1>6, <1>7, <1>8, <1>9, <1>11

(***************************************************************************)
(* Steps of the caller alone.                                              *)
(***************************************************************************)
LEMMA CallerKeeps ==
    ASSUME BoundedInv, UNCHANGED <<next, permits, task, keep, delivered>>,
           \/ Primed
           \/ Return
           \/ \E i \in Item : Collapse(i)
    PROVE  BoundedInv'
<1> USE DEF BoundedInv
<1> USE WindowFacts, ItemsAssumption
<1>1. Spawned' = Spawned /\ Holding' = Holding
  BY DEF Spawned, Holding
<1>2. pc' \in {"join", "done", "panicked"}
  BY DEF Primed, Return, Collapse
<1>3. RunnerTypeOK' /\ InTurn' /\ Distinct' /\ Joined' /\ KeepIsNoRefusal' /\ Refusals' /\ Counted'
  BY <1>1, <1>2 DEF RunnerTypeOK, InTurn, Distinct, Joined, KeepIsNoRefusal, Refusals, Counted
<1>4. Phases'
  <2>1. CASE Primed
    <3>1. pc = "prime" /\ pc' = "join" /\ (next > Items \/ next > Window)
      BY <2>1 DEF Primed
    <3>2. ASSUME next <= Items PROVE 1 \in Spawned
      <4>1. 1 \in Item /\ 1 < next
        BY <3>1, <3>2 DEF Item, RunnerTypeOK
      <4>2. task[1] # "pending" /\ task[1] # "joined" /\ task[1] # "aborted"
        BY <3>1, <4>1 DEF InTurn, Phases, RunnerTypeOK
      <4> QED
        BY <4>1, <4>2 DEF Spawned, RunnerTypeOK, TaskState
    <3> QED
      BY <1>1, <3>1, <3>2 DEF Phases
  <2>2. CASE Return
    BY <1>1, <2>2 DEF Return, Phases, RunnerTypeOK
  <2>3. CASE \E i \in Item : Collapse(i)
    BY <1>1, <2>3 DEF Collapse, Phases
  <2> QED
    BY <2>1, <2>2, <2>3
<1> QED
  BY <1>3, <1>4

LEMMA RunnerStepKeeps == BoundedInv /\ [RunnerNext]_runnerVars => BoundedInv'
<1> SUFFICES ASSUME BoundedInv, [RunnerNext]_runnerVars PROVE BoundedInv'
  OBVIOUS
<1>1. CASE Prime
  BY <1>1, SpawnKeeps DEF Prime
<1>2. CASE Respawn
  BY <1>2, SpawnKeeps DEF Respawn, BoundedInv, Phases
<1>3. CASE Primed \/ Return \/ \E i \in Item : Collapse(i)
  BY <1>3, CallerKeeps DEF Primed, Return, Collapse
<1>4. CASE \E i \in Item : \E go \in BOOLEAN : Deliver(i, go)
  BY <1>4, DeliverKeeps
<1>5. ASSUME NEW i \in Item, Release(i) PROVE BoundedInv'
  BY <1>5, TaskKeeps DEF Release
<1>6. ASSUME NEW i \in Item, End(i) PROVE BoundedInv'
  BY <1>6, TaskKeeps DEF End
<1>7. ASSUME NEW i \in Item, PanicTask(i) PROVE BoundedInv'
  BY <1>7, TaskKeeps DEF PanicTask
<1>8. CASE \E i \in Item : Abort(i)
  BY <1>8, AbortKeeps
<1>9. CASE UNCHANGED runnerVars
  BY <1>9 DEF runnerVars, BoundedInv, RunnerTypeOK, InTurn, Phases, Counted, Distinct, Joined,
              KeepIsNoRefusal, Refusals, Spawned, Holding
<1> QED
  BY <1>1, <1>2, <1>3, <1>4, <1>5, <1>6, <1>7, <1>8, <1>9 DEF RunnerNext, Caller, Runtime

LEMMA AlwaysBounded == RunnerSpec => []BoundedInv
BY InitBounded, RunnerStepKeeps, PTL DEF RunnerSpec

-----------------------------------------------------------------------------
LEMMA InvImplies ==
    ASSUME BoundedInv
    PROVE  BoundedInFlight /\ PermitAtHand /\ EachOnce /\ FailFast
<1> USE DEF BoundedInv
<1> USE WindowFacts, ItemsAssumption
<1>1. Cardinality(Spawned) \in Nat /\ Cardinality(Holding) \in Nat
  BY Counting DEF Spawned, Holding
<1>2. Cardinality(Holding) <= Cardinality(Spawned)
  BY Counting DEF Spawned, Holding
<1>3. BoundedInFlight
  BY DEF BoundedInFlight, Counted
<1>4. PermitAtHand
  BY <1>1, <1>2 DEF PermitAtHand, Counted, RunnerTypeOK
<1>5. DeliveredItems = {i \in Item : task[i] = "joined"}
  <2> DEFINE D == [item : Item, go : BOOLEAN]
  <2>1. \A k \in 1..Len(delivered) : delivered[k] \in D
    <3>1. delivered \in Seq(D)
      BY DEF RunnerTypeOK
    <3> HIDE DEF D
    <3> QED
      BY <3>1
  <2>2. \A k \in 1..Len(delivered) : delivered[k].item \in Item
    BY <2>1
  <2> QED
    BY <2>2 DEF DeliveredItems, Joined
<1>6. ASSUME pc = "done" PROVE DeliveredItems = 1..(next - 1)
  <2>1. \A i \in Item : task[i] \in {"pending", "joined"}
    BY <1>6 DEF Phases, Spawned, RunnerTypeOK, TaskState
  <2>2. \A i \in Item : task[i] = "joined" <=> i < next
    BY <2>1 DEF InTurn, RunnerTypeOK, Item
  <2> QED
    BY <1>5, <2>2 DEF Item, RunnerTypeOK
<1>7. EachOnce
  BY <1>5, <1>6 DEF EachOnce, Distinct, Phases
<1>8. FailFast
  BY <1>1 DEF FailFast, Refusals, RunnerTypeOK
<1> QED
  BY <1>3, <1>4, <1>7, <1>8

(***************************************************************************)
(* For any number of items and any limit: never more than `limit` tasks,   *)
(* a permit whenever one is asked for, every result delivered once, and at *)
(* most `limit - 1` of them after a refusal.                               *)
(***************************************************************************)
THEOREM BoundedAndOnce ==
    RunnerSpec => [](RunnerTypeOK /\ BoundedInFlight /\ PermitAtHand /\ EachOnce /\ FailFast)
<1>1. BoundedInv => RunnerTypeOK /\ BoundedInFlight /\ PermitAtHand /\ EachOnce /\ FailFast
  BY InvImplies DEF BoundedInv
<1> QED
  BY <1>1, AlwaysBounded, PTL

(***************************************************************************)
(* on_result hears of every task once, and after it refused a result only  *)
(* of the siblings that were in flight.                                    *)
(***************************************************************************)
THEOREM ToldOncePerItem == RunnerSpec => []OncePerItem
<1>1. EachOnce /\ FailFast => OncePerItem
  BY DEF OncePerItem
<1> QED
  BY <1>1, BoundedAndOnce, PTL

-----------------------------------------------------------------------------
(***************************************************************************)
(* With one permit there is at most one task the caller has not had back,  *)
(* and it is the one after those it had.                                   *)
(***************************************************************************)
InOrder ==
    /\ \A k \in 1..Len(delivered) : delivered[k].item = k
    /\ pc # "panicked" => /\ \A i \in Spawned : i = Len(delivered) + 1 /\ next = i + 1
                          /\ Spawned = {} => next = Len(delivered) + 1

LEMMA NoneSpawned ==
    ASSUME BoundedInv, Window = 1,
           \/ pc = "prime" /\ next <= Window
           \/ pc = "spawn"
           \/ \E k \in 1..Len(delivered) : ~ delivered[k].go
    PROVE  Spawned = {}
<1>1. Cardinality(Spawned) \in Nat
  BY Counting DEF Spawned
<1>2. Cardinality(Spawned) <= 0
  BY <1>1 DEF BoundedInv, Counted, Refusals, RunnerTypeOK
<1> QED
  BY <1>1, <1>2, Counting DEF Spawned

LEMMA InOrderKeeps ==
    ASSUME Window = 1, BoundedInv, InOrder, [RunnerNext]_runnerVars
    PROVE  InOrder'
<1> USE DEF BoundedInv
<1>1. CASE Prime \/ Respawn
  <2>1. Spawned = {}
    BY <1>1, NoneSpawned DEF Prime, Respawn
  <2>2. next \in Item
    BY <1>1 DEF Prime, Respawn, Phases, RunnerTypeOK, Item
  <2>3. Spawned' = {next} /\ next' = next + 1 /\ delivered' = delivered
    BY <1>1, <2>1, <2>2 DEF Prime, Respawn, Spawn, Spawned, RunnerTypeOK
  <2> QED
    BY <1>1, <2>1, <2>3 DEF InOrder, Prime, Respawn, RunnerTypeOK
<1>2. ASSUME NEW i \in Item, NEW go \in BOOLEAN, Deliver(i, go) PROVE InOrder'
  <2>1. pc = "join" /\ delivered' = Append(delivered, [item |-> i, go |-> go]) /\ next' = next
    BY <1>2 DEF Deliver
  <2>2. i \in Spawned /\ Spawned' = Spawned \ {i}
    BY <1>2 DEF Deliver, Spawned, RunnerTypeOK
  <2>3. i = Len(delivered) + 1 /\ next = i + 1 /\ Spawned' = {}
    BY <2>1, <2>2 DEF InOrder
  <2>4. /\ Len(delivered') = Len(delivered) + 1
        /\ Len(delivered) \in Nat
        /\ \A k \in 1..Len(delivered) : delivered'[k] = delivered[k]
        /\ delivered'[Len(delivered) + 1].item = i
    BY <2>1, Appending DEF RunnerTypeOK
  <2> QED
    BY <2>1, <2>3, <2>4 DEF InOrder
<1>3. CASE Primed \/ Return \/ \E i \in Item : Collapse(i)
  BY <1>3 DEF InOrder, Primed, Return, Collapse, Spawned
<1>4. ASSUME NEW i \in Item, Release(i) \/ End(i) \/ PanicTask(i) PROVE InOrder'
  <2>1. Spawned' = Spawned
    BY <1>4 DEF Release, End, PanicTask, Task, Spawned, RunnerTypeOK
  <2> QED
    BY <1>4, <2>1 DEF InOrder, Release, End, PanicTask, Task
<1>5. CASE \E i \in Item : Abort(i)
  BY <1>5 DEF InOrder, Abort, Task
<1>6. CASE UNCHANGED runnerVars
  BY <1>6 DEF InOrder, runnerVars, Spawned
<1> QED
  BY <1>1, <1>2, <1>3, <1>4, <1>5, <1>6 DEF RunnerNext, Caller, Runtime

LEMMA StepIsLoopStep ==
    ASSUME Window = 1, BoundedInv, InOrder, [RunnerNext]_runnerVars
    PROVE  [Loop!Next]_(Loop!vars)
<1> USE DEF BoundedInv
<1> USE ItemsAssumption
<1>1. ASSUME NEW i \in Item, NEW go \in BOOLEAN, Deliver(i, go) PROVE Loop!Iterate
  <2>1. /\ pc = "join" /\ pc' \in {"join", "spawn"}
        /\ delivered' = Append(delivered, [item |-> i, go |-> go])
    BY <1>1 DEF Deliver
  <2>2. i \in Spawned
    BY <1>1 DEF Deliver, Spawned
  <2>3. i = Len(delivered) + 1
    BY <2>1, <2>2 DEF InOrder
  <2>4. Len(delivered) < Items
    BY <2>3 DEF Item, RunnerTypeOK
  <2>5. ~ Loop!Refused
    BY <2>2, NoneSpawned DEF Loop!Refused
  <2> QED
    BY <2>1, <2>3, <2>4, <2>5 DEF Loop!Iterate
<1>2. CASE Return
  <2>1. pc = "join" /\ pc' = "done" /\ Spawned = {} /\ delivered' = delivered
    BY <1>2 DEF Return
  <2>2. next = Len(delivered) + 1
    BY <2>1 DEF InOrder
  <2>3. keep => next = Items + 1
    BY <2>1 DEF Phases, RunnerTypeOK
  <2>4. ~ keep => Loop!Refused
    BY DEF KeepIsNoRefusal, Loop!Refused
  <2>5. Len(delivered) = Items \/ Loop!Refused
    BY <2>2, <2>3, <2>4 DEF RunnerTypeOK
  <2> QED
    BY <2>1, <2>5 DEF Loop!Next, Loop!Return
<1>3. ASSUME NEW i \in Item, Collapse(i) PROVE Loop!Panic
  <2>1. pc = "join" /\ pc' = "panicked" /\ i \in Spawned /\ delivered' = delivered
    BY <1>3 DEF Collapse, Spawned
  <2>2. Len(delivered) < Items
    BY <2>1 DEF InOrder, Item, RunnerTypeOK
  <2>3. ~ Loop!Refused
    BY <2>1, NoneSpawned DEF Loop!Refused
  <2> QED
    BY <2>1, <2>2, <2>3 DEF Loop!Panic
<1>4. CASE Prime \/ Primed \/ Respawn
  BY <1>4 DEF Prime, Primed, Respawn, Spawn, Loop!vars
<1>5. CASE Runtime \/ UNCHANGED runnerVars
  BY <1>5 DEF Runtime, Release, End, PanicTask, Abort, Task, runnerVars, Loop!vars
<1> QED
  BY <1>1, <1>2, <1>3, <1>4, <1>5 DEF RunnerNext, Caller, Loop!Next

(***************************************************************************)
(* At limit 1 (or 0) run_bounded implements the plain for loop, whatever   *)
(* the number of items, including when on_result refuses and when a task   *)
(* panics.                                                                 *)
(***************************************************************************)
THEOREM LimitOneIsForLoop ==
    ASSUME Window = 1
    PROVE  RunnerSpec => IsForLoop
<1>1. RunnerInit => InOrder /\ Loop!Init
  BY DEF RunnerInit, InOrder, Spawned, Loop!Init
<1>2. BoundedInv /\ InOrder /\ [RunnerNext]_runnerVars => InOrder'
  BY InOrderKeeps
<1>3. BoundedInv /\ InOrder /\ [RunnerNext]_runnerVars => [Loop!Next]_(Loop!vars)
  BY StepIsLoopStep
<1> QED
  BY <1>1, <1>2, <1>3, AlwaysBounded, PTL DEF RunnerSpec, IsForLoop, Loop!Spec

-----------------------------------------------------------------------------
(***************************************************************************)
(* Saves that do not overlap are atomic, for any contents and any number   *)
(* of processes, each killed wherever it may be.  The argument: while a    *)
(* save is under way the temporary file is its own and not the file, so    *)
(* what it does before the rename is invisible, and at the rename the      *)
(* temporary file holds all of what it saves.                              *)
(***************************************************************************)
OneAtATime == \A p, q \in Writer : writer[p] # Resting /\ writer[q] # Resting => p = q

Apart == tmp # None => tmp # file

Stage(w) ==
    /\ w.at = "idle" => w = Resting
    /\ w.at \in {"open", "write", "rename"} => w.content \in Content
    /\ w.at = "unlink" => w.content = None
    /\ w.at = "write" => tmp # None /\ w.fd = tmp /\ data[tmp] = Empty
    /\ w.at = "rename" => tmp # None /\ data[tmp] = w.content

Stages == \A p \in Writer : Stage(writer[p])

AtomicInv == /\ WriterTypeOK
             /\ NeverPartial
             /\ OneAtATime
             /\ Apart
             /\ Stages

-----------------------------------------------------------------------------
LEMMA InitAtomic == WriteInit => AtomicInv /\ File!Init
<1> SUFFICES ASSUME WriteInit PROVE AtomicInv /\ File!Init
  OBVIOUS
<1> USE DEF WriteInit, Resting
<1>1. WriterTypeOK
  BY DEF WriterTypeOK, WriterAt
<1>2. NeverPartial /\ Visible = None
  BY DEF NeverPartial, Visible
<1>3. OneAtATime /\ Apart /\ Stages
  BY DEF OneAtATime, Apart, Stages, Stage
<1>4. File!Init
  BY <1>2 DEF File!Init, File!Idle
<1> QED
  BY <1>1, <1>2, <1>3, <1>4 DEF AtomicInv

(***************************************************************************)
(* What the steps of a writer have in common: nobody else is at work, so   *)
(* it is enough to say where this one has come to.                         *)
(***************************************************************************)
LEMMA WriterStepKeeps ==
    ASSUME AtomicInv, NEW p \in Writer,
           NEW w, writer' = [writer EXCEPT ![p] = w],
           w \in [at : WriterAt, fd : Inode \cup {None}, content : Content \cup {None}],
           w.at = "write" <=> w.fd # None,
           Stage(w)',
           \A q \in Writer : q # p => writer[q] = Resting,
           file' \in Inode \cup {None},
           tmp' \in Inode \cup {None},
           data' \in [Inode -> Content \cup {Empty, Garbled}],
           tmp' # None => tmp' # file',
           Visible' \in Content \cup {None}
    PROVE  AtomicInv'
<1> USE DEF AtomicInv
<1>1. \A q \in Writer : writer'[q] = IF q = p THEN w ELSE Resting
  BY DEF WriterTypeOK
<1>2. WriterTypeOK'
  BY <1>1 DEF WriterTypeOK
<1>3. OneAtATime'
  BY <1>1 DEF OneAtATime
<1>4. Stage(Resting)'
  BY DEF Stage, Resting
<1>5. Stages'
  BY <1>1, <1>4 DEF Stages, Stage
<1> QED
  BY <1>2, <1>3, <1>5 DEF NeverPartial, Apart

LEMMA Others ==
    ASSUME AtomicInv, NEW p \in Writer, writer[p] # Resting
    PROVE  \A q \in Writer : q # p => writer[q] = Resting
BY DEF AtomicInv, OneAtATime

Todo(w) == [want |-> w # Resting, content |-> w.content]

LEMMA TodoStep ==
    ASSUME AtomicInv, NEW p \in Writer, NEW w, writer' = [writer EXCEPT ![p] = w]
    PROVE  [q \in Writer |-> Todo(writer'[q])]
               = [[q \in Writer |-> Todo(writer[q])] EXCEPT ![p] = Todo(w)]
BY DEF AtomicInv, WriterTypeOK

LEMMA SaveIsBegin ==
    ASSUME Exclusive, AtomicInv, NEW p \in Writer, NEW c \in Content, Save(p, c)
    PROVE  AtomicInv' /\ File!Begin(p)
<1> USE DEF AtomicInv
<1> DEFINE w == [at |-> "open", fd |-> None, content |-> c]
<1>1. /\ writer' = [writer EXCEPT ![p] = w]
      /\ writer[p] = Resting
      /\ \A q \in Writer : writer[q] = Resting
      /\ file' = file /\ tmp' = tmp /\ data' = data
  BY DEF Save, MayStart, WriterStep
<1>2. Stage(w)'
  BY DEF Stage
<1>3. Visible' = Visible
  BY <1>1 DEF Visible
<1>4. AtomicInv'
  BY <1>1, <1>2, <1>3, WriterStepKeeps DEF WriterTypeOK, NeverPartial, Apart, WriterAt
<1>5. w # Resting
  BY DEF Resting
<1>6. Todo(w) = [want |-> TRUE, content |-> c] /\ Todo(Resting) = File!Idle
  BY <1>5 DEF Todo, File!Idle, Resting
<1>7. File!Begin(p)
  BY <1>1, <1>3, <1>6, TodoStep DEF File!Begin, Todo
<1> QED
  BY <1>4, <1>7

LEMMA RemoveIsBegin ==
    ASSUME Exclusive, AtomicInv, NEW p \in Writer, Delete(p)
    PROVE  AtomicInv' /\ File!Begin(p)
<1> USE DEF AtomicInv
<1> DEFINE w == [at |-> "unlink", fd |-> None, content |-> None]
<1>1. /\ writer' = [writer EXCEPT ![p] = w]
      /\ writer[p] = Resting
      /\ \A q \in Writer : writer[q] = Resting
      /\ file' = file /\ tmp' = tmp /\ data' = data
  BY DEF Delete, MayStart, WriterStep
<1>2. Stage(w)'
  BY DEF Stage
<1>3. Visible' = Visible
  BY <1>1 DEF Visible
<1>4. AtomicInv'
  BY <1>1, <1>2, <1>3, WriterStepKeeps DEF WriterTypeOK, NeverPartial, Apart, WriterAt
<1>5. w # Resting
  BY DEF Resting
<1>6. Todo(w) = [want |-> TRUE, content |-> None] /\ Todo(Resting) = File!Idle
  BY <1>5 DEF Todo, File!Idle, Resting
<1>7. File!Begin(p)
  BY <1>1, <1>3, <1>6, TodoStep DEF File!Begin, Todo
<1> QED
  BY <1>4, <1>7

LEMMA OpenIsStutter ==
    ASSUME AtomicInv, NEW p \in Writer, OpenTmp(p)
    PROVE  AtomicInv' /\ UNCHANGED File!vars
<1> USE DEF AtomicInv
<1>0. PICK c \in Content : c = writer[p].content
  BY DEF OpenTmp, Stages, Stage
<1>1. PICK i \in Inode : /\ IF tmp # None THEN i = tmp ELSE Free(i)
                         /\ tmp' = i
                         /\ data' = [data EXCEPT ![i] = Empty]
                         /\ WriterStep(p, "write", i, writer[p].content)
  BY DEF OpenTmp
<1> DEFINE w == [at |-> "write", fd |-> i, content |-> c]
<1>2. /\ writer[p].at = "open" /\ file' = file
      /\ writer' = [writer EXCEPT ![p] = w]
  BY <1>0, <1>1 DEF OpenTmp, WriterStep
<1>3. i # file /\ i # None
  BY <1>1, InodeAssumption DEF Free, Apart
<1>4. writer[p] # Resting
  BY <1>2 DEF Resting
<1>5. /\ data' \in [Inode -> Content \cup {Empty, Garbled}]
      /\ data'[i] = Empty
      /\ Visible' = Visible
  BY <1>1, <1>2, <1>3 DEF Visible, WriterTypeOK
<1>6. Stage(w)'
  BY <1>1, <1>3, <1>5 DEF Stage
<1>7. AtomicInv'
  BY <1>1, <1>2, <1>3, <1>4, <1>5, <1>6, WriterStepKeeps, Others DEF WriterTypeOK, NeverPartial, WriterAt
<1>8. Todo(w) = Todo(writer[p])
  BY <1>0, <1>4 DEF Todo, Resting
<1>9. [q \in Writer |-> Todo(writer'[q])] = [q \in Writer |-> Todo(writer[q])]
  BY <1>2, <1>8 DEF WriterTypeOK
<1> QED
  BY <1>5, <1>7, <1>9 DEF File!vars, Todo

LEMMA WriteIsStutter ==
    ASSUME AtomicInv, NEW p \in Writer, WriteTmp(p)
    PROVE  AtomicInv' /\ UNCHANGED File!vars
<1> USE DEF AtomicInv
<1>0. PICK c \in Content : c = writer[p].content
  BY DEF WriteTmp, Stages, Stage
<1> DEFINE w == [at |-> "rename", fd |-> None, content |-> c]
<1>1. /\ writer[p].at = "write" /\ file' = file /\ tmp' = tmp
      /\ writer' = [writer EXCEPT ![p] = w]
  BY <1>0 DEF WriteTmp, WriterStep
<1>2. /\ tmp # None /\ writer[p].fd = tmp /\ data[tmp] = Empty
  BY <1>1 DEF Stages, Stage
<1>3. data' = [data EXCEPT ![tmp] = c]
  BY <1>0, <1>2 DEF WriteTmp, Overwritten
<1>4. writer[p] # Resting
  BY <1>1 DEF Resting
<1>5. /\ data' \in [Inode -> Content \cup {Empty, Garbled}]
      /\ data'[tmp] = c
      /\ Visible' = Visible
  BY <1>1, <1>2, <1>3 DEF Visible, WriterTypeOK, Apart
<1>6. Stage(w)'
  BY <1>1, <1>2, <1>5 DEF Stage
<1>7. AtomicInv'
  BY <1>1, <1>2, <1>4, <1>5, <1>6, WriterStepKeeps, Others DEF WriterTypeOK, NeverPartial, Apart, WriterAt
<1>8. Todo(w) = Todo(writer[p])
  BY <1>0, <1>4 DEF Todo, Resting
<1>9. [q \in Writer |-> Todo(writer'[q])] = [q \in Writer |-> Todo(writer[q])]
  BY <1>1, <1>8 DEF WriterTypeOK
<1> QED
  BY <1>5, <1>7, <1>9 DEF File!vars, Todo

(***************************************************************************)
(* The three ways for a writer to come to rest.                            *)
(***************************************************************************)
LEMMA RestKeeps ==
    ASSUME AtomicInv, NEW p \in Writer, writer[p] # Resting,
           writer' = [writer EXCEPT ![p] = Resting],
           file' \in Inode \cup {None},
           tmp' \in Inode \cup {None},
           data' \in [Inode -> Content \cup {Empty, Garbled}],
           tmp' # None => tmp' # file',
           Visible' \in Content \cup {None}
    PROVE  AtomicInv'
<1>1. Stage(Resting)'
  BY DEF Stage, Resting
<1>2. Resting \in [at : WriterAt, fd : Inode \cup {None}, content : Content \cup {None}]
  BY DEF Resting, WriterAt
<1>3. ~ (Resting.at = "write") /\ Resting.fd = None
  BY DEF Resting
<1> QED
  BY <1>1, <1>2, <1>3, WriterStepKeeps, Others

LEMMA RestIsCommit ==
    ASSUME AtomicInv, NEW p \in Writer, writer[p] # Resting,
           writer' = [writer EXCEPT ![p] = Resting],
           Visible' = writer[p].content
    PROVE  File!Commit(p)
<1>1. Todo(writer[p]).want /\ Todo(Resting) = File!Idle
  BY DEF Todo, File!Idle, Resting
<1> QED
  BY <1>1, TodoStep DEF File!Commit, Todo

LEMMA RestIsFail ==
    ASSUME AtomicInv, NEW p \in Writer, writer[p] # Resting,
           writer' = [writer EXCEPT ![p] = Resting],
           Visible' = Visible
    PROVE  File!Fail(p)
<1>1. Todo(writer[p]).want /\ Todo(Resting) = File!Idle
  BY DEF Todo, File!Idle, Resting
<1> QED
  BY <1>1, TodoStep DEF File!Fail, Todo

LEMMA RenameIsCommit ==
    ASSUME AtomicInv, NEW p \in Writer, Rename(p)
    PROVE  AtomicInv' /\ File!Commit(p)
<1> USE DEF AtomicInv
<1>1. writer[p].at = "rename" /\ writer[p] # Resting
  BY DEF Rename, Resting
<1>2. tmp # None /\ data[tmp] = writer[p].content /\ writer[p].content \in Content
  BY <1>1 DEF Stages, Stage
<1>3. /\ file' = tmp /\ tmp' = None /\ data' = data
      /\ writer' = [writer EXCEPT ![p] = Resting]
  BY <1>2 DEF Rename
<1>4. Visible' = writer[p].content
  BY <1>2, <1>3 DEF Visible
<1> QED
  BY <1>1, <1>2, <1>3, <1>4, RestKeeps, RestIsCommit DEF WriterTypeOK

LEMMA UnlinkIsCommit ==
    ASSUME AtomicInv, NEW p \in Writer, Unlink(p)
    PROVE  AtomicInv' /\ File!Commit(p)
<1> USE DEF AtomicInv
<1>1. writer[p].at = "unlink" /\ writer[p] # Resting
  BY DEF Unlink, Resting
<1>2. writer[p].content = None
  BY <1>1 DEF Stages, Stage
<1>3. /\ file' = None /\ tmp' = tmp /\ data' = data
      /\ writer' = [writer EXCEPT ![p] = Resting]
  BY DEF Unlink
<1>4. Visible' = None
  BY <1>3 DEF Visible
<1> QED
  BY <1>1, <1>2, <1>3, <1>4, RestKeeps, RestIsCommit DEF WriterTypeOK

LEMMA InterruptIsFail ==
    ASSUME AtomicInv, NEW p \in Writer, Interrupt(p)
    PROVE  AtomicInv' /\ File!Fail(p)
<1> USE DEF AtomicInv
<1>1. /\ writer[p] # Resting
      /\ writer' = [writer EXCEPT ![p] = Resting]
      /\ file' = file /\ tmp' = tmp
  BY DEF Interrupt
<1>2. data' \in [Inode -> Content \cup {Empty, Garbled}] /\ Visible' = Visible
  <2>1. CASE data' = data
    BY <1>1, <2>1 DEF WriterTypeOK, Visible
  <2>2. CASE writer[p].at = "write" /\ data' = [data EXCEPT ![writer[p].fd] = Garbled]
    <3>1. writer[p].fd = tmp /\ tmp # None
      BY <2>2 DEF Stages, Stage
    <3> QED
      BY <1>1, <2>2, <3>1 DEF WriterTypeOK, Visible, Apart
  <2> QED
    BY <2>1, <2>2 DEF Interrupt
<1> QED
  BY <1>1, <1>2, RestKeeps, RestIsFail DEF WriterTypeOK, NeverPartial, Apart

(***************************************************************************)
(* Saves that do not overlap are never seen half done, and the file        *)
(* implements a register: for any contents, processes and interruptions.   *)
(***************************************************************************)
THEOREM OneAtATimeIsAtomic ==
    ASSUME Exclusive
    PROVE  WriteSpec => []NeverPartial /\ IsAtomic
<1>1. ASSUME AtomicInv, [WriteNext]_writeVars PROVE AtomicInv' /\ [File!Next]_(File!vars)
  <2>1. CASE UNCHANGED writeVars
    BY <1>1, <2>1 DEF writeVars, AtomicInv, WriterTypeOK, NeverPartial, OneAtATime, Apart, Stages, Stage,
                      Visible, File!vars
  <2>2. ASSUME NEW p \in Writer, NEW c \in Content, Save(p, c)
        PROVE  AtomicInv' /\ File!Next
    BY <1>1, <2>2, SaveIsBegin DEF File!Next
  <2>3. ASSUME NEW p \in Writer, OpenTmp(p) \/ WriteTmp(p)
        PROVE  AtomicInv' /\ UNCHANGED File!vars
    BY <1>1, <2>3, OpenIsStutter, WriteIsStutter
  <2>4. ASSUME NEW p \in Writer, Rename(p) \/ Unlink(p) PROVE AtomicInv' /\ File!Next
    BY <1>1, <2>4, RenameIsCommit, UnlinkIsCommit DEF File!Next
  <2>5. ASSUME NEW p \in Writer, Delete(p) PROVE AtomicInv' /\ File!Next
    BY <1>1, <2>5, RemoveIsBegin DEF File!Next
  <2>6. ASSUME NEW p \in Writer, Interrupt(p) PROVE AtomicInv' /\ File!Next
    BY <1>1, <2>6, InterruptIsFail DEF File!Next
  <2> QED
    BY <1>1, <2>1, <2>2, <2>3, <2>4, <2>5, <2>6 DEF WriteNext
<1>2. AtomicInv => NeverPartial
  BY DEF AtomicInv
<1> QED
  BY <1>1, <1>2, InitAtomic, PTL DEF WriteSpec, IsAtomic, File!Spec

-----------------------------------------------------------------------------
(***************************************************************************)
(* For any budget, bodies of any length and any related pages: a prompt    *)
(* that is sent fits, and nothing that had room was left out.              *)
(*                                                                         *)
(* First what rounding up to tokens means, then what truncating one body   *)
(* and sharing the budget between two make of them; the invariant carries  *)
(* this to the prompt that is sent, and adds that the related pages that   *)
(* were dropped did not fit.                                               *)
(***************************************************************************)
-----------------------------------------------------------------------------
\* Division, for the rounding of estimate_tokens.

LEMMA Division ==
    ASSUME NEW x \in Nat, NEW c \in Nat \ {0}
    PROVE  /\ x \div c \in Nat
           /\ c * (x \div c) <= x
           /\ x < c * (x \div c) + c
  OBVIOUS

LEMMA DivisionIs ==
    ASSUME NEW x \in Nat, NEW c \in Nat \ {0}, NEW q \in Nat, c * q <= x, x < c * q + c
    PROVE  x \div c = q
  OBVIOUS

LEMMA TokensNat ==
    ASSUME NEW n \in Nat
    PROVE  Tokens(n) \in Nat
  BY Division, BudgetAssumption DEF Tokens

\* Rounding up: n characters fit b tokens exactly if their estimate does.
LEMMA TokensWithin ==
    ASSUME NEW n \in Nat, NEW b \in Nat
    PROVE  n <= b * CharsPerToken <=> Tokens(n) <= b
<1> DEFINE C == CharsPerToken
           x == n + C - 1
           q == x \div C
<1>1. C \in Nat \ {0} /\ x \in Nat
  BY BudgetAssumption
<1>2. q \in Nat /\ C * q <= x /\ x < C * q + C
  BY <1>1, Division
<1> HIDE DEF q
<1>3. CASE q <= b
  <2>1. C * q <= C * b
    BY <1>1, <1>2, <1>3
  <2> QED BY <1>1, <1>2, <1>3, <2>1 DEF Tokens, q
<1>4. CASE q > b
  <2>1. C * q >= C * (b + 1)
    BY <1>1, <1>2, <1>4
  <2>2. C * (b + 1) = C * b + C /\ C * b \in Nat /\ C * b = b * C
    BY <1>1
  <2>3. n > C * b
    BY <1>1, <1>2, <2>1, <2>2
  <2> QED BY <1>1, <1>2, <1>4, <2>2, <2>3 DEF Tokens, q
<1> QED BY <1>2, <1>3, <1>4

LEMMA TokensMonotone ==
    ASSUME NEW n \in Nat, NEW m \in Nat, n <= m
    PROVE  Tokens(n) <= Tokens(m)
<1>1. Tokens(m) \in Nat /\ Tokens(n) \in Nat
  BY TokensNat
<1>2. m <= Tokens(m) * CharsPerToken
  BY <1>1, TokensWithin
<1>3. Tokens(m) * CharsPerToken \in Nat
  BY <1>1, BudgetAssumption
<1>4. n <= Tokens(m) * CharsPerToken
  BY <1>2, <1>3
<1> QED BY <1>1, <1>4, TokensWithin

LEMMA TokensAdd ==
    ASSUME NEW n \in Nat, NEW m \in Nat
    PROVE  Tokens(n * CharsPerToken + m) = n + Tokens(m)
<1> DEFINE C == CharsPerToken
           x == m + C - 1
           q == x \div C
<1>1. C \in Nat \ {0} /\ x \in Nat /\ n * C \in Nat
  BY BudgetAssumption
<1>2. q \in Nat /\ C * q <= x /\ x < C * q + C
  BY <1>1, Division
<1> HIDE DEF q
<1>3. C * (n + q) = n * C + C * q /\ C * (n + q) \in Nat
  BY <1>1, <1>2
<1>4. n * C + m + C - 1 = n * C + x /\ n * C + x \in Nat
  BY <1>1
<1>5. (n * C + x) \div C = n + q
  BY <1>1, <1>2, <1>3, <1>4, DivisionIs
<1> QED BY <1>1, <1>4, <1>5 DEF Tokens, q

-----------------------------------------------------------------------------
Text == [text : Nat, marker : 0..MarkerChars]

\* truncate_to_budget: untouched if it fits, else all of the budget and a marker.
LEMMA TruncatedFits ==
    ASSUME NEW w \in Body, NEW b \in Nat
    PROVE  /\ Truncated(w, b) \in Text
           /\ Tokens(w.text) <= b => Truncated(w, b) = w
           /\ Tokens(w.text) > b => /\ Truncated(w, b).marker > 0
                                    /\ Truncated(w, b) # w
                                    /\ Tokens(Truncated(w, b).text) = b
                                    /\ Estimate(Truncated(w, b)) <= b + Tokens(MarkerChars)
<1> DEFINE C == CharsPerToken
           t == Truncated(w, b)
<1>1. PICK n \in 0..MaxChars : w = [text |-> n, marker |-> 0]
  BY DEF Body, Whole
<1>2. n \in Nat /\ b * C \in Nat /\ MarkerChars \in Nat
  BY <1>1, BudgetAssumption, MarkerAssumption
<1>3. n <= b * C <=> Tokens(n) <= b
  BY <1>2, TokensWithin
<1>4. Tokens(n) \in Nat
  BY <1>2, TokensNat
<1>5. CASE n <= b * C
  BY <1>1, <1>2, <1>3, <1>4, <1>5 DEF Truncated, Text
<1>6. CASE n > b * C
  <2> DEFINE m == Marker[n - b * C]
  <2>1. n - b * C \in 1..MaxChars
    BY <1>1, <1>2, <1>6, BudgetAssumption
  <2>2. m \in 1..MarkerChars
    BY <2>1, MarkerAssumption
  <2>3. t = [text |-> b * C, marker |-> m]
    BY <1>1, <1>2, <1>6 DEF Truncated
  <2> HIDE DEF m, t
  <2>4. Tokens(b * C + m) = b + Tokens(m) /\ Tokens(m) <= Tokens(MarkerChars)
    BY <2>2, <1>2, TokensAdd, TokensMonotone
  <2>5. Tokens(b * C + 0) = b + Tokens(0) /\ Tokens(0) = 0
    <3>1. Tokens(0) <= 0 /\ Tokens(0) \in Nat
      BY TokensWithin, TokensNat, BudgetAssumption
    <3> QED BY <3>1, TokensAdd
  <2>6. Tokens(t.text) = b
    BY <2>3, <2>5, <1>2
  <2>7. Estimate(t) <= b + Tokens(MarkerChars)
    <3>1. t # NoText
      BY <2>2, <2>3, <1>2, NoneAssumption
    <3>2. Tokens(m) \in Nat /\ Tokens(MarkerChars) \in Nat
      BY <2>2, <1>2, TokensNat
    <3> QED BY <3>1, <3>2, <2>3, <2>4 DEF Estimate
  <2>8. t \in Text /\ t.marker > 0 /\ t # w
    BY <2>2, <2>3, <1>1, <1>2 DEF Text
  <2> QED BY <2>6, <2>7, <2>8, <1>1, <1>2, <1>3, <1>4, <1>6 DEF t
<1> QED BY <1>2, <1>5, <1>6

\* The shares: what both need if that fits, else the whole budget, split so that
\* none has more than it needs and only those above half have less.
LEMMA SharesFit ==
    ASSUME NEW a \in Nat, NEW s \in Nat
    PROVE  /\ Shares(a, s)[1] \in Nat /\ Shares(a, s)[2] \in Nat
           /\ a + s <= Budget => Shares(a, s)[1] = a /\ Shares(a, s)[2] = s
           /\ a + s > Budget => /\ Shares(a, s)[1] + Shares(a, s)[2] = Budget
                                /\ Shares(a, s)[1] <= a /\ Shares(a, s)[2] <= s
                                /\ Shares(a, s)[1] < a => a > Half
                                /\ Shares(a, s)[2] < s => s > Half
<1>1. Half \in Nat /\ Half <= Budget /\ 2 * Half <= Budget /\ Budget <= 2 * Half + 1
  BY BudgetAssumption DEF Half
<1> QED BY <1>1, BudgetAssumption DEF Shares

-----------------------------------------------------------------------------
Bodies == [active : Body, superseded : Body \cup {NoText}]

Texts == [active : Text, superseded : Text \cup {NoText}]

\* The bodies b are in the prompt as t: no more than the markers over the budget,
\* and what is cut was too long.
BodiesWithin(t) ==
    Estimate(t.active) + Estimate(t.superseded)
        <= Budget + Tokens(MarkerChars) * (Cut(t.active) + Cut(t.superseded))

CutIsNeeded(b, t, x) ==
    t[x] # b[x] => /\ Estimate(b.active) + Estimate(b.superseded) > Budget
                   /\ Estimate(b[x]) > Half
                   /\ Original(t.active) + Original(t.superseded) = Budget

BodiesFit(b, t) ==
    BodiesWithin(t) /\ CutIsNeeded(b, t, "active") /\ CutIsNeeded(b, t, "superseded")

\* What is needed of one body that was given a share.
LEMMA OneBody ==
    ASSUME NEW w \in Body, NEW b \in Nat, b <= Tokens(w.text)
    PROVE  /\ Truncated(w, b) \in Text
           /\ Estimate(w) = Tokens(w.text) /\ Estimate(w) \in Nat
           /\ Original(Truncated(w, b)) = b
           /\ Estimate(Truncated(w, b)) \in Nat
           /\ Cut(Truncated(w, b)) \in {0, 1}
           /\ Cut(Truncated(w, b)) = 0 => Estimate(Truncated(w, b)) <= b
           /\ Estimate(Truncated(w, b)) <= b + Tokens(MarkerChars)
           /\ Truncated(w, b) # w => b < Tokens(w.text)
<1> DEFINE t == Truncated(w, b)
<1>1. PICK n \in 0..MaxChars : w = [text |-> n, marker |-> 0]
  BY DEF Body, Whole
<1>2. n \in Nat /\ MarkerChars \in Nat /\ Tokens(n) \in Nat /\ Tokens(MarkerChars) \in Nat
  <2>1. n \in Nat /\ MarkerChars \in Nat
    BY <1>1, BudgetAssumption, MarkerAssumption
  <2> QED BY <2>1, TokensNat
<1>3. w # NoText /\ Estimate(w) = Tokens(n) /\ w \in Text
  BY <1>1, <1>2, NoneAssumption DEF Estimate, Text
<1>4. /\ t \in Text
      /\ Tokens(n) <= b => t = w
      /\ Tokens(n) > b => t.marker > 0 /\ t # w /\ Tokens(t.text) = b
                         /\ Estimate(t) <= b + Tokens(MarkerChars)
  BY <1>1, TruncatedFits
<1> HIDE DEF t
<1>5. t.text \in Nat /\ t.marker \in Nat /\ t # NoText /\ t \in [text : Nat, marker : Nat]
  BY <1>2, <1>4, NoneAssumption DEF Text
<1>6. Estimate(t) = Tokens(t.text + t.marker) /\ Estimate(t) \in Nat
  BY <1>5, TokensNat DEF Estimate
<1>7. Original(t) = Tokens(t.text) /\ Cut(t) = IF t.marker = 0 THEN 0 ELSE 1
  BY <1>5 DEF Original, Cut
<1>8. CASE Tokens(n) <= b
  BY <1>1, <1>2, <1>3, <1>4, <1>6, <1>7, <1>8 DEF t
<1>9. CASE Tokens(n) > b
  BY <1>1, <1>2, <1>3, <1>4, <1>5, <1>6, <1>7, <1>9 DEF t
<1> QED BY <1>2, <1>8, <1>9

\* truncate_raw_blobs_to_shared_budget, for one body and for two.
LEMMA SharedFits ==
    ASSUME NEW b \in Bodies
    PROVE  Shared(b) \in Texts /\ BodiesFit(b, Shared(b))
<1> DEFINE a == b.active
           s == b.superseded
           M == Tokens(MarkerChars)
<1>1. M \in Nat /\ a \in Body /\ s \in Body \cup {NoText} /\ Budget \in Nat
  BY TokensNat, MarkerAssumption, BudgetAssumption DEF Bodies
<1>2. \A w \in Body : w.text \in Nat /\ Tokens(w.text) \in Nat /\ w # NoText
                      /\ Estimate(w) = Tokens(w.text) /\ w \in Text /\ Cut(w) = 0
                      /\ Original(w) = Tokens(w.text)
  <2> SUFFICES ASSUME NEW w \in Body
               PROVE  /\ w.text \in Nat /\ Tokens(w.text) \in Nat /\ w # NoText
                      /\ Estimate(w) = Tokens(w.text) /\ w \in Text /\ Cut(w) = 0
                      /\ Original(w) = Tokens(w.text)
    OBVIOUS
  <2>1. PICK n \in 0..MaxChars : w = [text |-> n, marker |-> 0]
    BY DEF Body, Whole
  <2>2. n \in Nat /\ Tokens(n) \in Nat /\ n + 0 = n
    BY <2>1, TokensNat, BudgetAssumption
  <2>3. w # NoText
    BY <2>1, <2>2, NoneAssumption
  <2> QED BY <2>1, <2>2, <2>3, MarkerAssumption DEF Estimate, Cut, Original, Text
<1>3. CASE s = NoText
  <2> DEFINE t == Truncated(a, Budget)
  <2>1. Shared(b) = [active |-> t, superseded |-> NoText]
    BY <1>3 DEF Shared
  <2>2. Estimate(NoText) = 0 /\ Cut(NoText) = 0 /\ Original(NoText) = 0
    BY DEF Estimate, Cut, Original
  <2>3. CASE Tokens(a.text) <= Budget
    <3>1. t = a
      BY <1>1, <2>3, TruncatedFits
    <3> QED BY <1>1, <1>2, <1>3, <2>1, <2>2, <2>3, <3>1
            DEF BodiesFit, BodiesWithin, CutIsNeeded, Texts
  <2>4. CASE Tokens(a.text) > Budget
    <3>1. /\ t \in Text /\ Original(t) = Budget /\ Estimate(t) \in Nat
          /\ Cut(t) \in {0, 1}
          /\ Cut(t) = 0 => Estimate(t) <= Budget
          /\ Estimate(t) <= Budget + M
      BY <1>1, <1>2, <2>4, OneBody
    <3>2. Half \in Nat /\ Half <= Budget
      BY <1>1 DEF Half
    <3> HIDE DEF t, M
    <3>3. M * (Cut(t) + 0) = IF Cut(t) = 0 THEN 0 ELSE M
      BY <1>1, <3>1
    <3> QED BY <1>1, <1>2, <1>3, <2>1, <2>2, <2>4, <3>1, <3>2, <3>3
            DEF BodiesFit, BodiesWithin, CutIsNeeded, Texts, M
  <2> QED BY <1>1, <1>2, <2>3, <2>4
<1>4. CASE s # NoText
  <2> DEFINE p == Shares(Estimate(a), Estimate(s))[1]
             q == Shares(Estimate(a), Estimate(s))[2]
             t == Truncated(a, p)
             u == Truncated(s, q)
  <2>1. Shared(b) = [active |-> t, superseded |-> u]
    BY <1>4 DEF Shared
  <2>2. s \in Body
    BY <1>1, <1>4
  <2>3. /\ Estimate(a) = Tokens(a.text) /\ Estimate(s) = Tokens(s.text)
        /\ Estimate(a) \in Nat /\ Estimate(s) \in Nat
    BY <1>1, <1>2, <2>2
  <2>4. /\ p \in Nat /\ q \in Nat /\ p <= Estimate(a) /\ q <= Estimate(s)
        /\ p + q <= Budget
        /\ p < Estimate(a) \/ q < Estimate(s) =>
              Estimate(a) + Estimate(s) > Budget /\ p + q = Budget
        /\ p < Estimate(a) => Estimate(a) > Half
        /\ q < Estimate(s) => Estimate(s) > Half
    BY <1>1, <2>3, SharesFit
  <2> HIDE DEF p, q
  <2>5. /\ t \in Text /\ Original(t) = p /\ Estimate(t) \in Nat /\ Cut(t) \in {0, 1}
        /\ Cut(t) = 0 => Estimate(t) <= p
        /\ Estimate(t) <= p + M
        /\ t # a => p < Estimate(a)
    BY <1>1, <2>3, <2>4, OneBody
  <2>6. /\ u \in Text /\ Original(u) = q /\ Estimate(u) \in Nat /\ Cut(u) \in {0, 1}
        /\ Cut(u) = 0 => Estimate(u) <= q
        /\ Estimate(u) <= q + M
        /\ u # s => q < Estimate(s)
    BY <2>2, <2>3, <2>4, OneBody
  <2> HIDE DEF t, u, M
  <2>7. M * (Cut(t) + Cut(u)) = (IF Cut(t) = 0 THEN 0 ELSE M) + (IF Cut(u) = 0 THEN 0 ELSE M)
    BY <1>1, <2>5, <2>6
  <2>8. Estimate(t) + Estimate(u) <= Budget + M * (Cut(t) + Cut(u))
    BY <1>1, <2>4, <2>5, <2>6, <2>7
  <2> QED BY <2>1, <2>3, <2>4, <2>5, <2>6, <2>8
          DEF BodiesFit, BodiesWithin, CutIsNeeded, Texts, M
<1> QED BY <1>3, <1>4

-----------------------------------------------------------------------------
BudgetTypeInv ==
    /\ stage \in {"read", "search", "trim", "send", "failed"}
    /\ body \in Bodies
    /\ sent \in Texts
    /\ kept \in Nat
    /\ \E n \in Nat : upTo \in [0..n -> Nat] /\ kept <= n
                      /\ (stage \in {"read", "search"} => n = kept)

BudgetInv ==
    /\ BudgetTypeInv
    /\ upTo[0] = 0
    /\ stage \in {"trim", "send"} => BodiesFit(body, sent)
    /\ stage \in {"trim", "send"} => \A k \in DOMAIN upTo : k > kept => ~ Fits(k)
    /\ stage = "send" => kept = 0 \/ Fits(kept)

LEMMA InitBudget == BudgetInit => BudgetInv
<1> SUFFICES ASSUME BudgetInit PROVE BudgetInv
  OBVIOUS
<1>1. Whole(0) \in Body /\ Whole(0) \in Text
  BY BudgetAssumption, MarkerAssumption DEF Body, Whole, Text
<1>2. upTo \in [0..0 -> Nat] /\ upTo[0] = 0
  BY DEF BudgetInit
<1>3. BudgetTypeInv
  BY <1>1, <1>2 DEF BudgetInit, BudgetTypeInv, Bodies, Texts
<1> QED BY <1>2, <1>3 DEF BudgetInit, BudgetInv

LEMMA BudgetStepKeeps == BudgetInv /\ [BudgetNext]_budgetVars => BudgetInv'
<1> SUFFICES ASSUME BudgetInv, [BudgetNext]_budgetVars PROVE BudgetInv'
  OBVIOUS
<1>1. CASE Read
  <2>1. body' \in Bodies /\ sent' = body'
    BY <1>1 DEF Read, Bodies
  <2>2. Body \subseteq Text
    BY BudgetAssumption, MarkerAssumption DEF Body, Whole, Text
  <2>3. sent' \in Texts
    BY <2>1, <2>2 DEF Bodies, Texts
  <2> QED BY <1>1, <2>1, <2>3 DEF Read, BudgetInv, BudgetTypeInv
<1>2. CASE GiveUp
  BY <1>2 DEF GiveUp, BudgetInv, BudgetTypeInv
<1>3. CASE AddPage
  <2>1. upTo \in [0..kept -> Nat] /\ kept \in Nat /\ upTo[0] = 0
    BY <1>3 DEF AddPage, BudgetInv, BudgetTypeInv
  <2>2. PICK t \in PageTokens :
            upTo' = [k \in 0..(kept + 1) |-> IF k <= kept THEN upTo[k] ELSE upTo[kept] + t]
    BY <1>3 DEF AddPage
  <2>3. t \in Nat /\ upTo[kept] \in Nat
    BY <2>1, BudgetAssumption
  <2>4. upTo' \in [0..(kept + 1) -> Nat] /\ upTo'[0] = 0
    BY <2>1, <2>2, <2>3
  <2>5. kept' = kept + 1 /\ kept' \in Nat
    BY <1>3, <2>1 DEF AddPage
  <2> QED BY <1>3, <2>4, <2>5 DEF AddPage, BudgetInv, BudgetTypeInv
<1>4. CASE Share
  <2>1. body \in Bodies /\ upTo \in [0..kept -> Nat] /\ kept \in Nat
    BY <1>4 DEF Share, BudgetInv, BudgetTypeInv
  <2>2. sent' \in Texts /\ BodiesFit(body, sent')
    BY <1>4, <2>1, SharedFits DEF Share
  <2>3. \A k \in DOMAIN upTo : ~ (k > kept)
    BY <2>1
  <2> QED BY <1>4, <2>1, <2>2, <2>3 DEF Share, BudgetInv, BudgetTypeInv
<1>5. CASE DropPage
  <2>1. kept \in Nat /\ kept' = kept - 1 /\ kept' \in Nat /\ UNCHANGED <<stage, body, sent, upTo>>
    BY <1>5 DEF DropPage, BudgetInv, BudgetTypeInv
  <2>2. \A k \in DOMAIN upTo : k > kept' => ~ Fits(k)
    <3> SUFFICES ASSUME NEW k \in DOMAIN upTo, k > kept' PROVE ~ Fits(k)
      OBVIOUS
    <3>1. k \in Nat
      BY DEF BudgetInv, BudgetTypeInv
    <3>2. k = kept \/ k > kept
      BY <2>1, <3>1
    <3> QED BY <1>5, <3>2 DEF DropPage, BudgetInv
  <2>3. (\A k \in DOMAIN upTo : k > kept => ~ Fits(k))'
    BY <2>1, <2>2 DEF Fits, Base
  <2>4. BudgetTypeInv'
    <3>1. PICK n \in Nat : upTo \in [0..n -> Nat] /\ kept <= n
      BY DEF BudgetInv, BudgetTypeInv
    <3>2. kept' <= n /\ stage \notin {"read", "search"}
      BY <1>5, <2>1, <3>1 DEF DropPage
    <3> QED BY <2>1, <3>1, <3>2 DEF BudgetInv, BudgetTypeInv
  <2> QED BY <1>5, <2>1, <2>3, <2>4 DEF DropPage, BudgetInv
<1>6. CASE SendPrompt
  BY <1>6 DEF SendPrompt, BudgetInv, BudgetTypeInv, Fits, Base
<1>7. CASE UNCHANGED budgetVars
  BY <1>7 DEF budgetVars, BudgetInv, BudgetTypeInv, Fits, Base
<1> QED BY <1>1, <1>2, <1>3, <1>4, <1>5, <1>6, <1>7 DEF BudgetNext

LEMMA BudgetFits == BudgetInv => PromptFits
<1> SUFFICES ASSUME BudgetInv, stage = "send"
             PROVE  /\ Base + upTo[kept] <= Budget + Tokens(MarkerChars)
                              * (Cut(sent.active) + Cut(sent.superseded))
                    /\ kept > 0 => Fits(kept)
  BY DEF PromptFits
<1> DEFINE extra == Tokens(MarkerChars) * (Cut(sent.active) + Cut(sent.superseded))
<1>1. Base <= Budget + extra
  BY DEF BudgetInv, BodiesFit, BodiesWithin, Base
<1>2. upTo[0] = 0 /\ kept \in Nat /\ (kept = 0 \/ Fits(kept))
  BY DEF BudgetInv, BudgetTypeInv
<1>3. extra \in Nat
  <2>1. Tokens(MarkerChars) \in Nat
    BY TokensNat, MarkerAssumption
  <2>2. Cut(sent.active) \in {0, 1} /\ Cut(sent.superseded) \in {0, 1}
    BY DEF Cut
  <2> QED BY <2>1, <2>2
<1>4. Base \in Nat
  <2>1. sent.active \in Text /\ sent.superseded \in Text \cup {NoText}
    BY DEF BudgetInv, BudgetTypeInv, Texts
  <2>2. ASSUME NEW t \in Text PROVE Estimate(t) \in Nat
    <3>1. t.text + t.marker \in Nat
      BY MarkerAssumption DEF Text
    <3> QED BY <3>1, TokensNat DEF Estimate
  <2>3. Estimate(NoText) = 0
    BY DEF Estimate
  <2> QED BY <2>1, <2>2, <2>3 DEF Base
<1>5. upTo[kept] \in Nat
  BY DEF BudgetInv, BudgetTypeInv
<1> HIDE DEF extra
<1>6. Base + upTo[kept] <= Budget + extra
  <2>1. CASE kept = 0
    BY <2>1, <1>1, <1>2, <1>4
  <2>2. CASE Fits(kept)
    BY <2>2, <1>3, <1>4, <1>5, BudgetAssumption DEF Fits
  <2> QED BY <1>2, <2>1, <2>2
<1> QED BY <1>2, <1>6 DEF extra

LEMMA BudgetNeeded == BudgetInv => NothingCutNeedlessly
  BY DEF BudgetInv, NothingCutNeedlessly, BodiesFit, CutIsNeeded

(***************************************************************************)
(* Every prompt that is sent fits the budget but for the markers (see      *)
(* compile_one_source: "an oversized prompt" cannot be "sneaked past").    *)
(***************************************************************************)
THEOREM PromptsFit == BudgetSpec => []PromptFits
<1>1. BudgetSpec => []BudgetInv
  BY InitBudget, BudgetStepKeeps, PTL DEF BudgetSpec
<1> QED BY <1>1, BudgetFits, PTL

(***************************************************************************)
(* And nothing is truncated or dropped that had room.                      *)
(***************************************************************************)
THEOREM NothingIsWasted == BudgetSpec => []NothingCutNeedlessly
<1>1. BudgetSpec => []BudgetInv
  BY InitBudget, BudgetStepKeeps, PTL DEF BudgetSpec
<1> QED BY <1>1, BudgetNeeded, PTL

-----------------------------------------------------------------------------
ExportedKey == ApiKey \cup {NoKey, Blank}

PromptRecord ==
    [at : {"new", "load", "set", "resolved", "sent", "keyless", "list", "done"},
     name : ProviderName \cup {NoModel}, from : Variable \cup {NoKey},
     then : {"resolved", "list", "done"}, key : ExportedKey]

ProviderTypeOK ==
    /\ shell \in [Variable -> ExportedKey] /\ variable \in [Variable -> ExportedKey]
    /\ saved \in [ProviderName -> ApiKey \cup {NoKey}]
    /\ everSaved \in [ProviderName -> SUBSET ApiKey]
    /\ prompt \in [Prompt -> PromptRecord]
    /\ changes \in Nat

-----------------------------------------------------------------------------
(***************************************************************************)
(* What makes KeysAreVouchedFor inductive: it is said of the variable, and *)
(* of a key on its way from the store into the variable.                   *)
(***************************************************************************)
SavedFor(v, key, ever) == \E n \in ProviderName : KeptIn(n, v) /\ key \in ever[n]

Vouched(v, key) ==
    IF IsMeaningfullySet(v, shell) THEN key = shell[v]
    ELSE key = Blank \/ SavedFor(v, key, everSaved)

SavedIsEverSaved == \A n \in ProviderName : saved[n] # NoKey => saved[n] \in everSaved[n]

VariablesVouched == \A v \in Variable : variable[v] = NoKey \/ Vouched(v, variable[v])

ExportedStays == \A v \in Variable : IsMeaningfullySet(v, shell) => variable[v] = shell[v]

LoadsVouched ==
    \A p \in Prompt :
        /\ prompt[p].at \in {"load", "set"} =>
              /\ prompt[p].from \in Variable /\ ~IsMeaningfullySet(prompt[p].from, shell)
              /\ prompt[p].name \in ProviderName /\ KeptIn(prompt[p].name, prompt[p].from)
        /\ prompt[p].at = "set" => prompt[p].key \in everSaved[prompt[p].name]
        /\ prompt[p].at = "sent" /\ prompt[p].from # NoKey => Vouched(prompt[p].from, prompt[p].key)

KeyInv ==
    /\ ProviderTypeOK
    /\ SavedIsEverSaved
    /\ VariablesVouched
    /\ ExportedStays
    /\ LoadsVouched

-----------------------------------------------------------------------------
(***************************************************************************)
(* The variable a prompt takes its key from is one that provider's key is  *)
(* kept in, whatever base URL the caller gives.                            *)
(***************************************************************************)
LEMMA OptionsVariable ==
    ASSUME ProviderAssumption, NEW w \in Vault \cup {NoVault}, NEW n \in ProviderName, NEW given \in BOOLEAN
    PROVE  /\ KeyVariableOf(n, ApplyOverrides(VaultOptions(w, n), given)) = KeyVariableOf(n, VaultOptions(w, n))
           /\ KeyVariableOf(n, VaultOptions(w, n)) \in Variable \cup {NoKey}
           /\ KeptIn(n, KeyVariableOf(n, VaultOptions(w, n)))
<1>1. KeyVariableOf(n, ApplyOverrides(VaultOptions(w, n), given)) = KeyVariableOf(n, VaultOptions(w, n))
  BY DEF KeyVariableOf, ApplyOverrides, VaultOptions
<1>2. KeyVariableOf(n, VaultOptions(w, n)) \in Variable \cup {NoKey}
  BY DEF KeyVariableOf, VaultOptions, VaultConfig, ProviderAssumption
<1>3. KeptIn(n, KeyVariableOf(n, VaultOptions(w, n)))
  BY DEF KeptIn
<1> QED  BY <1>1, <1>2, <1>3

(***************************************************************************)
(* What was saved stays in the history, so what is vouched for stays so.   *)
(***************************************************************************)
LEMMA VouchedStays ==
    ASSUME everSaved \in [ProviderName -> SUBSET ApiKey], shell' = shell,
           \A n \in ProviderName : everSaved[n] \subseteq everSaved'[n],
           NEW v, NEW key, Vouched(v, key)
    PROVE  Vouched(v, key)'
<1> USE DEF Vouched, IsMeaningfullySet
<1>1. CASE IsMeaningfullySet(v, shell)
  BY <1>1
<1>2. CASE ~IsMeaningfullySet(v, shell)
  <2>1. SavedFor(v, key, everSaved) => SavedFor(v, key, everSaved)'
    BY DEF SavedFor, KeptIn
  <2> QED  BY <1>2, <2>1
<1> QED  BY <1>1, <1>2

\* At the start nothing was loaded yet: what is exported is vouched for by being exported.
LEMMA KeyInvInit ==
    ASSUME ProviderAssumption, ProviderInit
    PROVE  KeyInv
<1> USE DEF ProviderInit
<1>1. ProviderTypeOK
  BY DEF ProviderTypeOK, PromptRecord, NoPrompt, ExportedKey
<1>2. SavedIsEverSaved
  BY DEF SavedIsEverSaved
<1>3. VariablesVouched
  BY DEF VariablesVouched, Vouched, IsMeaningfullySet, ExportedKey
<1>4. ExportedStays
  BY DEF ExportedStays
<1>5. LoadsVouched
  BY DEF LoadsVouched, NoPrompt
<1> QED  BY <1>1, <1>2, <1>3, <1>4, <1>5 DEF KeyInv

(***************************************************************************)
(* A step of one prompt, which may set a variable that nothing was         *)
(* exported in to a key that is vouched for.                               *)
(***************************************************************************)
LEMMA PromptSets ==
    ASSUME ProviderAssumption, KeyInv, NEW p \in Prompt, NEW r \in PromptRecord,
           prompt' = [prompt EXCEPT ![p] = r],
           UNCHANGED <<shell, saved, changes, everSaved>>,
           variable' \in [Variable -> ExportedKey],
           \A v \in Variable : variable'[v] # variable[v]
               => ~IsMeaningfullySet(v, shell) /\ Vouched(v, variable'[v]),
           r.at \in {"load", "set"} =>
               /\ r.from \in Variable /\ ~IsMeaningfullySet(r.from, shell)
               /\ r.name \in ProviderName /\ KeptIn(r.name, r.from),
           r.at = "set" => r.key \in everSaved[r.name],
           r.at = "sent" /\ r.from # NoKey => Vouched(r.from, r.key)
    PROVE  KeyInv'
<1> USE DEF KeyInv
<1>1. ProviderTypeOK'
  BY DEF ProviderTypeOK
<1>2. SavedIsEverSaved'
  BY DEF SavedIsEverSaved
<1>3. VariablesVouched'
  BY VouchedStays DEF VariablesVouched, ProviderTypeOK
<1>4. ExportedStays'
  BY DEF ExportedStays, IsMeaningfullySet
<1>5. LoadsVouched'
  <2> SUFFICES ASSUME NEW q \in Prompt
               PROVE  /\ (prompt'[q].at \in {"load", "set"} =>
                            /\ prompt'[q].from \in Variable /\ ~IsMeaningfullySet(prompt'[q].from, shell)
                            /\ prompt'[q].name \in ProviderName /\ KeptIn(prompt'[q].name, prompt'[q].from))
                      /\ (prompt'[q].at = "set" => prompt'[q].key \in everSaved[prompt'[q].name])
                      /\ (prompt'[q].at = "sent" /\ prompt'[q].from # NoKey
                            => Vouched(prompt'[q].from, prompt'[q].key))
    BY DEF LoadsVouched, Vouched, SavedFor, KeptIn, IsMeaningfullySet
  <2>1. CASE q = p
    BY <2>1 DEF ProviderTypeOK
  <2>2. CASE q # p
    <3>1. prompt'[q] = prompt[q]
      BY <2>2 DEF ProviderTypeOK
    <3> QED  BY <3>1 DEF LoadsVouched
  <2> QED  BY <2>1, <2>2
<1> QED  BY <1>1, <1>2, <1>3, <1>4, <1>5

\* A step of one prompt that leaves the environment alone.
LEMMA PromptMoves ==
    ASSUME ProviderAssumption, KeyInv, NEW p \in Prompt, NEW r \in PromptRecord,
           prompt' = [prompt EXCEPT ![p] = r],
           UNCHANGED <<shell, variable, saved, changes, everSaved>>,
           r.at \in {"load", "set"} =>
               /\ r.from \in Variable /\ ~IsMeaningfullySet(r.from, shell)
               /\ r.name \in ProviderName /\ KeptIn(r.name, r.from),
           r.at = "set" => r.key \in everSaved[r.name],
           r.at = "sent" /\ r.from # NoKey => Vouched(r.from, r.key)
    PROVE  KeyInv'
<1>1. variable' \in [Variable -> ExportedKey] /\ \A v \in Variable : variable'[v] = variable[v]
  BY DEF KeyInv, ProviderTypeOK
<1>2. UNCHANGED <<shell, saved, changes, everSaved>>
  OBVIOUS
<1> QED  BY <1>1, <1>2, PromptSets

\* What PromptGoesTo makes of a prompt.
LEMMA Goes ==
    ASSUME ProviderTypeOK, NEW p \in Prompt, NEW at \in {"resolved", "list", "done"}, PromptGoesTo(p, at)
    PROVE  \E r \in PromptRecord :
              /\ r.at = at /\ prompt' = [prompt EXCEPT ![p] = r]
              /\ at # "done" => r.name = prompt[p].name /\ r.from = prompt[p].from
<1>1. CASE at = "done"
  BY <1>1 DEF PromptGoesTo, PromptRecord, NoPrompt, ExportedKey
<1>2. CASE at # "done"
  <2> DEFINE r == [prompt[p] EXCEPT !.at = at]
  <2>1. prompt[p] \in PromptRecord
    BY DEF ProviderTypeOK
  <2>2. r \in PromptRecord /\ r.at = at /\ r.name = prompt[p].name /\ r.from = prompt[p].from
    BY <2>1 DEF PromptRecord
  <2>3. prompt' = [prompt EXCEPT ![p] = r]
    BY <1>2 DEF PromptGoesTo, ProviderTypeOK
  <2> QED  BY <2>2, <2>3
<1> QED  BY <1>1, <1>2

\* A prompt that goes on or ends with what it has keeps KeyInv, unless it sends.
LEMMA PromptGoes ==
    ASSUME ProviderAssumption, KeyInv, NEW p \in Prompt, NEW at \in {"resolved", "list", "done"},
           PromptGoesTo(p, at), UNCHANGED <<shell, variable, saved, changes, everSaved>>
    PROVE  KeyInv'
<1>1. PICK r \in PromptRecord : r.at = at /\ prompt' = [prompt EXCEPT ![p] = r]
  BY Goes DEF KeyInv
<1> QED  BY <1>1, PromptMoves

(***************************************************************************)
(* resolve_provider_target leaves a prompt that will look in the store     *)
(* only if nothing meaningful is exported, for a variable of its provider. *)
(***************************************************************************)
LEMMA ResolveKeeps ==
    ASSUME ProviderAssumption, KeyInv, NEW p \in Prompt, NEW n \in ProviderName, NEW options,
           NEW then \in {"resolved", "list"}, Resolve(p, n, options, then),
           KeyVariableOf(n, options) \in Variable \cup {NoKey},
           KeptIn(n, KeyVariableOf(n, options))
    PROVE  KeyInv'
<1>1. CASE PromptGoesTo(p, "done")
  BY <1>1, PromptGoes DEF Resolve
<1>2. CASE ~PromptGoesTo(p, "done")
  <2> DEFINE from == KeyVariableOf(n, options)
             onward == IF HasEndpoint(n, options) THEN then ELSE "done"
             r == [at |-> IF from # NoKey /\ ~IsMeaningfullySet(from, variable) THEN "load" ELSE onward,
                   name |-> n, from |-> from, then |-> onward, key |-> NoKey]
  <2>1. prompt' = [prompt EXCEPT ![p] = r]
    BY <1>2 DEF Resolve
  <2>2. r \in PromptRecord
    BY DEF PromptRecord, ExportedKey
  <2>3. r.at = "load" => ~IsMeaningfullySet(from, shell)
    BY DEF KeyInv, ExportedStays, IsMeaningfullySet
  <2>4. r.at # "set" /\ r.at # "sent" /\ (r.at = "load" => from \in Variable)
    OBVIOUS
  <2> QED  BY <2>1, <2>2, <2>3, <2>4, PromptMoves DEF Resolve
<1> QED  BY <1>1, <1>2

\* Every action keeps KeyInv; SetVar is the one that needs LoadsVouched, Send the one that makes it.
LEMMA KeyInvNext ==
    ASSUME ProviderAssumption, KeyInv, [ProviderNext]_providerVars
    PROVE  KeyInv'
<1>1. ASSUME NEW p \in Prompt, NEW w \in Vault, NEW explicit \in ProviderName \cup {NoModel},
             NEW given \in BOOLEAN, CompilePrompt(p, w, explicit, given)
      PROVE  KeyInv'
  <2>1. PICK n \in ProviderName : Resolve(p, n, ApplyOverrides(VaultOptions(w, n), given), "resolved")
    BY <1>1 DEF CompilePrompt, ModelSpec, VaultConfig, ProviderAssumption
  <2> QED  BY <2>1, OptionsVariable, ResolveKeeps
<1>2. ASSUME NEW p \in Prompt, NEW w \in Vault \cup {NoVault}, NEW n \in ProviderName, ListModels(p, w, n)
      PROVE  KeyInv'
  BY <1>2, OptionsVariable, ResolveKeeps DEF ListModels
<1>3. ASSUME NEW p \in Prompt, NoModelNamed(p)
      PROVE  KeyInv'
  BY <1>3, PromptGoes DEF NoModelNamed
<1>4. ASSUME NEW p \in Prompt, LoadSavedKey(p)
      PROVE  KeyInv'
  <2> USE <1>4 DEF LoadSavedKey
  <2>1. prompt[p] \in PromptRecord
    BY DEF KeyInv, ProviderTypeOK
  <2>2. CASE PromptGoesTo(p, prompt[p].then)
    BY <2>1, <2>2, PromptGoes DEF PromptRecord
  <2>3. CASE ~PromptGoesTo(p, prompt[p].then)
    <3> DEFINE r == [prompt[p] EXCEPT !.at = "set", !.key = saved[prompt[p].name]]
    <3>1. /\ prompt[p].name \in ProviderName /\ prompt[p].from \in Variable
          /\ ~IsMeaningfullySet(prompt[p].from, shell) /\ KeptIn(prompt[p].name, prompt[p].from)
      BY DEF KeyInv, LoadsVouched
    <3>2. saved[prompt[p].name] \in ApiKey /\ saved[prompt[p].name] \in everSaved[prompt[p].name]
      BY <2>3, <3>1 DEF KeyInv, ProviderTypeOK, SavedIsEverSaved
    <3>3. r \in PromptRecord /\ r.at = "set" /\ r.key = saved[prompt[p].name]
          /\ r.name = prompt[p].name /\ r.from = prompt[p].from
      BY <2>1, <3>2 DEF PromptRecord, ExportedKey
    <3>4. prompt' = [prompt EXCEPT ![p] = r]
      BY <2>3 DEF KeyInv, ProviderTypeOK
    <3> HIDE DEF r
    <3> QED  BY <3>1, <3>2, <3>3, <3>4, PromptMoves
  <2> QED  BY <2>2, <2>3
<1>5. ASSUME NEW p \in Prompt, SetVar(p)
      PROVE  KeyInv'
  <2> USE <1>5 DEF SetVar
  <2>1. prompt[p] \in PromptRecord /\ variable \in [Variable -> ExportedKey]
    BY DEF KeyInv, ProviderTypeOK
  <2>2. prompt[p].from \in Variable /\ ~IsMeaningfullySet(prompt[p].from, shell)
    BY DEF KeyInv, LoadsVouched
  <2>3. Vouched(prompt[p].from, prompt[p].key)
    BY <2>2 DEF KeyInv, LoadsVouched, Vouched, SavedFor
  <2>4. variable' \in [Variable -> ExportedKey] /\ prompt[p].then \in {"resolved", "list", "done"}
    BY <2>1 DEF PromptRecord
  <2>5. \A v \in Variable : variable'[v] # variable[v]
               => ~IsMeaningfullySet(v, shell) /\ Vouched(v, variable'[v])
    BY <2>1, <2>2, <2>3
  <2>6. PICK r \in PromptRecord : r.at = prompt[p].then /\ prompt' = [prompt EXCEPT ![p] = r]
    BY <2>4, Goes DEF KeyInv
  <2> QED  BY <2>4, <2>5, <2>6, PromptSets
<1>6. ASSUME NEW p \in Prompt, Send(p)
      PROVE  KeyInv'
  <2> USE <1>6 DEF Send
  <2> DEFINE from == prompt[p].from
             key == IF from # NoKey THEN variable[from] ELSE NoKey
             r == [prompt[p] EXCEPT !.key = key, !.at = IF from # NoKey /\ key = NoKey THEN "keyless" ELSE "sent"]
  <2>1. prompt[p] \in PromptRecord /\ variable \in [Variable -> ExportedKey]
    BY DEF KeyInv, ProviderTypeOK
  <2>2. r \in PromptRecord /\ r.at \in {"sent", "keyless"} /\ r.key = key /\ r.from = from
    BY <2>1 DEF PromptRecord, ExportedKey
  <2>3. r.at = "sent" /\ from # NoKey => Vouched(from, key)
    BY <2>1 DEF KeyInv, VariablesVouched, PromptRecord
  <2>4. prompt' = [prompt EXCEPT ![p] = r]
    BY DEF KeyInv, ProviderTypeOK
  <2> HIDE DEF r, key
  <2> QED  BY <2>1, <2>2, <2>3, <2>4, PromptMoves
<1>7. ASSUME NEW p \in Prompt, Answer(p)
      PROVE  KeyInv'
  BY <1>7, PromptGoes DEF Answer
<1>8. ASSUME NEW n \in ProviderName \ Keyless, NEW key \in ApiKey \cup {NoKey}, SaveOrClear(n, key)
      PROVE  KeyInv'
  <2> USE <1>8 DEF SaveOrClear, KeyInv
  <2>1. ProviderTypeOK'
    BY DEF ProviderTypeOK
  <2>2. \A m \in ProviderName : everSaved[m] \subseteq everSaved'[m]
    BY DEF ProviderTypeOK
  <2>3. SavedIsEverSaved'
    BY <2>2 DEF SavedIsEverSaved, ProviderTypeOK
  <2>4. VariablesVouched'
    BY <2>2, VouchedStays DEF VariablesVouched, ProviderTypeOK
  <2>5. ExportedStays'
    BY DEF ExportedStays, IsMeaningfullySet
  <2>6. \A p \in Prompt : prompt[p].at = "sent" /\ prompt[p].from # NoKey
                             => Vouched(prompt[p].from, prompt[p].key)'
    BY <2>2, VouchedStays DEF LoadsVouched, ProviderTypeOK
  <2>7. LoadsVouched'
    BY <2>2, <2>6 DEF LoadsVouched, KeptIn, IsMeaningfullySet
  <2> QED  BY <2>1, <2>3, <2>4, <2>5, <2>7
<1>9. CASE UNCHANGED providerVars
  BY <1>9 DEF providerVars, KeyInv, ProviderTypeOK, SavedIsEverSaved, VariablesVouched, ExportedStays,
              LoadsVouched, Vouched, SavedFor, KeptIn, IsMeaningfullySet
<1> QED  BY <1>1, <1>2, <1>3, <1>4, <1>5, <1>6, <1>7, <1>8, <1>9 DEF ProviderNext

(***************************************************************************)
(* The key a request to a provider carries is the one the operator         *)
(* exported in that variable, if there is one; else one saved for a        *)
(* provider whose key is kept there: however many prompts of one process   *)
(* load keys into its environment at the same time                         *)
(* (seed_env_from_credential_storage, execute_compile_prompt).             *)
(***************************************************************************)
THEOREM PromptKeysAreVouchedFor == ProviderSpec => []KeysAreVouchedFor
<1>1. ProviderInit => KeyInv
  BY KeyInvInit, ProviderAssumption
<1>2. KeyInv /\ [ProviderNext]_providerVars => KeyInv'
  BY KeyInvNext, ProviderAssumption
<1>3. KeyInv => KeysAreVouchedFor
  BY DEF KeyInv, LoadsVouched, KeysAreVouchedFor, Vouched, SavedFor
<1> QED  BY <1>1, <1>2, <1>3, PTL DEF ProviderSpec

(***************************************************************************)
(* What makes ConfiguredIsKeyed inductive: a prompt that has looked in the *)
(* store finds its variable set, and goes on finding it set.               *)
(***************************************************************************)
KeyedPrompt(r, names, env) ==
    /\ r.at = "resolved" /\ r.from # NoKey /\ r.name \in names /\ saved[r.name] # NoKey
            => env[r.from] \in ApiKey
    /\ r.at \in {"sent", "keyless"} /\ r.from # NoKey =>
            /\ (r.name \in names /\ saved[r.name] # NoKey => r.key \in ApiKey)
            /\ (IsMeaningfullySet(r.from, shell) => r.key = shell[r.from])

KeyedInv ==
    /\ untouched \in SUBSET ProviderName
    /\ \A p \in Prompt : KeyedPrompt(prompt[p], untouched, variable)

WithKey(x, key, at) == [x EXCEPT !.at = at, !.key = key]

LEMMA KeyTaken ==
    ASSUME NEW x \in PromptRecord, NEW key \in ExportedKey, NEW at \in {"set", "sent", "keyless"}
    PROVE  /\ WithKey(x, key, at) \in PromptRecord
           /\ WithKey(x, key, at).at = at /\ WithKey(x, key, at).key = key
           /\ WithKey(x, key, at).from = x.from /\ WithKey(x, key, at).name = x.name
  BY DEF PromptRecord, WithKey

LEMMA KeyThenStage ==
    ASSUME NEW x \in PromptRecord, NEW key \in ExportedKey, NEW at \in {"set", "sent", "keyless"}
    PROVE  [x EXCEPT !.key = key, !.at = at] = WithKey(x, key, at)
  BY DEF PromptRecord, WithKey

\* A step of one prompt that takes no key out of the environment.
LEMMA KeyedMoves ==
    ASSUME KeyInv, KeyedInv, NEW p \in Prompt, NEW r \in PromptRecord, prompt' = [prompt EXCEPT ![p] = r],
           UNCHANGED <<shell, saved>>, untouched' \in SUBSET untouched,
           \A v \in Variable : variable[v] \in ApiKey => variable'[v] \in ApiKey,
           KeyedPrompt(r, untouched', variable')
    PROVE  KeyedInv'
<1>1. ASSUME NEW q \in Prompt
      PROVE  KeyedPrompt(prompt'[q], untouched', variable')
  <2>1. prompt'[q] = IF q = p THEN r ELSE prompt[q]
    BY DEF KeyInv, ProviderTypeOK
  <2>2. prompt[q].from \in Variable \cup {NoKey}
    BY DEF KeyInv, ProviderTypeOK, PromptRecord
  <2>3. KeyedPrompt(prompt[q], untouched', variable')
    BY <2>2 DEF KeyedInv, KeyedPrompt
  <2> QED  BY <2>1, <2>3
<1>2. (\A q \in Prompt : KeyedPrompt(prompt[q], untouched, variable))'
  BY <1>1 DEF KeyedPrompt, IsMeaningfullySet
<1> QED  BY <1>2 DEF KeyedInv

\* Going to the end, or to the list of models, asks nothing of the variable.
LEMMA KeyedGoes ==
    ASSUME KeyInv, KeyedInv, NEW p \in Prompt, NEW at \in {"list", "done"}, PromptGoesTo(p, at),
           UNCHANGED <<shell, variable, saved>>, untouched' \in SUBSET untouched
    PROVE  KeyedInv'
<1>1. PICK r \in PromptRecord : r.at = at /\ prompt' = [prompt EXCEPT ![p] = r]
  BY Goes DEF KeyInv
<1>2. KeyedPrompt(r, untouched', variable')
  BY <1>1 DEF KeyedPrompt
<1> QED  BY <1>1, <1>2, KeyedMoves

\* A prompt that skips the store has found its variable set.
LEMMA KeyedResolve ==
    ASSUME ProviderAssumption, KeyInv, KeyedInv, NEW p \in Prompt, NEW n \in ProviderName, NEW options,
           NEW then \in {"resolved", "list"}, Resolve(p, n, options, then),
           KeyVariableOf(n, options) \in Variable \cup {NoKey}
    PROVE  KeyedInv'
<1>1. CASE PromptGoesTo(p, "done")
  BY <1>1, KeyedGoes DEF Resolve
<1>2. CASE ~PromptGoesTo(p, "done")
  <2> DEFINE from == KeyVariableOf(n, options)
             onward == IF HasEndpoint(n, options) THEN then ELSE "done"
             r == [at |-> IF from # NoKey /\ ~IsMeaningfullySet(from, variable) THEN "load" ELSE onward,
                   name |-> n, from |-> from, then |-> onward, key |-> NoKey]
  <2>1. prompt' = [prompt EXCEPT ![p] = r]
    BY <1>2 DEF Resolve
  <2>2. r \in PromptRecord
    BY DEF PromptRecord, ExportedKey
  <2>3. from \in Variable /\ IsMeaningfullySet(from, variable) => variable[from] \in ApiKey
    BY DEF KeyInv, ProviderTypeOK, IsMeaningfullySet, ExportedKey
  <2>4. KeyedPrompt(r, untouched', variable')
    BY <2>3 DEF KeyedPrompt, Resolve
  <2> QED  BY <2>1, <2>2, <2>4, KeyedMoves DEF Resolve
<1> QED  BY <1>1, <1>2

\* Every action keeps KeyedInv: a saved key that changes, or a store that fails, takes a name out of untouched.
LEMMA KeyedNext ==
    ASSUME ProviderAssumption, KeyInv, KeyedInv, [ProviderNext]_providerVars
    PROVE  KeyedInv'
<1>0. \A p \in Prompt : prompt[p] \in PromptRecord
  BY DEF KeyInv, ProviderTypeOK
<1>1. ASSUME NEW p \in Prompt, NEW w \in Vault, NEW explicit \in ProviderName \cup {NoModel},
             NEW given \in BOOLEAN, CompilePrompt(p, w, explicit, given)
      PROVE  KeyedInv'
  <2>1. PICK n \in ProviderName : Resolve(p, n, ApplyOverrides(VaultOptions(w, n), given), "resolved")
    BY <1>1 DEF CompilePrompt, ModelSpec, VaultConfig, ProviderAssumption
  <2> QED  BY <2>1, OptionsVariable, KeyedResolve
<1>2. ASSUME NEW p \in Prompt, NEW w \in Vault \cup {NoVault}, NEW n \in ProviderName, ListModels(p, w, n)
      PROVE  KeyedInv'
  BY <1>2, OptionsVariable, KeyedResolve DEF ListModels
<1>3. ASSUME NEW p \in Prompt, NoModelNamed(p) \/ Answer(p)
      PROVE  KeyedInv'
  BY <1>3, KeyedGoes DEF NoModelNamed, Answer, KeyedInv
<1>4. ASSUME NEW p \in Prompt, LoadSavedKey(p)
      PROVE  KeyedInv'
  <2> USE <1>4 DEF LoadSavedKey
  <2>1. CASE PromptGoesTo(p, prompt[p].then)
    <3>1. PICK r \in PromptRecord :
             /\ r.at = prompt[p].then /\ prompt' = [prompt EXCEPT ![p] = r]
             /\ r.at # "done" => r.name = prompt[p].name
      BY <1>0, <2>1, Goes DEF KeyInv, PromptRecord
    <3>2. r.at \in {"resolved", "list", "done"}
      BY <1>0, <3>1 DEF PromptRecord
    <3>3. saved[prompt[p].name] = NoKey \/ prompt[p].name \notin untouched'
      BY <2>1 DEF PromptGoesTo, NoPrompt, KeyInv, ProviderTypeOK, PromptRecord
    <3>4. KeyedPrompt(r, untouched', variable')
      BY <3>1, <3>2, <3>3 DEF KeyedPrompt
    <3>5. untouched' \in SUBSET untouched
      BY DEF KeyedInv
    <3> QED  BY <3>1, <3>4, <3>5, KeyedMoves
  <2>2. CASE ~PromptGoesTo(p, prompt[p].then)
    <3> DEFINE r == [prompt[p] EXCEPT !.at = "set", !.key = saved[prompt[p].name]]
    <3>1. prompt[p].name \in ProviderName
      BY DEF KeyInv, LoadsVouched
    <3>2. saved[prompt[p].name] \in ApiKey
      BY <2>2, <3>1 DEF KeyInv, ProviderTypeOK
    <3>3. r \in PromptRecord /\ r.at = "set"
      <4>1. prompt[p] \in PromptRecord /\ saved[prompt[p].name] \in ExportedKey
        BY <1>0, <3>2 DEF ExportedKey
      <4>2. r = WithKey(prompt[p], saved[prompt[p].name], "set")
        BY DEF WithKey
      <4> HIDE DEF r
      <4> QED  BY ONLY <4>1, <4>2, KeyTaken
    <3>4. prompt' = [prompt EXCEPT ![p] = r] /\ untouched' = untouched
      BY <2>2 DEF KeyInv, ProviderTypeOK
    <3> HIDE DEF r
    <3>5. KeyedPrompt(r, untouched', variable')
      BY <3>3 DEF KeyedPrompt
    <3> QED  BY <3>3, <3>4, <3>5, KeyedMoves
  <2> QED  BY <2>1, <2>2
<1>5. ASSUME NEW p \in Prompt, SetVar(p)
      PROVE  KeyedInv'
  <2> USE <1>5 DEF SetVar
  <2>1. PICK r \in PromptRecord :
           /\ r.at = prompt[p].then /\ prompt' = [prompt EXCEPT ![p] = r]
           /\ r.at # "done" => r.from = prompt[p].from
    BY <1>0, Goes DEF KeyInv, PromptRecord
  <2>2. /\ prompt[p].from \in Variable /\ prompt[p].key \in ApiKey
        /\ r.at \in {"resolved", "list", "done"}
    BY <1>0, <2>1 DEF KeyInv, LoadsVouched, ProviderTypeOK, PromptRecord
  <2>3. /\ variable'[prompt[p].from] = prompt[p].key
        /\ \A v \in Variable : variable[v] \in ApiKey => variable'[v] \in ApiKey
    BY <2>2 DEF KeyInv, ProviderTypeOK
  <2>4. KeyedPrompt(r, untouched', variable')
    BY <2>1, <2>2, <2>3 DEF KeyedPrompt
  <2> QED  BY <2>1, <2>3, <2>4, KeyedMoves DEF KeyedInv
<1>6. ASSUME NEW p \in Prompt, Send(p)
      PROVE  KeyedInv'
  <2> USE <1>6 DEF Send
  <2> DEFINE from == prompt[p].from
             key == IF from # NoKey THEN variable[from] ELSE NoKey
             at == IF from # NoKey /\ key = NoKey THEN "keyless" ELSE "sent"
             r == [prompt[p] EXCEPT !.key = key, !.at = at]
  <2>1. /\ from \in Variable \cup {NoKey} /\ variable \in [Variable -> ExportedKey]
        /\ KeyedPrompt(prompt[p], untouched, variable)
    BY <1>0 DEF KeyInv, ProviderTypeOK, PromptRecord, KeyedInv
  <2>2. /\ r \in PromptRecord /\ r.at \in {"sent", "keyless"}
        /\ r.key = key /\ r.from = from /\ r.name = prompt[p].name
    <3>1. prompt[p] \in PromptRecord
      BY <1>0
    <3>2. key \in ExportedKey
      BY ONLY <2>1 DEF ExportedKey
    <3>3. at \in {"set", "sent", "keyless"} /\ at \in {"sent", "keyless"}
      OBVIOUS
    <3> DEFINE x == prompt[p]
    <3> HIDE DEF key, at, x
    <3>4. x \in PromptRecord
      BY ONLY <3>1 DEF x
    <3>5. /\ WithKey(x, key, at) \in PromptRecord
          /\ WithKey(x, key, at).at = at /\ WithKey(x, key, at).key = key
          /\ WithKey(x, key, at).from = x.from /\ WithKey(x, key, at).name = x.name
      BY ONLY <3>2, <3>3, <3>4, KeyTaken
    <3>6. r = [x EXCEPT !.key = key, !.at = at] /\ x.from = from /\ x.name = prompt[p].name
      BY DEF x
    <3>7. [x EXCEPT !.key = key, !.at = at] = WithKey(x, key, at)
      BY ONLY <3>2, <3>3, <3>4, KeyThenStage
    <3>8. r = WithKey(x, key, at)
      BY ONLY <3>6, <3>7
    <3> HIDE DEF r, from
    <3> QED  BY ONLY <3>3, <3>5, <3>6, <3>8
  <2>3. from # NoKey /\ IsMeaningfullySet(from, shell) => key = shell[from]
    BY <2>1 DEF KeyInv, ExportedStays
  <2>4. from # NoKey /\ prompt[p].name \in untouched /\ saved[prompt[p].name] # NoKey => key \in ApiKey
    BY <2>1 DEF KeyedPrompt
  <2>5. prompt' = [prompt EXCEPT ![p] = r]
    BY DEF KeyInv, ProviderTypeOK
  <2> HIDE DEF r, key, at
  <2>6. KeyedPrompt(r, untouched', variable')
    BY <2>2, <2>3, <2>4 DEF KeyedPrompt
  <2> QED  BY <2>2, <2>5, <2>6, KeyedMoves DEF KeyedInv
<1>7. ASSUME NEW n \in ProviderName \ Keyless, NEW key \in ApiKey \cup {NoKey}, SaveOrClear(n, key)
      PROVE  KeyedInv'
  BY <1>7 DEF SaveOrClear, KeyInv, ProviderTypeOK, KeyedInv, KeyedPrompt, IsMeaningfullySet
<1>8. CASE UNCHANGED providerVars
  BY <1>8 DEF providerVars, KeyedInv, KeyedPrompt, IsMeaningfullySet
<1> QED  BY <1>1, <1>2, <1>3, <1>4, <1>5, <1>6, <1>7, <1>8 DEF ProviderNext

(***************************************************************************)
(* What test-connection calls configured sends its requests with a key     *)
(* (provider_is_configured and resolve_provider_target agree), unless the  *)
(* vault names another variable, the saved key has changed meanwhile, or   *)
(* the store could not be read.                                            *)
(***************************************************************************)
THEOREM ConfiguredProvidersAreKeyed == ProviderSpec => []ConfiguredIsKeyed
<1>1. ProviderInit => KeyInv /\ KeyedInv
  <2>1. ProviderInit => KeyedInv
    BY DEF ProviderInit, KeyedInv, KeyedPrompt, NoPrompt
  <2> QED  BY <2>1, KeyInvInit, ProviderAssumption
<1>2. (KeyInv /\ KeyedInv) /\ [ProviderNext]_providerVars => (KeyInv /\ KeyedInv)'
  BY KeyInvNext, KeyedNext, ProviderAssumption
<1>3. KeyInv /\ KeyedInv => ConfiguredIsKeyed
  <2> SUFFICES ASSUME KeyInv, KeyedInv, NEW p \in Prompt, prompt[p].at \in {"sent", "keyless"},
                      prompt[p].name \in (Known \cap untouched) \ Keyless,
                      prompt[p].from = KeyVariable[prompt[p].name], IsConfigured(prompt[p].name)
               PROVE  prompt[p].key \in ApiKey
    BY DEF ConfiguredIsKeyed
  <2>1. prompt[p].from \in Variable /\ prompt[p].from # NoKey
    BY ProviderAssumption DEF ProviderAssumption
  <2>2. KeyedPrompt(prompt[p], untouched, variable)
    BY DEF KeyedInv
  <2>3. CASE IsMeaningfullySet(prompt[p].from, shell)
    BY <2>1, <2>2, <2>3 DEF KeyedPrompt, IsMeaningfullySet, KeyInv, ProviderTypeOK, ExportedKey
  <2>4. CASE ~IsMeaningfullySet(prompt[p].from, shell)
    BY <2>1, <2>2, <2>4 DEF KeyedPrompt, IsConfigured
  <2> QED  BY <2>3, <2>4
<1> QED  BY <1>1, <1>2, <1>3, PTL DEF ProviderSpec

-----------------------------------------------------------------------------
(***************************************************************************)
(* What makes RequestsCarryTheRightToken inductive: the token is right     *)
(* from the moment it is chosen, and what is cached is the operator's.     *)
(***************************************************************************)
IngestRecord ==
    [at : {"new", "waiting", "authorize", "execute", "dispatch", "done"},
     source : {"web", "file"}, header : Pat \cup {NoPat}, key : Pat \cup {NoPat},
     sends : Nat, ok : BOOLEAN]

FetchTypeOK ==
    /\ process \in {"cli", "stdio", "http"} /\ transport \in Transport
    /\ process # "cli" => transport = process
    /\ exported \in Pat \cup {NoPat} /\ savedPat \in Pat \cup {NoPat} /\ cachedPat \in Pat \cup {NoPat}
    /\ ingest \in [Ingest -> IngestRecord]
    /\ savedEver \in SUBSET Pat

IsOperators(key) == IF exported # NoPat THEN key = exported ELSE key \in savedEver

RightToken(call) == IF process = "http" THEN call.key = call.header ELSE IsOperators(call.key)

CallOK(call) ==
    /\ process # "http" => call.header = NoPat
    /\ call.at \in {"new", "waiting", "authorize"} => call.sends = 0
    /\ call.at \in {"execute", "dispatch"} \/ call.sends > 0 => RightToken(call)

TokenInv ==
    /\ FetchTypeOK
    /\ savedPat # NoPat => savedPat \in savedEver
    /\ cachedPat # NoPat => IsOperators(cachedPat)
    /\ \A c \in Ingest : CallOK(ingest[c])

\* At the start nothing is cached and nobody has called.
LEMMA TokenInvInit ==
    ASSUME FetchInit
    PROVE  TokenInv
BY DEF FetchInit, TokenInv, FetchTypeOK, IngestRecord, NotAsked, Transport, CallOK

(***************************************************************************)
(* A step of one call that leaves the tokens alone.                        *)
(***************************************************************************)
LEMMA CallMoves ==
    ASSUME TokenInv, NEW c \in Ingest, NEW call \in IngestRecord,
           ingest' = [ingest EXCEPT ![c] = call],
           UNCHANGED <<process, transport, exported, savedPat, savedEver>>,
           cachedPat' \in Pat \cup {NoPat}, cachedPat' # NoPat => IsOperators(cachedPat'),
           CallOK(call)
    PROVE  TokenInv'
<1> USE DEF TokenInv
<1>1. FetchTypeOK'
  BY DEF FetchTypeOK
<1>2. (savedPat # NoPat => savedPat \in savedEver)' /\ (cachedPat # NoPat => IsOperators(cachedPat))'
  BY DEF IsOperators
<1>3. ASSUME NEW d \in Ingest
      PROVE  CallOK(ingest'[d])
  <2>1. ingest'[d] = IF d = c THEN call ELSE ingest[d]
    BY DEF FetchTypeOK
  <2> QED  BY <2>1
<1>4. (\A d \in Ingest : CallOK(ingest[d]))'
  BY <1>3 DEF CallOK, RightToken, IsOperators
<1> QED  BY <1>1, <1>2, <1>4

\* The end of a call, which releases the lock.
LEMMA CallEnds ==
    ASSUME TokenInv, NEW c \in Ingest, NEW call \in IngestRecord, CallOK(call), EndIngest(c, call),
           UNCHANGED <<process, transport, exported, savedPat, savedEver>>,
           cachedPat' \in Pat \cup {NoPat}, cachedPat' # NoPat => IsOperators(cachedPat')
    PROVE  TokenInv'
<1> DEFINE ended == [call EXCEPT !.at = "done"]
<1>1. /\ ended \in IngestRecord /\ ended.at = "done"
      /\ ended.sends = call.sends /\ ended.key = call.key /\ ended.header = call.header
  BY DEF IngestRecord
<1>2. ingest' = [ingest EXCEPT ![c] = ended]
  BY DEF EndIngest
<1> HIDE DEF ended
<1>3. CallOK(ended)
  BY <1>1 DEF CallOK, RightToken
<1>4. UNCHANGED <<process, transport, exported, savedPat, savedEver>>
  OBVIOUS
<1> QED  BY <1>1, <1>2, <1>3, <1>4, CallMoves

\* Every action keeps TokenInv; Authorize is the one that chooses a token, and the first to cache one.
LEMMA TokenInvNext ==
    ASSUME FetchAssumption, TokenInv, [FetchNext]_fetchVars
    PROVE  TokenInv'
<1> USE DEF TokenInv
<1>1. ASSUME NEW c \in Ingest, NEW source \in {"web", "file"}, NEW header \in Pat \cup {NoPat},
             NEW local \in BOOLEAN, AskIngest(c, source, header, local)
      PROVE  TokenInv'
  <2> USE <1>1 DEF AskIngest
  <2>1. ingest[c] \in IngestRecord /\ CallOK(ingest[c]) /\ ingest[c].at = "new"
    BY DEF FetchTypeOK
  <2>2. cachedPat' \in Pat \cup {NoPat} /\ (cachedPat' # NoPat => IsOperators(cachedPat'))
    BY DEF FetchTypeOK
  <2>3. CASE header = NoPat /\ ~local
    <3> DEFINE call == [ingest[c] EXCEPT !.at = "done"]
    <3>1. call \in IngestRecord /\ CallOK(call)
      BY <2>1 DEF IngestRecord, CallOK
    <3>2. ingest' = [ingest EXCEPT ![c] = call]
      BY <2>3 DEF FetchTypeOK
    <3> HIDE DEF call
    <3> QED  BY <2>2, <3>1, <3>2, CallMoves
  <2>4. CASE ~(header = NoPat /\ ~local)
    <3> DEFINE call == [ingest[c] EXCEPT !.at = "waiting", !.source = source, !.header = header]
    <3>1. call \in IngestRecord /\ call.at = "waiting" /\ call.sends = ingest[c].sends /\ call.header = header
      BY <2>1 DEF IngestRecord
    <3>3. CallOK(call)
      BY <2>1, <3>1 DEF CallOK, CallersHeader
    <3>2. ingest' = [ingest EXCEPT ![c] = call]
      BY <2>4 DEF FetchTypeOK
    <3> HIDE DEF call
    <3> QED  BY <2>2, <3>1, <3>2, <3>3, CallMoves
  <2> QED  BY <2>3, <2>4
<1>2. ASSUME NEW c \in Ingest, Proceed(c)
      PROVE  TokenInv'
  <2>1. /\ ingest[c] \in IngestRecord /\ CallOK(ingest[c]) /\ FetchTypeOK
        /\ cachedPat \in Pat \cup {NoPat} /\ (cachedPat # NoPat => IsOperators(cachedPat))
    BY DEF FetchTypeOK
  <2>2. ASSUME NEW ok \in BOOLEAN, ReadLocal(c, ok)
        PROVE  TokenInv'
    <3> DEFINE call == [ingest[c] EXCEPT !.ok = ok]
    <3>1. /\ call \in IngestRecord /\ call.at = ingest[c].at /\ call.sends = ingest[c].sends
          /\ call.key = ingest[c].key /\ call.header = ingest[c].header
      BY <2>1 DEF IngestRecord
    <3>2. EndIngest(c, call) /\ UNCHANGED <<process, transport, exported, savedPat, cachedPat, savedEver>>
      BY <2>2 DEF ReadLocal
    <3> HIDE DEF call
    <3>3. CallOK(call)
      BY <2>1, <3>1 DEF CallOK, RightToken
    <3> QED  BY <2>1, <3>1, <3>2, <3>3, CallEnds
  <2>3. CASE StartFetch(c)
    <3> DEFINE call == [ingest[c] EXCEPT !.at = "authorize"]
    <3>1. /\ call \in IngestRecord /\ call.at = "authorize" /\ call.sends = ingest[c].sends
          /\ call.header = ingest[c].header
      BY <2>1 DEF IngestRecord
    <3>2. /\ (EndIngest(c, ingest[c]) \/ ingest' = [ingest EXCEPT ![c] = call])
          /\ UNCHANGED <<process, transport, exported, savedPat, cachedPat, savedEver>>
      BY <2>3, <2>1 DEF StartFetch, FetchTypeOK
    <3>3. CallOK(call)
      BY <2>1, <2>3, <3>1 DEF CallOK, StartFetch
    <3> HIDE DEF call
    <3> QED  BY <2>1, <3>1, <3>2, <3>3, CallEnds, CallMoves
  <2>4. CASE Authorize(c)
    <3> DEFINE key == IF transport = "http" THEN ingest[c].header ELSE Operators
               call == [ingest[c] EXCEPT !.at = "execute", !.key = key]
    <3>1. key \in Pat \cup {NoPat} /\ (key # NoPat /\ transport # "http" => IsOperators(key))
      BY <2>1 DEF FetchTypeOK, IngestRecord, Operators, IsOperators
    <3>2. /\ (IF key = NoPat THEN EndIngest(c, ingest[c]) ELSE ingest' = [ingest EXCEPT ![c] = call])
          /\ cachedPat' = IF transport = "http" THEN cachedPat ELSE key
          /\ UNCHANGED <<process, transport, exported, savedPat, savedEver>>
      BY <2>4, <2>1 DEF Authorize, FetchTypeOK
    <3>3. cachedPat' \in Pat \cup {NoPat} /\ (cachedPat' # NoPat => IsOperators(cachedPat'))
      BY <2>1, <3>1, <3>2
    <3>4. CASE key = NoPat
      BY <2>1, <3>2, <3>3, <3>4, CallEnds
    <3>5. CASE key # NoPat
      <4>1. /\ call \in IngestRecord /\ call.at = "execute" /\ call.key = key
            /\ call.header = ingest[c].header
        BY <2>1, <3>1 DEF IngestRecord
      <4> HIDE DEF call
      <4>2. RightToken(call)
        <5>1. CASE process = "http"
          BY <2>1, <4>1, <5>1 DEF RightToken, FetchTypeOK
        <5>2. CASE process # "http" /\ transport # "http"
          BY <3>1, <3>5, <4>1, <5>2 DEF RightToken
        <5>3. CASE process = "cli" /\ transport = "http"
          BY <2>1, <3>5, <5>3 DEF CallOK
        <5> QED  BY <2>1, <5>1, <5>2, <5>3 DEF FetchTypeOK, Transport
      <4> QED  BY <2>1, <3>2, <3>3, <3>5, <4>1, <4>2, CallMoves DEF CallOK
    <3> QED  BY <3>4, <3>5
  <2>5. CASE EnterBreaker(c)
    <3> DEFINE call == [ingest[c] EXCEPT !.at = "dispatch"]
    <3>1. /\ call \in IngestRecord /\ call.at = "dispatch" /\ call.sends = ingest[c].sends
          /\ call.key = ingest[c].key /\ call.header = ingest[c].header
      BY <2>1 DEF IngestRecord
    <3>2. /\ (EndIngest(c, ingest[c]) \/ ingest' = [ingest EXCEPT ![c] = call])
          /\ UNCHANGED <<process, transport, exported, savedPat, cachedPat, savedEver>>
      BY <2>5, <2>1 DEF EnterBreaker, FetchTypeOK
    <3> HIDE DEF call
    <3>3. CallOK(call)
      BY <2>1, <2>5, <3>1 DEF CallOK, RightToken, EnterBreaker
    <3> QED  BY <2>1, <3>1, <3>2, <3>3, CallEnds, CallMoves
  <2>6. ASSUME NEW answer \in {"text", "no_markdown", "error_status", "none"}, SendScrape(c, answer)
        PROVE  TokenInv'
    <3> DEFINE again == [ingest[c] EXCEPT !.sends = @ + 1]
               answered == [again EXCEPT !.ok = answer = "text"]
    <3>1. /\ again \in IngestRecord /\ again.at = ingest[c].at
          /\ again.key = ingest[c].key /\ again.header = ingest[c].header
      BY <2>1 DEF IngestRecord
    <3>2. /\ answered \in IngestRecord /\ answered.at = again.at
          /\ answered.key = again.key /\ answered.header = again.header
      BY <3>1 DEF IngestRecord
    <3>3. /\ EndIngest(c, answered) \/ EndIngest(c, again) \/ ingest' = [ingest EXCEPT ![c] = again]
          /\ ingest[c].at = "dispatch"
          /\ UNCHANGED <<process, transport, exported, savedPat, cachedPat, savedEver>>
      BY <2>6 DEF SendScrape
    <3> HIDE DEF again, answered
    <3>4. CallOK(again) /\ CallOK(answered)
      BY <2>1, <3>1, <3>2, <3>3 DEF CallOK, RightToken
    <3> QED  BY <2>1, <3>1, <3>2, <3>3, <3>4, CallEnds, CallMoves
  <2> QED  BY <1>2, <2>2, <2>3, <2>4, <2>5, <2>6 DEF Proceed
<1>3. ASSUME NEW key \in Pat \cup {NoPat}, SaveElsewhere(key)
      PROVE  TokenInv'
  <2> USE <1>3 DEF SaveElsewhere
  <2>1. FetchTypeOK' /\ (savedPat # NoPat => savedPat \in savedEver)'
    BY DEF FetchTypeOK
  <2>2. (cachedPat # NoPat => IsOperators(cachedPat))'
    BY DEF IsOperators
  <2>3. (\A c \in Ingest : CallOK(ingest[c]))'
    BY DEF CallOK, RightToken, IsOperators
  <2> QED  BY <2>1, <2>2, <2>3
<1>4. CASE UNCHANGED fetchVars
  BY <1>4 DEF fetchVars, FetchTypeOK, CallOK, RightToken, IsOperators
<1> QED  BY <1>1, <1>2, <1>3, <1>4 DEF FetchNext

(***************************************************************************)
(* A scrape for a caller over HTTP carries that caller's own token; any    *)
(* other carries the operator's: whoever called before, and whatever is    *)
(* cached or saved meanwhile (apply_auth_headers).                         *)
(***************************************************************************)
THEOREM ScrapesCarryTheRightToken == FetchSpec => []RequestsCarryTheRightToken
<1>1. FetchInit => TokenInv
  BY TokenInvInit
<1>2. TokenInv /\ [FetchNext]_fetchVars => TokenInv'
  BY TokenInvNext, FetchAssumption
<1>3. TokenInv => RequestsCarryTheRightToken
  BY DEF TokenInv, CallOK, RightToken, IsOperators, RequestsCarryTheRightToken
<1> QED  BY <1>1, <1>2, <1>3, PTL DEF FetchSpec

-----------------------------------------------------------------------------
(***************************************************************************)
(* A breaker that has counted Threshold failures is not closed, and when   *)
(* it opened, last, is when the last of them came in: a failure that comes *)
(* in late opens it anew.  It is only half open when its time was up.      *)
(***************************************************************************)
BreakerInv ==
    /\ breaker \in [state : {"closed", "open", "half_open"}, failures : Nat, openedAt : Nat]
    /\ now \in Nat /\ lastFailure \in Nat
    /\ breaker.failures = failedInARow
    /\ breaker.state # "closed" <=> failedInARow >= Threshold
    /\ breaker.state # "closed" => breaker.openedAt = lastFailure
    /\ breaker.state = "half_open" => now - lastFailure >= ResetTimeout

LEMMA BreakerInvNext ==
    ASSUME CircuitBreakerAssumption, BreakerInv, [BreakerNext]_breakerVars
    PROVE  BreakerInv'
<1> USE DEF BreakerInv, CircuitBreakerAssumption
<1>1. ASSUME NEW c \in Requester, Acquire(c) \/ OverLimit(c)
      PROVE  BreakerInv'
  <2>1. UNCHANGED <<breaker, now, failedInARow, lastFailure>>
    BY <1>1 DEF Acquire, OverLimit
  <2> QED  BY <2>1
<1>2. ASSUME NEW c \in Requester, Execute(c)
      PROVE  BreakerInv'
  <2>1. UNCHANGED <<now, failedInARow, lastFailure>>
    BY <1>2 DEF Execute
  <2>2. CASE Refuses(breaker, now)
    BY <1>2, <2>1, <2>2 DEF Execute
  <2>3. CASE ~Refuses(breaker, now)
    <3>1. breaker' = Entered(breaker)
      BY <1>2, <2>3 DEF Execute
    <3>2. CASE breaker.state = "open"
      BY <2>1, <2>3, <3>1, <3>2 DEF Entered, Refuses
    <3>3. CASE breaker.state # "open"
      BY <2>1, <3>1, <3>3 DEF Entered
    <3> QED  BY <3>2, <3>3
  <2> QED  BY <2>2, <2>3
<1>3. ASSUME NEW c \in Requester, Succeed(c)
      PROVE  BreakerInv'
  <2>1. breaker' = [breaker EXCEPT !.failures = 0, !.state = "closed"]
    BY <1>3 DEF Succeed, OnSuccess
  <2>2. breaker' = [state |-> "closed", failures |-> 0, openedAt |-> breaker.openedAt]
    BY <2>1
  <2>3. failedInARow' = 0 /\ UNCHANGED <<now, lastFailure>>
    BY <1>3 DEF Succeed
  <2> QED  BY <2>2, <2>3
<1>4. ASSUME NEW c \in Requester, Fail(c)
      PROVE  BreakerInv'
  <2>1. failedInARow' = failedInARow + 1 /\ lastFailure' = now /\ now' = now
    BY <1>4 DEF Fail
  <2>2. CASE failedInARow + 1 >= Threshold
    <3>1. breaker' = [state |-> "open", failures |-> failedInARow + 1, openedAt |-> now]
      BY <1>4, <2>2 DEF Fail, OnFailure
    <3> QED  BY <2>1, <2>2, <3>1
  <2>3. CASE ~(failedInARow + 1 >= Threshold)
    <3>1. breaker.state = "closed"
      BY <2>3
    <3>2. breaker' = [breaker EXCEPT !.failures = failedInARow + 1]
      BY <1>4, <2>3, <3>1 DEF Fail, OnFailure
    <3> QED  BY <2>1, <2>3, <3>1, <3>2
  <2> QED  BY <2>2, <2>3
<1>5. ASSUME Tick
      PROVE  BreakerInv'
  BY <1>5 DEF Tick
<1>6. CASE UNCHANGED breakerVars
  BY <1>6 DEF breakerVars
<1> QED  BY <1>1, <1>2, <1>3, <1>4, <1>5, <1>6 DEF BreakerNext

(***************************************************************************)
(* After failure_threshold failures in a row no call is begun until        *)
(* reset_timeout has passed since the last of them.                        *)
(***************************************************************************)
THEOREM NothingCallsAnOpenBreaker ==
    ASSUME CircuitBreakerAssumption
    PROVE  BreakerSpec => [][HeldBackByBreaker]_breakerVars
<1>1. BreakerInit => BreakerInv
  BY CircuitBreakerAssumption DEF BreakerInit, BreakerInv, NewBreaker, CircuitBreakerAssumption
<1>2. BreakerInv /\ [BreakerNext]_breakerVars => BreakerInv'
  BY CircuitBreakerAssumption, BreakerInvNext
<1>3. BreakerInv /\ [BreakerNext]_breakerVars => [HeldBackByBreaker]_breakerVars
  <2> SUFFICES ASSUME BreakerInv, BreakerNext, failedInARow >= Threshold,
                      now - lastFailure < ResetTimeout
               PROVE  calling' \subseteq calling
    BY DEF HeldBackByBreaker
  <2>1. Refuses(breaker, now)
    BY CircuitBreakerAssumption DEF BreakerInv, Refuses, CircuitBreakerAssumption
  <2>2. ASSUME NEW c \in Requester, Execute(c)
        PROVE  calling' = calling
    BY <2>1, <2>2 DEF Execute
  <2>3. ASSUME NEW c \in Requester, Acquire(c) \/ OverLimit(c) \/ Succeed(c) \/ Fail(c)
        PROVE  calling' \subseteq calling
    BY <2>3 DEF Acquire, OverLimit, Succeed, Fail
  <2> QED  BY <2>2, <2>3 DEF BreakerNext, Tick
<1> QED  BY <1>1, <1>2, <1>3, PTL DEF BreakerSpec

-----------------------------------------------------------------------------
(***************************************************************************)
(* The limiter remembers, one for one, every call it let through within    *)
(* its window; calls of the present time have numbers below how many there *)
(* are, so that the next gets a number of its own.                         *)
(***************************************************************************)
Remembers(f) ==
    /\ f \in [LatelyAcquired -> timestamps]
    /\ \A i \in LatelyAcquired : f[i][1] = acquired[i]
    /\ \A i, j \in LatelyAcquired : f[i] = f[j] => i = j

LimiterInv ==
    /\ now \in Nat /\ acquired \in Seq(Nat)
    /\ IsFiniteSet(timestamps) /\ timestamps \subseteq Nat \X Nat
    /\ \A t \in timestamps : t[1] <= now
    /\ \A t \in At(timestamps, now) : t[2] < Cardinality(At(timestamps, now))
    /\ \E f : Remembers(f)

\* What is within the window is remembered, and what is remembered of the present is within it.
LEMMA RecentIsRemembered ==
    ASSUME CircuitBreakerAssumption, LimiterInv, NEW f, Remembers(f)
    PROVE  /\ IsFiniteSet(Recent(timestamps, now)) /\ Recent(timestamps, now) \subseteq timestamps
           /\ At(Recent(timestamps, now), now) = At(timestamps, now)
           /\ f \in [LatelyAcquired -> Recent(timestamps, now)]
<1>1. Recent(timestamps, now) \in SUBSET timestamps
  BY DEF Recent
<1>2. IsFiniteSet(Recent(timestamps, now))
  BY <1>1, FS_Subset DEF LimiterInv
<1>3. At(Recent(timestamps, now), now) = At(timestamps, now)
  BY CircuitBreakerAssumption DEF At, Recent, LimiterInv, CircuitBreakerAssumption
<1>4. ASSUME NEW i \in LatelyAcquired
      PROVE  f[i] \in Recent(timestamps, now)
  BY DEF Remembers, Recent, LatelyAcquired
<1>5. f \in [LatelyAcquired -> Recent(timestamps, now)]
  BY <1>4 DEF Remembers
<1> QED  BY <1>1, <1>2, <1>3, <1>5

LEMMA NoMoreThanRecent ==
    ASSUME CircuitBreakerAssumption, LimiterInv
    PROVE  /\ Cardinality(LatelyAcquired) \in Nat
           /\ Cardinality(Recent(timestamps, now)) \in Nat
           /\ Cardinality(LatelyAcquired) <= Cardinality(Recent(timestamps, now))
<1> DEFINE recent == Recent(timestamps, now)
<1>1. PICK f : Remembers(f)
  BY DEF LimiterInv
<1>2. IsFiniteSet(recent) /\ f \in [LatelyAcquired -> recent]
  BY <1>1, RecentIsRemembered
<1>3. IsFiniteSet(LatelyAcquired)
  <2>1. IsFiniteSet(1..Len(acquired))
    BY FS_Interval DEF LimiterInv
  <2>2. LatelyAcquired \in SUBSET (1..Len(acquired))
    BY DEF LimiterInv, LatelyAcquired
  <2> QED  BY <2>1, <2>2, FS_Subset
<1>4. Cardinality(recent) \in Nat /\ Cardinality(LatelyAcquired) \in Nat
  BY <1>2, <1>3, FS_CardinalityType
<1> HIDE DEF recent
<1>5. ASSUME Cardinality(recent) < Cardinality(LatelyAcquired)
      PROVE  FALSE
  <2>1. \E i, j \in LatelyAcquired : i # j /\ f[i] = f[j]
    BY <1>2, <1>3, <1>5, FS_PigeonHole
  <2> QED  BY <1>1, <2>1 DEF Remembers
<1>6. Cardinality(LatelyAcquired) <= Cardinality(recent)
  BY <1>4, <1>5
<1> QED  BY <1>4, <1>6 DEF recent

LEMMA LimiterInvAcquire ==
    ASSUME CircuitBreakerAssumption, LimiterInv, NEW c \in Requester, Acquire(c)
    PROVE  LimiterInv'
<1> DEFINE recent == Recent(timestamps, now)
           count  == Cardinality(At(recent, now))
           new    == <<now, count>>
           last   == Len(acquired) + 1
<1>1. /\ timestamps' = recent \cup {new}
      /\ acquired' = Append(acquired, now) /\ now' = now
  BY DEF Acquire, Acquired
<1>2. PICK f : Remembers(f)
  BY DEF LimiterInv
<1>3. /\ IsFiniteSet(recent) /\ recent \subseteq timestamps
      /\ At(recent, now) = At(timestamps, now)
      /\ f \in [LatelyAcquired -> recent]
  BY <1>2, RecentIsRemembered
<1>4. At(recent, now) \in SUBSET recent
  BY DEF At
<1>5. IsFiniteSet(At(recent, now)) /\ count \in Nat
  BY <1>3, <1>4, FS_Subset, FS_CardinalityType
<1>6. new \notin recent
  <2>1. new \in recent => new \in At(recent, now)
    BY DEF At
  <2>2. \A t \in At(recent, now) : t[2] < count
    BY <1>3 DEF LimiterInv
  <2> QED  BY <1>5, <2>1, <2>2
<1>7. At(timestamps', now') = At(recent, now) \cup {new}
  BY <1>1 DEF At
<1>8. Cardinality(At(timestamps', now')) = count + 1
  <2>1. new \notin At(recent, now)
    BY <1>6, <1>4
  <2> QED  BY <1>5, <1>7, <2>1, FS_AddElement
<1>9. IsFiniteSet(timestamps')
  BY <1>1, <1>3, FS_AddElement
<1> HIDE DEF recent, count
<1>10. \A t \in At(timestamps', now') : t[2] < Cardinality(At(timestamps', now'))
  <2>1. \A t \in At(recent, now) : t[2] \in Nat /\ t[2] < count
    BY <1>3 DEF LimiterInv, At, count
  <2> QED  BY <1>5, <1>7, <1>8, <2>1
<1>11. /\ now' \in Nat /\ acquired' \in Seq(Nat) /\ timestamps' \subseteq Nat \X Nat
       /\ \A t \in timestamps' : t[1] <= now'
  BY <1>1, <1>3, <1>5 DEF LimiterInv
<1>12. LatelyAcquired' = LatelyAcquired \cup {last} /\ last \notin LatelyAcquired
  <2>1. DOMAIN acquired' = DOMAIN acquired \cup {last} /\ last \notin DOMAIN acquired
    BY <1>1 DEF LimiterInv
  <2>2. acquired'[last] = now /\ \A i \in DOMAIN acquired : acquired'[i] = acquired[i]
    BY <1>1 DEF LimiterInv
  <2> QED  BY <1>1, <2>1, <2>2, CircuitBreakerAssumption
           DEF LatelyAcquired, LimiterInv, CircuitBreakerAssumption
<1>13. \E g : Remembers(g)'
  <2> DEFINE g == [i \in LatelyAcquired \cup {last} |-> IF i = last THEN new ELSE f[i]]
  <2>1. g[last] = new /\ \A i \in LatelyAcquired : g[i] = f[i] /\ f[i] \in recent
    BY <1>3, <1>12
  <2>2. g \in [LatelyAcquired' -> timestamps']
    BY <1>1, <1>3, <1>12
  <2>3. \A i \in LatelyAcquired \cup {last} : g[i][1] = acquired'[i]
    <3>1. acquired'[last] = now /\ \A i \in LatelyAcquired : acquired'[i] = acquired[i]
      BY <1>1 DEF LimiterInv, LatelyAcquired
    <3> QED  BY <1>2, <2>1, <3>1 DEF Remembers
  <2> HIDE DEF g, new
  <2>4. \A i, j \in LatelyAcquired \cup {last} : g[i] = g[j] => i = j
    BY <1>2, <1>6, <2>1 DEF Remembers
  <2> QED  BY <1>12, <2>2, <2>3, <2>4 DEF Remembers
<1> QED  BY <1>9, <1>10, <1>11, <1>13 DEF LimiterInv

LEMMA LimiterInvOverLimit ==
    ASSUME CircuitBreakerAssumption, LimiterInv, NEW c \in Requester, OverLimit(c)
    PROVE  LimiterInv'
<1>1. timestamps' = Recent(timestamps, now) /\ UNCHANGED <<now, acquired>>
  BY DEF OverLimit
<1>2. PICK f : Remembers(f)
  BY DEF LimiterInv
<1>3. /\ IsFiniteSet(Recent(timestamps, now)) /\ Recent(timestamps, now) \subseteq timestamps
      /\ At(Recent(timestamps, now), now) = At(timestamps, now)
      /\ f \in [LatelyAcquired -> Recent(timestamps, now)]
  BY <1>2, RecentIsRemembered
<1>4. LatelyAcquired' = LatelyAcquired
  BY <1>1 DEF LatelyAcquired
<1>5. Remembers(f)'
  BY <1>1, <1>2, <1>3, <1>4 DEF Remembers
<1> QED  BY <1>1, <1>3, <1>5 DEF LimiterInv

LEMMA LimiterInvTick ==
    ASSUME CircuitBreakerAssumption, LimiterInv, Tick
    PROVE  LimiterInv'
<1>1. now' = now + 1 /\ UNCHANGED <<timestamps, acquired>>
  BY DEF Tick
<1>2. PICK f : Remembers(f)
  BY DEF LimiterInv
<1>3. LatelyAcquired' \subseteq LatelyAcquired
  BY <1>1, CircuitBreakerAssumption DEF LatelyAcquired, LimiterInv, CircuitBreakerAssumption
<1>4. \E g : Remembers(g)'
  <2> DEFINE g == [i \in LatelyAcquired' |-> f[i]]
  <2>1. g \in [LatelyAcquired' -> timestamps'] /\ \A i \in LatelyAcquired' : g[i] = f[i]
    BY <1>1, <1>2, <1>3 DEF Remembers
  <2> HIDE DEF g
  <2> QED  BY <1>1, <1>2, <1>3, <2>1 DEF Remembers
<1>5. At(timestamps', now') = {}
  BY <1>1 DEF At, LimiterInv
<1> QED  BY <1>1, <1>4, <1>5 DEF LimiterInv

(***************************************************************************)
(* Both halves together: after failure_threshold failures in a row no call *)
(* is begun until reset_timeout has passed, and in no stretch of time as   *)
(* long as its window does the limiter let more than rate_limit calls      *)
(* through (RateLimiter::acquire, CircuitBreaker::execute).                *)
(***************************************************************************)
THEOREM BreakerAndLimiterHold ==
    ASSUME CircuitBreakerAssumption
    PROVE  BreakerSpec => CallsAreHeldBack
<1>1. BreakerInit => LimiterInv
  <2> SUFFICES ASSUME BreakerInit
               PROVE  LimiterInv
    OBVIOUS
  <2>1. timestamps = {} /\ acquired = <<>> /\ now = 0
    BY DEF BreakerInit
  <2>2. LatelyAcquired = {}
    BY <2>1 DEF LatelyAcquired
  <2>3. Remembers([i \in {} |-> 0])
    BY <2>2 DEF Remembers
  <2> QED  BY <2>1, <2>3, FS_EmptySet DEF LimiterInv, At
<1>2. LimiterInv /\ [BreakerNext]_breakerVars => LimiterInv'
  <2> SUFFICES ASSUME LimiterInv, [BreakerNext]_breakerVars
               PROVE  LimiterInv'
    OBVIOUS
  <2>1. ASSUME NEW c \in Requester, Acquire(c)
        PROVE  LimiterInv'
    BY <2>1, CircuitBreakerAssumption, LimiterInvAcquire
  <2>2. ASSUME NEW c \in Requester, OverLimit(c)
        PROVE  LimiterInv'
    BY <2>2, CircuitBreakerAssumption, LimiterInvOverLimit
  <2>3. CASE Tick
    BY <2>3, CircuitBreakerAssumption, LimiterInvTick
  <2>4. ASSUME UNCHANGED <<timestamps, now, acquired>>
        PROVE  LimiterInv'
    <3>1. LatelyAcquired' = LatelyAcquired /\ At(timestamps', now') = At(timestamps, now)
      BY <2>4 DEF LatelyAcquired, At
    <3>2. PICK f : Remembers(f)
      BY DEF LimiterInv
    <3>3. Remembers(f)'
      BY <2>4, <3>1, <3>2 DEF Remembers
    <3> QED  BY <2>4, <3>1, <3>3 DEF LimiterInv
  <2>5. ASSUME NEW c \in Requester, Execute(c) \/ Succeed(c) \/ Fail(c)
        PROVE  LimiterInv'
    BY <2>4, <2>5 DEF Execute, Succeed, Fail
  <2>6. CASE UNCHANGED breakerVars
    BY <2>4, <2>6 DEF breakerVars
  <2> QED  BY <2>1, <2>2, <2>3, <2>5, <2>6 DEF BreakerNext
<1>3. LimiterInv /\ [BreakerNext]_breakerVars => [HeldBackByLimiter]_breakerVars
  <2> SUFFICES ASSUME LimiterInv, BreakerNext, acquired' # acquired
               PROVE  Cardinality(LatelyAcquired) < CallLimit
    BY DEF HeldBackByLimiter
  <2>1. Allows(timestamps, now)
    BY DEF BreakerNext, Acquire, OverLimit, Execute, Succeed, Fail, Tick
  <2>2. /\ Cardinality(LatelyAcquired) \in Nat
        /\ Cardinality(Recent(timestamps, now)) \in Nat
        /\ Cardinality(LatelyAcquired) <= Cardinality(Recent(timestamps, now))
    BY CircuitBreakerAssumption, NoMoreThanRecent
  <2> QED  BY <2>1, <2>2, CircuitBreakerAssumption DEF Allows, CircuitBreakerAssumption
<1>4. BreakerSpec => [][HeldBackByBreaker]_breakerVars
  BY CircuitBreakerAssumption, NothingCallsAnOpenBreaker
<1>5. BreakerSpec => [][HeldBackByLimiter]_breakerVars
  BY <1>1, <1>2, <1>3, PTL DEF BreakerSpec
<1>6. [HeldBackByBreaker]_breakerVars /\ [HeldBackByLimiter]_breakerVars
        => [HeldBackByBreaker /\ HeldBackByLimiter]_breakerVars
  OBVIOUS
<1> QED  BY <1>4, <1>5, <1>6, PTL DEF CallsAreHeldBack
=============================================================================
