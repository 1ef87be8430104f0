------------------------------ MODULE ForLoop ------------------------------
(***************************************************************************)
(* The plain `for` loop that run_bounded promises to be indistinguishable  *)
(* from at limit 1: it runs the items in input order, hands each result to *)
(* on_result, and returns at the first one on_result refuses.              *)
(***************************************************************************)
EXTENDS Naturals, Sequences

CONSTANT Items      \* how many items there are, numbered from 1

VARIABLES log,      \* what on_result was given and answered, in order
          outcome   \* "running", "done", or "panicked" if an item's task did

vars == <<log, outcome>>

Refused == \E k \in 1..Len(log) : ~log[k].go

Init == log = <<>> /\ outcome = "running"

Iterate == /\ outcome = "running"
           /\ Len(log) < Items
           /\ ~Refused
           /\ \E go \in BOOLEAN : log' = Append(log, [item |-> Len(log) + 1, go |-> go])
           /\ UNCHANGED outcome

Return == /\ outcome = "running"
          /\ Len(log) = Items \/ Refused
          /\ outcome' = "done"
          /\ UNCHANGED log

Panic == /\ outcome = "running"
         /\ Len(log) < Items
         /\ ~Refused
         /\ outcome' = "panicked"
         /\ UNCHANGED log

Next == Iterate \/ Return \/ Panic

Spec == Init /\ [][Next]_vars
=============================================================================
