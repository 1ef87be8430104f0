------------------------------ MODULE Register ------------------------------
(***************************************************************************)
(* What a file written by way of a temporary one promises: it holds        *)
(* nothing or the whole of something that was saved to it, and changes in  *)
(* one step from one to the other.  A save or removal that fails, or whose *)
(* process is killed, either has had that one step or has had no effect.   *)
(***************************************************************************)
CONSTANTS Writer, Content, None

VARIABLES value,    \* what a reader finds
          todo      \* what every writer is about to make it

vars == <<value, todo>>

Idle == [want |-> FALSE, content |-> None]

Init == value = None /\ todo = [p \in Writer |-> Idle]

Begin(p) == /\ todo[p] = Idle
            /\ \E c \in Content \cup {None} :
                   todo' = [todo EXCEPT ![p] = [want |-> TRUE, content |-> c]]
            /\ UNCHANGED value

Commit(p) == /\ todo[p].want
             /\ value' = todo[p].content
             /\ todo' = [todo EXCEPT ![p] = Idle]

Fail(p) == /\ todo[p].want
           /\ todo' = [todo EXCEPT ![p] = Idle]
           /\ UNCHANGED value

Next == \E p \in Writer : Begin(p) \/ Commit(p) \/ Fail(p)

Spec == Init /\ [][Next]_vars
=============================================================================
