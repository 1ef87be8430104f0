------------------------------ MODULE MCSerial ------------------------------
(***************************************************************************)
(* One process at a time and what it leaves when it is killed or fails,    *)
(* of three kinds, chosen at the start:                                    *)
(*   "vault"    a command on the manifest and the blobs: two sources whose *)
(*              slugs differ, two contents with different raw_ids;         *)
(*   "compile"  a compile of three sources, two at a time, the fixes after *)
(*              it and the commit;                                         *)
(*   "prompt"   a source's prompt: a budget of five tokens of three        *)
(*              characters, bodies of up to eight tokens, and a marker as  *)
(*              long as four tokens or one more.                           *)
(***************************************************************************)
EXTENDS MCVault, MCPublish, PromptBudget

CONSTANT Parts

MCMarker == [n \in 1..MaxChars |-> IF n < 10 THEN 11 ELSE 12]

VARIABLE part

serialVars == <<part, vars, allVars, budgetVars>>

SerialInit == part \in Parts /\ Init /\ PublishInit /\ BudgetInit

SerialNext ==
    /\ UNCHANGED part
    /\ \/ part = "vault" /\ Next /\ UNCHANGED <<allVars, budgetVars>>
       \/ part = "compile" /\ PublishNext /\ UNCHANGED <<vars, budgetVars>>
       \/ part = "prompt" /\ BudgetNext /\ UNCHANGED <<vars, allVars>>

SerialSpec == SerialInit /\ [][SerialNext]_serialVars
=============================================================================
