------------------------------- MODULE Ledger -------------------------------
(***************************************************************************)
(* What a vault promises about its sources, without files, statuses or     *)
(* commands in progress: for each source the contents it has had, in       *)
(* order, whether the last one is live, and the content it was last        *)
(* compiled at.  Every command is one step.                                *)
(***************************************************************************)
EXTENDS Sequences, Naturals

CONSTANTS Uri, Hash, None, Absent

VARIABLE ledger

Source == [contents : Seq(Hash), live : BOOLEAN, compiled : Hash \cup {None}]

LedgerInit == ledger = [u \in Uri |-> Absent]

Known(u) == ledger[u] # Absent

Current(s) == s.contents[Len(s.contents)]

IsLive(u) == Known(u) /\ ledger[u].live

(***************************************************************************)
(* A new content of a source is added after those it had.                  *)
(***************************************************************************)
Learn(u, h) ==
    \/ /\ ~ Known(u)
       /\ ledger' = [ledger EXCEPT ![u] =
                        [contents |-> <<h>>, live |-> TRUE, compiled |-> None]]
    \/ /\ Known(u)
       /\ ledger[u].live => Current(ledger[u]) # h
       /\ ledger' = [ledger EXCEPT ![u].contents = Append(@, h), ![u].live = TRUE]

Retire(u) ==
    /\ IsLive(u)
    /\ ledger' = [ledger EXCEPT ![u].live = FALSE]

Forget(u) ==
    /\ Known(u)
    /\ ledger' = [ledger EXCEPT ![u] = Absent]

\* What counts as understood is what is current by then: of a retired source, nothing.
Understand(u) ==
    /\ Known(u)
    /\ ledger' = [ledger EXCEPT ![u].compiled = IF ledger[u].live THEN Current(ledger[u]) ELSE None]

LedgerNext ==
    \E u \in Uri : \/ \E h \in Hash : Learn(u, h)
                   \/ Retire(u) \/ Forget(u) \/ Understand(u)

LedgerSpec == LedgerInit /\ [][LedgerNext]_ledger
=============================================================================
