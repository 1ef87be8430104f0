------------------------ MODULE SynthesizeProperties ------------------------
(***************************************************************************)
(* What a client and a vault may expect of the synthesis jobs.             *)
(***************************************************************************)
EXTENDS Synthesize

(***************************************************************************)
(* A job's number is its own as long as anybody may use it: two jobs of    *)
(* those in the map, with the client or in a call under way have different *)
(* numbers, though calls take them at the same time, jobs expire and are   *)
(* crowded out of the map, and results come back late or twice.  So a      *)
(* result is applied, and its source marked, as the job whose prompt it    *)
(* answers; and no source is marked on disk that no result was applied for.*)
(***************************************************************************)
ResultMeetsItsJob ==
    /\ \A i, j \in Live : i.id = j.id => i = j
    /\ \A c \in Call : call[c].at \in {"apply", "save", "remove"} => call[c].job = Result(c)
    /\ marked \subseteq answered

(***************************************************************************)
(* "Call repeatedly until `phase` is "done"": a client that does, and from *)
(* some time on asks for more only when all it was handed is settled, is   *)
(* told so, and whenever it asks after that, unless it is answered "fix"   *)
(* without a job for ever: when the first missing pages have no grounding, *)
(* nothing changes any more.                                               *)
(***************************************************************************)
AsksForMore == \E c \in Call : call[c].at = "idle" /\ call'[c].at = "next"

InTurn == AsksForMore => handed = {} /\ \A c \in Call : call[c] = Idle

AnswersDone(c) == call[c].at = "next" /\ call[c].phase = "done"

AnswersNothing(c) ==
    call[c].at = "next" /\ call[c].phase = "fix" /\ call[c].batch \o call[c].todo = <<>>

ReachesDone ==
    <>[][InTurn]_vars /\ <>[](\A c \in Call : ~ AnswersNothing(c)) =>
        []<>(\E c \in Call : AnswersDone(c))
=============================================================================
