---------------------------- MODULE PromptBudget ----------------------------
(***************************************************************************)
(* How a source's prompt is put together and kept within the token budget  *)
(* (compile_one_source in src/src/compiler/driver.rs, build_compile_prompt *)
(* in synthesize.rs, and token_estimate.rs): the raw bodies share the      *)
(* budget and are truncated to it, then related pages are dropped, the     *)
(* least relevant first, until what is left fits.                          *)
(*                                                                         *)
(* A text is how many characters of the original it has, and how many of a *)
(* truncation marker.  Of the related pages only the tokens of the first k *)
(* together matter, for every k.                                           *)
(***************************************************************************)
EXTENDS Integers

CONSTANTS
    Budget,         \* DEFAULT_PROMPT_TOKEN_BUDGET
    CharsPerToken,  \* CHARS_PER_TOKEN
    MaxChars,       \* bound: characters of a raw body
    MaxRelated,     \* the limit related_wiki_pages gives hybrid_search
    PageTokens,     \* what a related page may be estimated at
    Marker,         \* characters of the truncation marker, by how many are cut
    MarkerChars,    \* and of the longest one
    NoText          \* no superseded version, or one that cannot be read

ASSUME BudgetAssumption ==
    /\ Budget \in Nat /\ CharsPerToken \in Nat \ {0}
    /\ MaxChars \in Nat /\ MaxRelated \in Nat /\ PageTokens \subseteq Nat
ASSUME MarkerAssumption ==
    MarkerChars \in Nat /\ Marker \in [1..MaxChars -> 1..MarkerChars]
ASSUME NoneAssumption == NoText \notin [text : Nat, marker : Nat]

VARIABLES
    stage,      \* "read", "search", "trim", "send" or "failed"
    body,       \* the active raw body and the superseded one, as read
    sent,       \* the same as they go into the prompt
    upTo,       \* tokens of the first k related pages, most relevant first
    kept        \* how many of them are still in

budgetVars == <<stage, body, sent, upTo, kept>>

Whole(chars) == [text |-> chars, marker |-> 0]

Body == {Whole(chars) : chars \in 0..MaxChars}

BudgetInit == /\ stage = "read"
              /\ body = [active |-> Whole(0), superseded |-> NoText]
              /\ sent = body
              /\ upTo = [k \in {0} |-> 0]
              /\ kept = 0

-----------------------------------------------------------------------------
\* estimate_tokens: rounded up.
Tokens(chars) == (chars + CharsPerToken - 1) \div CharsPerToken

Estimate(text) == IF text = NoText THEN 0 ELSE Tokens(text.text + text.marker)

(***************************************************************************)
(* truncate_to_budget: as many characters as the budget has, and a marker  *)
(* that says how many are missing.                                         *)
(***************************************************************************)
Truncated(whole, budget) ==
    IF whole.text <= budget * CharsPerToken THEN whole
    ELSE [text   |-> budget * CharsPerToken,
          marker |-> Marker[whole.text - budget * CharsPerToken]]

Half == Budget \div 2

\* Wrong on purpose: half of the budget for each, whatever they need.
SharesEven(a, s) == IF a + s <= Budget THEN <<a, s>> ELSE <<Half, Budget - Half>>

(***************************************************************************)
(* The shares of the two bodies: all they need if that fits, else the one  *)
(* that fits half the budget keeps its size and the other gets the rest.   *)
(***************************************************************************)
Shares(a, s) ==
    IF a + s <= Budget THEN <<a, s>>
    ELSE IF a <= Half THEN <<a, Budget - a>>
    ELSE IF s <= Half THEN <<Budget - s, s>>
    ELSE <<Half, Budget - Half>>

\* Wrong on purpose: each body has the whole budget.
SharedByNone(b) ==
    [active     |-> Truncated(b.active, Budget),
     superseded |-> IF b.superseded = NoText THEN NoText ELSE Truncated(b.superseded, Budget)]

\* truncate_raw_blobs_to_shared_budget
Shared(b) ==
    IF b.superseded = NoText
    THEN [active |-> Truncated(b.active, Budget), superseded |-> NoText]
    ELSE LET shares == Shares(Estimate(b.active), Estimate(b.superseded))
         IN  [active     |-> Truncated(b.active, shares[1]),
              superseded |-> Truncated(b.superseded, shares[2])]

Base == Estimate(sent.active) + Estimate(sent.superseded)

-----------------------------------------------------------------------------
(***************************************************************************)
(* The active body must be readable; a superseded one that is not is left  *)
(* out.                                                                    *)
(***************************************************************************)
Read == /\ stage = "read"
        /\ body' \in [active : Body, superseded : Body \cup {NoText}]
        /\ sent' = body'
        /\ stage' = "search"
        /\ UNCHANGED <<upTo, kept>>

\* The active body cannot be read, or hybrid_search fails.
GiveUp == /\ stage \in {"read", "search"}
          /\ stage' = "failed"
          /\ UNCHANGED <<body, sent, upTo, kept>>

(***************************************************************************)
(* related_wiki_pages: the next result of the search that can be read.     *)
(***************************************************************************)
AddPage ==
    /\ stage = "search" /\ kept < MaxRelated
    /\ kept' = kept + 1
    /\ \E t \in PageTokens :
          upTo' = [k \in 0..(kept + 1) |-> IF k <= kept THEN upTo[k] ELSE upTo[kept] + t]
    /\ UNCHANGED <<stage, body, sent>>

Share == /\ stage = "search"
         /\ sent' = Shared(body)
         /\ stage' = "trim"
         /\ UNCHANGED <<body, upTo, kept>>

Fits(n) == Base + upTo[n] <= Budget

\* trim_related_pages
DropPage == /\ stage = "trim" /\ kept > 0 /\ ~ Fits(kept)
            /\ kept' = kept - 1
            /\ UNCHANGED <<stage, body, sent, upTo>>

SendPrompt == /\ stage = "trim" /\ (kept = 0 \/ Fits(kept))
              /\ stage' = "send"
              /\ UNCHANGED <<body, sent, upTo, kept>>

BudgetNext == Read \/ GiveUp \/ AddPage \/ Share \/ DropPage \/ SendPrompt

BudgetSpec == BudgetInit /\ [][BudgetNext]_budgetVars

-----------------------------------------------------------------------------

Cut(text) == IF text = NoText \/ text.marker = 0 THEN 0 ELSE 1

(***************************************************************************)
(* The estimate of the whole prompt exceeds the budget by no more than the *)
(* markers ("a small, fixed number of tokens per truncated blob"), and not *)
(* at all if nothing was truncated or a related page is still in: two      *)
(* bodies that only exceed the budget together do not slip through.        *)
(***************************************************************************)
PromptFits ==
    stage = "send" =>
        /\ Base + upTo[kept] <= Budget + Tokens(MarkerChars)
                * (Cut(sent.active) + Cut(sent.superseded))
        /\ kept > 0 => Fits(kept)

\* The estimate of what a text has of the original.
Original(text) == IF text = NoText THEN 0 ELSE Tokens(text.text)

(***************************************************************************)
(* Nothing is given up that had room: a body is truncated only if the two  *)
(* exceed the budget together and it alone exceeds its half, what remains  *)
(* of them is the budget, and one more related page would not have fitted. *)
(***************************************************************************)
NothingCutNeedlessly ==
    stage = "send" =>
        /\ \A b \in {"active", "superseded"} :
              sent[b] # body[b] =>
                  /\ Estimate(body.active) + Estimate(body.superseded) > Budget
                  /\ Estimate(body[b]) > Half
                  /\ Original(sent.active) + Original(sent.superseded) = Budget
        /\ \A k \in DOMAIN upTo : k > kept => ~ Fits(k)
=============================================================================
