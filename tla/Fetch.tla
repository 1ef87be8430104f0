------------------------------- MODULE Fetch -------------------------------
(***************************************************************************)
(* One process ingesting sources: which credentials a call carries to      *)
(* Firecrawl (src/src/auth/auth_manager.rs, src/src/http/server.rs), and   *)
(* how often it is sent (src/src/services/api_client.rs).  The process is  *)
(* a command line, or a server on stdio or HTTP; all calls of a server     *)
(* share one AuthManager, whose lock is held from the fetch to the end of  *)
(* the call.  What happens to the text that was fetched: see Vault.        *)
(*                                                                         *)
(* No time passes on the clock here: all of it happens within one second.  *)
(***************************************************************************)
EXTENDS CircuitBreaker

CONSTANTS
    Ingest,     \* calls of okf-ingest
    Pat,        \* personal access tokens
    NoPat,
    Retries,    \* retry_attempts
    MaxSaves    \* bound: changes of the saved token by others

ASSUME FetchAssumption == Retries \in Nat /\ MaxSaves \in Nat /\ NoPat \notin Pat

VARIABLES
    process,    \* "cli", "stdio" or "http", and
    transport,  \*   the transport of its configuration, which start and http set
    exported,   \* OKF_MCP_FIRECRAWL_API_PAT in its environment
    savedPat,   \* the token saved under "firecrawl"
    cachedPat,  \* cached_credentials of its AuthManager
    queue,      \* the calls that want the AuthManager's lock; the first has it
    client,     \* the ApiClient of that call
    ingest,     \* the calls
    savedEver,  \* history: the tokens saved at some time
    saves,      \* bound: see MaxSaves
    unavailable \* history: fetches that failed since the last that did not

fetchVars == <<process, transport, exported, savedPat, cachedPat, queue, client, ingest,
               savedEver, saves, unavailable>>

NewClient == [breaker |-> NewBreaker, timestamps |-> {}]

NotAsked == [at |-> "new", source |-> "web", header |-> NoPat, key |-> NoPat,
             sends |-> 0, ok |-> FALSE]

Transport == {"stdio", "http"}

FetchInit ==
    /\ process \in {"cli"} \cup Transport
    /\ transport \in Transport
    /\ process # "cli" => transport = process
    /\ exported \in Pat \cup {NoPat} /\ savedPat \in Pat \cup {NoPat}
    /\ cachedPat = NoPat
    /\ queue = <<>> /\ client = NewClient
    /\ ingest = [c \in Ingest |-> NotAsked]
    /\ savedEver = {savedPat} \ {NoPat} /\ saves = 0 /\ unavailable = 0

-----------------------------------------------------------------------------
\* The credentials a call can bring: the value of a header, as it is; a local process is sent none.
CallersHeader == IF process = "http" THEN Pat \cup {NoPat} ELSE {NoPat}

(***************************************************************************)
(* A call of a server; over HTTP it may bring a token in a header, and     *)
(* auth_gate turns it away without one unless it comes from localhost.  A  *)
(* command line is a process of its own, with a new AuthManager.           *)
(***************************************************************************)
AskIngest(c, source, header, local) ==
    /\ ingest[c].at = "new"
    /\ header \in CallersHeader
    /\ process # "http" => local
    /\ process = "cli" => queue = <<>>
    /\ cachedPat' = IF process = "cli" THEN NoPat ELSE cachedPat
    /\ IF header = NoPat /\ ~local
       THEN ingest' = [ingest EXCEPT ![c].at = "done"] /\ UNCHANGED queue
       ELSE /\ ingest' = [ingest EXCEPT ![c].at = "waiting", ![c].source = source, ![c].header = header]
            /\ queue' = Append(queue, c)
    /\ UNCHANGED <<process, transport, exported, savedPat, client, savedEver, saves, unavailable>>

HasLock(c) == queue # <<>> /\ Head(queue) = c

\* Wrong on purpose: a call that fails does not release the lock.
EndIngestHoldingLock(c, call) ==
    /\ ingest' = [ingest EXCEPT ![c] = [call EXCEPT !.at = "done"]]
    /\ queue' = IF call.ok THEN Tail(queue) ELSE queue

\* The call c comes to its end, and the lock is free for the next one.
EndIngest(c, call) == ingest' = [ingest EXCEPT ![c] = [call EXCEPT !.at = "done"]] /\ queue' = Tail(queue)

\* parse_local_doc: no client and no credentials; the file can be read, or not.
ReadLocal(c, ok) ==
    /\ HasLock(c) /\ ingest[c].at = "waiting" /\ ingest[c].source = "file"
    /\ EndIngest(c, [ingest[c] EXCEPT !.ok = ok])
    /\ UNCHANGED <<process, transport, exported, savedPat, cachedPat, client, savedEver, saves, unavailable>>

\* fetch_and_clean_url: a new client, and a place in its rate limiter.
StartFetch(c) ==
    /\ HasLock(c) /\ ingest[c].at = "waiting" /\ ingest[c].source = "web"
    /\ client' = [NewClient EXCEPT !.timestamps = Acquired(@, now)]
    /\ IF Allows(NewClient.timestamps, now)
       THEN ingest' = [ingest EXCEPT ![c].at = "authorize"] /\ UNCHANGED queue
       ELSE EndIngest(c, ingest[c])
    /\ UNCHANGED <<process, transport, exported, savedPat, cachedPat, savedEver, saves, unavailable>>

(***************************************************************************)
(* apply_auth_headers: over HTTP the header of the call and nothing else;  *)
(* otherwise, in this order, the token used before, the one exported, and  *)
(* the one saved.                                                          *)
(***************************************************************************)
Operators == IF cachedPat # NoPat THEN cachedPat
             ELSE IF exported # NoPat THEN exported ELSE savedPat

\* Wrong on purpose: a call without a header falls back on the operator's token.
AuthorizeAnyway(c) ==
    LET key == IF transport = "http" /\ ingest[c].header # NoPat THEN ingest[c].header ELSE Operators
    IN  /\ HasLock(c) /\ ingest[c].at = "authorize"
        /\ cachedPat' = IF transport = "http" THEN cachedPat ELSE key
        /\ IF key = NoPat THEN EndIngest(c, ingest[c])
           ELSE ingest' = [ingest EXCEPT ![c].at = "execute", ![c].key = key] /\ UNCHANGED queue
        /\ UNCHANGED <<process, transport, exported, savedPat, client, savedEver, saves, unavailable>>

Authorize(c) ==
    LET key == IF transport = "http" THEN ingest[c].header ELSE Operators
    IN  /\ HasLock(c) /\ ingest[c].at = "authorize"
        /\ cachedPat' = IF transport = "http" THEN cachedPat ELSE key
        /\ IF key = NoPat THEN EndIngest(c, ingest[c])
           ELSE ingest' = [ingest EXCEPT ![c].at = "execute", ![c].key = key] /\ UNCHANGED queue
        /\ UNCHANGED <<process, transport, exported, savedPat, client, savedEver, saves, unavailable>>

EnterBreaker(c) ==
    /\ HasLock(c) /\ ingest[c].at = "execute"
    /\ IF Refuses(client.breaker, now) THEN EndIngest(c, ingest[c]) /\ UNCHANGED client
       ELSE /\ client' = [client EXCEPT !.breaker = Entered(@)]
            /\ ingest' = [ingest EXCEPT ![c].at = "dispatch"] /\ UNCHANGED queue
    /\ UNCHANGED <<process, transport, exported, savedPat, cachedPat, savedEver, saves, unavailable>>

(***************************************************************************)
(* dispatch sends the request again while no answer comes; an answer ends  *)
(* it, with an error if its status or its text (no markdown) is one.       *)
(***************************************************************************)
Failed(c) ==
    /\ client' = [client EXCEPT !.breaker = OnFailure(@, now)]
    /\ unavailable' = unavailable + 1

SendScrape(c, answer) ==
    LET sent == [ingest[c] EXCEPT !.sends = @ + 1]
    IN  /\ HasLock(c) /\ ingest[c].at = "dispatch"
        /\ \/ /\ answer \in {"text", "no_markdown"}
              /\ client' = [client EXCEPT !.breaker = OnSuccess(@)]
              /\ unavailable' = 0
              /\ EndIngest(c, [sent EXCEPT !.ok = answer = "text"])
           \/ /\ answer = "error_status" \/ (answer = "none" /\ sent.sends > Retries)
              /\ Failed(c) /\ EndIngest(c, sent)
           \/ /\ answer = "none" /\ sent.sends <= Retries
              /\ ingest' = [ingest EXCEPT ![c] = sent] /\ UNCHANGED <<client, queue, unavailable>>
        /\ UNCHANGED <<process, transport, exported, savedPat, cachedPat, savedEver, saves>>

\* Another process saves a token, or clears it.
SaveElsewhere(key) ==
    /\ saves < MaxSaves /\ saves' = saves + 1
    /\ savedPat' = key /\ savedEver' = savedEver \cup ({key} \ {NoPat})
    /\ UNCHANGED <<process, transport, exported, cachedPat, queue, client, ingest, unavailable>>

Proceed(c) ==
    \/ \E ok \in BOOLEAN : ReadLocal(c, ok)
    \/ StartFetch(c) \/ Authorize(c) \/ EnterBreaker(c)
    \/ \E answer \in {"text", "no_markdown", "error_status", "none"} : SendScrape(c, answer)

FetchNext ==
    \/ \E c \in Ingest, source \in {"web", "file"}, header \in Pat \cup {NoPat}, local \in BOOLEAN :
            AskIngest(c, source, header, local)
    \/ \E c \in Ingest : Proceed(c)
    \/ \E key \in Pat \cup {NoPat} : SaveElsewhere(key)

FetchSpec == FetchInit /\ [][FetchNext]_fetchVars

-----------------------------------------------------------------------------
(***************************************************************************)
(* A request on behalf of a caller over HTTP carries that caller's own     *)
(* token, whoever called before; any other carries one of the operator's:  *)
(* the exported one if there is one, or one that was saved.                *)
(***************************************************************************)
RequestsCarryTheRightToken ==
    \A c \in Ingest :
        ingest[c].sends > 0 =>
            CASE process = "http" -> ingest[c].key = ingest[c].header
              [] process # "http" /\ exported # NoPat -> ingest[c].key = exported
              [] OTHER -> ingest[c].key \in savedEver

(***************************************************************************)
(* Every call ends, however long those before it kept the lock.            *)
(***************************************************************************)
EveryIngestEnds == []<>(\A c \in Ingest : ingest[c].at \in {"new", "done"})

(***************************************************************************)
(* README.md: the circuit breaker "opens after 5 consecutive failures": a  *)
(* fetch after as many that failed is not sent.  (Only one at a time is.)  *)
(***************************************************************************)
BreakerOpens == unavailable >= Threshold => \A c \in Ingest : ingest[c].at # "dispatch"
=============================================================================
