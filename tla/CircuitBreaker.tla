--------------------------- MODULE CircuitBreaker ---------------------------
(***************************************************************************)
(* What stands between a client of Firecrawl's API and the network: the    *)
(* rate limiter (src/src/core/rate_limiter.rs) and the circuit breaker     *)
(* (src/src/core/circuit_breaker.rs), as the callers that share one        *)
(* ApiClient see them.  Each has a lock of its own that is held for its    *)
(* bookkeeping and not during the call.  (The program makes an ApiClient   *)
(* for every fetch, see Fetch: this is what the two components promise to  *)
(* whoever keeps one.)                                                     *)
(***************************************************************************)
EXTENDS Naturals, Sequences, FiniteSets

CONSTANTS
    Requester,      \* tasks that call through one client
    Threshold,      \* failure_threshold: 5
    ResetTimeout,   \* reset_timeout: 30 s, in ticks of the clock
    CallLimit,      \* rate_limit, in calls per
    Period,         \*   window: 1 s, in ticks
    MaxTime         \* bound: ticks of the clock

ASSUME CircuitBreakerAssumption ==
    /\ Threshold \in Nat \ {0} /\ ResetTimeout \in Nat \ {0} /\ CallLimit \in Nat
    /\ Period \in Nat \ {0} /\ MaxTime \in Nat

VARIABLES
    breaker,        \* Inner
    timestamps,     \* the limiter's
    now,            \* the clock
    allowed,        \* the callers the limiter let through,
    calling,        \*   and those inside execute's closure
    acquired,       \* history: when the limiter let a call through
    failedInARow,   \* history: calls that failed since the last that did not,
    lastFailure     \*   and when the last of them did

breakerVars == <<breaker, timestamps, now, allowed, calling, acquired, failedInARow, lastFailure>>

-----------------------------------------------------------------------------
(***************************************************************************)
(* The breaker as a value.  A call that finds it open after reset_timeout  *)
(* makes it half open and goes ahead; so does one that finds it half open. *)
(***************************************************************************)
NewBreaker == [state |-> "closed", failures |-> 0, openedAt |-> 0]

Refuses(b, time) == b.state = "open" /\ time - b.openedAt < ResetTimeout

Entered(b) == IF b.state = "open" THEN [b EXCEPT !.state = "half_open"] ELSE b

OnSuccess(b) == [b EXCEPT !.failures = 0, !.state = "closed"]

\* Wrong on purpose: only a closed breaker that opens notes the time.
OnFailureOpenedOnce(b, time) ==
    LET n == b.failures + 1
    IN  IF b.state = "closed" /\ n >= Threshold
        THEN [state |-> "open", failures |-> n, openedAt |-> time]
        ELSE IF b.state = "half_open" THEN [b EXCEPT !.state = "open", !.failures = n]
        ELSE [b EXCEPT !.failures = n]

\* A failure that comes in while the breaker is open already starts the wait anew.
OnFailure(b, time) ==
    LET n == b.failures + 1
    IN  IF b.state = "half_open" \/ n >= Threshold
        THEN [state |-> "open", failures |-> n, openedAt |-> time]
        ELSE [b EXCEPT !.failures = n]

(***************************************************************************)
(* The limiter as a value: the times of the calls it let through.  Their   *)
(* order is never looked at, so they are a set; calls of one time are told *)
(* apart by a number, as <<time, how many came before>>.                   *)
(***************************************************************************)
Recent(stamps, time) == {t \in stamps : time - t[1] < Period}

Allows(stamps, time) == Cardinality(Recent(stamps, time)) < CallLimit

At(stamps, time) == {t \in stamps : t[1] = time}

Acquired(stamps, time) ==
    LET recent == Recent(stamps, time)
    IN  recent \cup {<<time, Cardinality(At(recent, time))>>}

-----------------------------------------------------------------------------
BreakerInit ==
    /\ breaker = NewBreaker /\ timestamps = {} /\ now = 0
    /\ allowed = {} /\ calling = {} /\ acquired = <<>> /\ failedInARow = 0 /\ lastFailure = 0

(***************************************************************************)
(* acquire; the time is read just before the lock is taken: one step.      *)
(***************************************************************************)
Acquire(c) ==
    /\ c \notin calling \cup allowed
    /\ Allows(timestamps, now)
    /\ timestamps' = Acquired(timestamps, now) /\ acquired' = Append(acquired, now)
    /\ allowed' = allowed \cup {c}
    /\ UNCHANGED <<breaker, now, calling, failedInARow, lastFailure>>

\* A call that is over the limit only forgets what is out of the window.
OverLimit(c) ==
    /\ c \notin calling \cup allowed /\ ~Allows(timestamps, now)
    /\ timestamps' = Recent(timestamps, now)
    /\ UNCHANGED <<breaker, now, allowed, calling, acquired, failedInARow, lastFailure>>

\* The beginning of execute.
Execute(c) ==
    /\ c \in allowed /\ allowed' = allowed \ {c}
    /\ IF Refuses(breaker, now) THEN UNCHANGED <<breaker, calling>>
       ELSE breaker' = Entered(breaker) /\ calling' = calling \cup {c}
    /\ UNCHANGED <<timestamps, now, acquired, failedInARow, lastFailure>>

Succeed(c) ==
    /\ c \in calling /\ calling' = calling \ {c}
    /\ breaker' = OnSuccess(breaker)
    /\ failedInARow' = 0
    /\ UNCHANGED <<timestamps, now, allowed, acquired, lastFailure>>

Fail(c) ==
    /\ c \in calling /\ calling' = calling \ {c}
    /\ breaker' = OnFailure(breaker, now)
    /\ failedInARow' = failedInARow + 1 /\ lastFailure' = now
    /\ UNCHANGED <<timestamps, now, allowed, acquired>>

Tick ==
    /\ now < MaxTime /\ now' = now + 1
    /\ UNCHANGED <<breaker, timestamps, allowed, calling, acquired, failedInARow, lastFailure>>

BreakerNext ==
    \/ \E c \in Requester : Acquire(c) \/ OverLimit(c) \/ Execute(c) \/ Succeed(c) \/ Fail(c)
    \/ Tick

BreakerSpec == BreakerInit /\ [][BreakerNext]_breakerVars

-----------------------------------------------------------------------------
(***************************************************************************)
(* After failure_threshold failures in a row nothing is called until       *)
(* reset_timeout has passed since the last of them, whichever calls were   *)
(* under way when the first of them came in; and never are more than       *)
(* rate_limit calls let through in a stretch of time as long as the        *)
(* limiter's window.                                                       *)
(***************************************************************************)
LatelyAcquired == {i \in DOMAIN acquired : now - acquired[i] < Period}

HeldBackByBreaker ==
    failedInARow >= Threshold /\ now - lastFailure < ResetTimeout => calling' \subseteq calling

HeldBackByLimiter == acquired' # acquired => Cardinality(LatelyAcquired) < CallLimit

CallsAreHeldBack == [][HeldBackByBreaker /\ HeldBackByLimiter]_breakerVars
=============================================================================
