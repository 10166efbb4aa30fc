----------------------------- MODULE RetryPolicy -----------------------------
(***************************************************************************)
(* internal/renewerr and internal/alert: how long a domain waits after a   *)
(* failed renewal, when the daemon gives up on it, and which changes of    *)
(* state are worth a notification.  Durations are in whole units of the    *)
(* instance: minutes in MCRetryPolicy, abstract ticks under Renewal.       *)
(***************************************************************************)
EXTENDS Integers

CONSTANTS
    BaseDelay,         \* baseDelay: first wait after a transient error
    MaxDelay,          \* maxDelay: no transient wait is longer, jitter apart
    RateLimitedDelay,  \* rateLimitedDelay: fixed wait after a rate limit
    MaxAttempts,       \* maxAttempts: transient failures before giving up
    RepeatInterval     \* alert.RepeatInterval: silence between reminders

ASSUME PolicyAssumption ==
    /\ BaseDelay \in Nat \ {0}
    /\ MaxDelay \in Nat \ {0}
    /\ RateLimitedDelay \in Nat \ {0}
    /\ MaxAttempts \in Nat \ {0}
    /\ RepeatInterval \in Nat \ {0}

(* entdomain.ErrorKind without "none", which is the kind of no error.      *)
Kinds == {"transient", "permanent", "rate_limited"}

(* The nil *time.Time of Backoff, and a NULL next_retry_at.                *)
NoRetry == -1

-----------------------------------------------------------------------------
(* Classify.                                                               *)

(* What the chain of an error shows: whether a context in it ended, the    *)
(* mark of renewerr.Permanent, whose answer it is, and the meaning of its  *)
(* code (none of the listed ones is "other") and its HTTP status.          *)
Errors == [ended  : BOOLEAN,
           marked : BOOLEAN,
           origin : {"oss", "aliyun", "acme", "other"},
           code   : {"permanent", "limited", "other"},
           status : {302, 400, 403, 404, 429, 500}]

ByStatusCode(status) ==
    IF status = 429 THEN "rate_limited"
    ELSE IF status \in {400, 403, 404} THEN "permanent" ELSE "transient"

(* The order matters: a step that was interrupted is not a permanent       *)
(* error, whatever else it met.  OSS has no codes of its own for a limit,  *)
(* ACME no fallback to the status.                                         *)
Classify_MarkFirst(error) ==
    IF error.marked THEN "permanent"
    ELSE IF error.ended THEN "transient"
    ELSE IF error.origin = "other" THEN "transient"
    ELSE IF error.code = "permanent" THEN "permanent"
    ELSE IF error.code = "limited" /\ error.origin # "oss" THEN "rate_limited"
    ELSE IF error.origin = "acme" THEN "transient"
    ELSE ByStatusCode(error.status)

Classify(error) ==
    IF error.ended THEN "transient"
    ELSE IF error.marked THEN "permanent"
    ELSE IF error.origin = "other" THEN "transient"
    ELSE IF error.code = "permanent" THEN "permanent"
    ELSE IF error.code = "limited" /\ error.origin # "oss" THEN "rate_limited"
    ELSE IF error.origin = "acme" THEN "transient"
    ELSE ByStatusCode(error.status)

-----------------------------------------------------------------------------
(* Backoff.                                                                *)

AtMost(a, b) == IF a < b THEN a ELSE b

(* withJitter: a random wait within a tenth of the nominal delay.          *)
WithJitter_AroundZero(delay) == (-delay) .. delay

WithJitter(delay) == (delay - (delay \div 10)) .. (delay + (delay \div 10))

(* The transient delay doubles with every attempt, the shift stops at 16,  *)
(* and a value out of 1..MaxDelay is replaced by MaxDelay.                 *)
NominalDelay(attempts) ==
    LET delay == BaseDelay * (2 ^ AtMost(attempts - 1, 16))
    IN  IF delay \in 1..MaxDelay THEN delay ELSE MaxDelay

(* Backoff: the waits it may choose; attempts counts this failure.         *)
Backoff_OneDelay(kind, attempts) ==
    IF kind = "permanent" THEN {NoRetry}
    ELSE IF kind = "transient" /\ attempts >= MaxAttempts THEN {NoRetry}
    ELSE WithJitter(NominalDelay(attempts))

Backoff(kind, attempts) ==
    IF kind = "permanent" THEN {NoRetry}
    ELSE IF kind = "rate_limited" THEN WithJitter(RateLimitedDelay)
    ELSE IF attempts >= MaxAttempts THEN {NoRetry}
    ELSE WithJitter(NominalDelay(attempts))

(* Exhausted: this failure is not retried automatically.                   *)
Exhausted(kind, attempts) ==
    kind = "permanent" \/ (kind = "transient" /\ attempts >= MaxAttempts)

-----------------------------------------------------------------------------
(* Notifications.                                                          *)

(* The NotifiedState column: empty until a first notification.             *)
AlertStates == {"ok", "failed", "blocked"}
NotifiedStates == AlertStates \cup {"none"}

(* ShouldNotify: age is the time since the last notification.  A NULL      *)
(* last_notified_at only accompanies an empty notified_state.              *)
ShouldNotify_EveryTime(prev, age, next) ==
    IF next = "ok" THEN prev \notin {"none", "ok"} ELSE TRUE

ShouldNotify_OnlyChanges(prev, age, next) ==
    IF next = "ok" THEN prev \notin {"none", "ok"} ELSE prev # next

ShouldNotify(prev, age, next) ==
    IF next = "ok" THEN prev \notin {"none", "ok"}
    ELSE prev # next \/ age >= RepeatInterval
=============================================================================
