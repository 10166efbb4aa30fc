---------------------------- MODULE FailureLadder ----------------------------
(***************************************************************************)
(* The life of one failing domain over days: the daemon looks at it once   *)
(* per scan, tries to renew it when its wait is over, records the outcome  *)
(* and tells the owner (recordFailure, notifyDomainState, and the success  *)
(* path of executeTask).  Its certificate is due all the time.  Unlike     *)
(* Renewal, this module keeps durations at their real proportions and      *)
(* follows a notification from the decision to its delivery and to the     *)
(* update that remembers it.                                               *)
(*                                                                         *)
(* It takes one attempt at a time, and a user's reset (Manual) between two *)
(* of them.  In the code a reset may meet an attempt that is running, and  *)
(* a second open task of the domain may follow a failure at once: those    *)
(* interleavings are in Renewal, where an attempt works with the copy of   *)
(* the row it read, and the durations are not.                             *)
(***************************************************************************)
EXTENDS RetryPolicy

CONSTANTS
    ScanInterval,   \* scan_interval: the daemon looks this often
    MaxMishaps      \* bound: lost notifications, updates that fail after
                    \* a delivery, and renewals a user asks for

(* The constants of renewerr.go and alert.go: a rate limit waits longer    *)
(* than any transient error (48 and 24 hours), and the seven waits of a    *)
(* full ladder, each at its longest, are a week.                           *)
ASSUME LadderAssumption ==
    /\ ScanInterval \in Nat \ {0}
    /\ MaxMishaps \in Nat
    /\ MaxDelay <= RateLimitedDelay
    /\ (MaxAttempts - 1) * MaxDelay <= RepeatInterval

VARIABLES
    pc,        \* idle, attempt, notify, save: where the daemon is
    row,       \* retry state and notification state of t_domain
    news,      \* the state notifyDomainState was called with
    told,      \* the last state a channel really delivered
    silence,   \* time since that delivery
    failing,   \* time since the first of the current failures
    sinceTry,  \* time since the last attempt
    passing,   \* ghost: the last failure is of an error that may pass
    budget     \* lost and unsaved notifications and manual renewals so far

vars == <<pc, row, news, told, silence, failing, sinceTry, passing, budget>>

(* Scans until the longest wait is over, as a duration.                    *)
LongestWait ==
    LET wait == RateLimitedDelay + (RateLimitedDelay \div 10)
    IN  ((wait + ScanInterval - 1) \div ScanInterval) * ScanInterval

LongestSilence == RepeatInterval + LongestWait

(* A clock stops where no decision and no property tells its values apart: *)
(* age at the next reminder, sinceTry after two scans, and the other two   *)
(* past the longest silence a property allows.                             *)
Horizon == ((1 + MaxMishaps) * LongestSilence) + ScanInterval
Older(t, horizon) == AtMost(t + ScanInterval, horizon)

Init ==
    /\ pc = "idle"
    /\ row = [retry |-> 0, wait |-> 0, kind |-> "none", blocked |-> FALSE,
              notified |-> "none", age |-> 0]
    /\ news = "ok" /\ told = "none"
    /\ silence = 0 /\ failing = 0 /\ sinceTry = 0 /\ passing = FALSE
    /\ budget = [lost |-> 0, unsaved |-> 0, manual |-> 0]

Spend(what) ==
    /\ budget.lost + budget.unsaved + budget.manual < MaxMishaps
    /\ budget' = [budget EXCEPT ![what] = @ + 1]

-----------------------------------------------------------------------------
(* createRenewTasks' query, at the time of a scan.                         *)
Retried(r) == ~r.blocked /\ r.wait = 0

(* The ticker of Daemon.Run fires, after ScanInterval.                     *)
Scan ==
    LET aged == [row EXCEPT
            !.wait = IF @ > ScanInterval THEN @ - ScanInterval ELSE 0,
            !.age = Older(@, RepeatInterval)]
    IN  /\ pc = "idle"
        /\ row' = aged
        /\ silence' = Older(silence, Horizon)
        /\ sinceTry' = Older(sinceTry, 2 * ScanInterval)
        /\ failing' = IF row.retry = 0 THEN 0 ELSE Older(failing, Horizon)
        /\ pc' = IF Retried(aged) THEN "attempt" ELSE "idle"
        /\ UNCHANGED <<news, told, passing, budget>>

(* CreateRenewTask: a user clears the failures and starts an attempt.      *)
Manual ==
    /\ pc = "idle" /\ Spend("manual")
    /\ row' = [row EXCEPT !.retry = 0, !.wait = 0, !.kind = "none",
                          !.blocked = FALSE]
    /\ failing' = 0 /\ passing' = FALSE
    /\ pc' = "attempt"
    /\ UNCHANGED <<news, told, silence, sinceTry>>

(* executeTask succeeds.                                                   *)
Succeed ==
    /\ pc = "attempt" /\ pc' = "notify"
    /\ row' = [row EXCEPT !.retry = 0, !.wait = 0, !.kind = "none",
                          !.blocked = FALSE]
    /\ news' = "ok" /\ failing' = 0 /\ sinceTry' = 0 /\ passing' = FALSE
    /\ UNCHANGED <<told, silence, budget>>

(* What is to be expected of an error, whatever Classify makes of it: a    *)
(* step that was interrupted passes, one that was marked or refused by the *)
(* one who answered does not.  A status says so where no code does.        *)
MayPass(error) ==
    \/ error.ended
    \/ ~error.marked /\ error.origin = "other"
    \/ /\ ~error.marked /\ error.code # "permanent"
       /\ \/ error.origin = "acme"
          \/ error.origin = "aliyun" /\ error.code = "limited"
          \/ error.status \in {302, 429, 500}

Failures == {[kind |-> Classify(e), passing |-> MayPass(e)] : e \in Errors}

(* executeTask fails with such an error: recordFailure.                    *)
FailWith(failure) ==
    LET attempts == AtMost(row.retry + 1, MaxAttempts)
    IN  /\ pc = "attempt" /\ pc' = "notify"
        /\ \E w \in Backoff(failure.kind, attempts) :
              /\ row' = [row EXCEPT
                    !.retry = attempts, !.kind = failure.kind,
                    !.wait = IF w = NoRetry THEN 0 ELSE w,
                    !.blocked = IF w = NoRetry THEN TRUE ELSE @]
              /\ news' = IF w = NoRetry THEN "blocked" ELSE "failed"
        /\ sinceTry' = 0 /\ passing' = failure.passing
        /\ UNCHANGED <<told, silence, failing, budget>>

(* notifyDomainState decides, and SendToAllFeishuChannels sends: whether a *)
(* channel took the message is logged, and not known to the caller.        *)
Notify ==
    /\ pc = "notify"
    /\ \/ /\ ~ShouldNotify(row.notified, row.age, news)
          /\ pc' = "idle" /\ UNCHANGED <<told, silence, budget>>
       \/ /\ ShouldNotify(row.notified, row.age, news)
          /\ pc' = "save"
          /\ \/ told' = news /\ silence' = 0 /\ UNCHANGED budget
             \/ Spend("lost") /\ UNCHANGED <<told, silence>>
    /\ UNCHANGED <<row, news, failing, sinceTry, passing>>

(* The update of notified_state and last_notified_at, unless it fails or   *)
(* the process stops first.                                                *)
Remembered(r) == [r EXCEPT !.notified = news, !.age = 0]

Save ==
    /\ pc = "save" /\ pc' = "idle"
    /\ \/ row' = Remembered(row) /\ UNCHANGED budget
       \/ Spend("unsaved") /\ UNCHANGED row
    /\ UNCHANGED <<news, told, silence, failing, sinceTry, passing>>

Next ==
    \/ Scan \/ Manual \/ Succeed \/ Notify \/ Save
    \/ \E failure \in Failures : FailWith(failure)

Spec == Init /\ [][Next]_vars

-----------------------------------------------------------------------------
(* Properties.                                                             *)

TypeOK ==
    /\ pc \in {"idle", "attempt", "notify", "save"}
    /\ row \in [retry : 0..MaxAttempts, wait : Nat, kind : Kinds \cup {"none"},
                blocked : BOOLEAN, notified : NotifiedStates, age : 0..RepeatInterval]
    /\ news \in AlertStates /\ told \in NotifiedStates
    /\ silence \in 0..Horizon /\ failing \in 0..Horizon
    /\ sinceTry \in 0..(2 * ScanInterval) /\ passing \in BOOLEAN
    /\ budget \in [lost : 0..MaxMishaps, unsaved : 0..MaxMishaps,
                   manual : 0..MaxMishaps]

(* A message reaches the owner.                                            *)
Delivered == Notify /\ pc' = "save" /\ UNCHANGED budget

(* As long as every notification is sent and remembered, what the owner is *)
(* told is news to him: a fault is another one than he was told last, or   *)
(* he was told of it RepeatInterval ago or earlier, and "ok" follows only  *)
(* a fault he was told of (alert.go:3, a change of state and not one more  *)
(* failure).  Every real change is news, so a domain that fails, recovers  *)
(* and fails again in a day makes three messages, the first and the last   *)
(* of them the same.                                                       *)
OnlyNewsIsTold ==
    [][Delivered /\ budget.lost + budget.unsaved = 0
       => IF told' = "ok" THEN told \in {"failed", "blocked"}
          ELSE told' # told \/ silence >= RepeatInterval]_vars

(* A domain that goes on failing without being blocked is reported again   *)
(* at the first attempt after RepeatInterval, so the owner never hears     *)
(* nothing of it for longer than that and one wait; a lost message costs   *)
(* one such period more, and an update that is not saved costs nothing.    *)
FailingIsReminded ==
    row.retry > 0 /\ ~row.blocked /\ pc = "idle"
    => AtMost(silence, failing) <= (1 + budget.lost) * LongestSilence

(* The daemon itself does not try again at the scan that follows a rate    *)
(* limit, so that the CA's window of seven days is not kept full by daily  *)
(* retries.                                                                *)
RateLimitOutlastsScan ==
    [][Scan /\ pc' = "attempt" /\ row.kind = "rate_limited"
       => sinceTry' > ScanInterval]_vars

(* An error that may pass (MayPass, not what Classify calls it) does not   *)
(* block a domain in less than the waits of a full ladder, each at its     *)
(* shortest: an outage of the cloud or the CA of an afternoon, or a stop   *)
(* of the process in the middle of a renewal, never leaves a domain to     *)
(* manual care.                                                            *)
Ladder[n \in Nat] ==
    IF n = 0 THEN 0
    ELSE Ladder[n - 1] + NominalDelay(n) - (NominalDelay(n) \div 10)

GivesUpSlowly ==
    row.blocked /\ passing => failing >= Ladder[MaxAttempts - 1]

-----------------------------------------------------------------------------
(* What the documentation says and the code does not do.                   *)

(* README:49: a lasting fault is reported once a week; a blocked domain is *)
(* not tried again, so it is never reported again.                         *)
FaultIsReminded ==
    row.retry > 0 /\ pc = "idle"
    => silence <= LongestSilence

(* alert.go:24: the remembered state is the last one really sent.          *)
RememberedWasSent == pc = "idle" => row.notified = told
=============================================================================
