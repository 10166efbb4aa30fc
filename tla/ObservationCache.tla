--------------------------- MODULE ObservationCache ---------------------------
(***************************************************************************)
(* internal/cloudstate: the one cached observation of the cloud that the   *)
(* daemon's cycle, its executors and the API share, and the gate its       *)
(* callers pass one at a time.                                             *)
(*                                                                         *)
(* What is observed is the state of the cloud between two moments, so an   *)
(* observation is the key it was made for and the times its load began     *)
(* and ended.                                                              *)
(***************************************************************************)
EXTENDS Integers

CONSTANTS
    Callers,     \* goroutines that may ask for an observation
    Idle,        \* no caller: the gate is free
    Freshness,   \* how long an observation may be shared
    MaxUpdates,  \* bound: changes of the cloud accounts
    MaxTime      \* bound: the end of time

ASSUME CacheAssumption ==
    /\ Idle \notin Callers
    /\ Freshness \in Nat \ {0} /\ MaxUpdates \in Nat /\ MaxTime \in Nat

VARIABLES
    accounts,  \* version of the enabled rows of t_cloud_account
    gate,      \* the caller that holds the gate
    cache,     \* the observation and how long it is fresh
    call,      \* call[c]: the present or the last call of c
    now        \* the clock

vars == <<accounts, gate, cache, call, now>>

(* RefreshAccounts hashes the accounts it is given: Refresh gives all of   *)
(* them, RescanCloudAccount one.                                           *)
Scopes == {"all", "one"}
Key == [version : 0..MaxUpdates, scope : Scopes]
NoKey == [version |-> -1, scope |-> "all"]

(* whole is FALSE when the load was cut short by its caller's context.     *)
Observation == [key : Key \cup {NoKey}, from : -1..MaxTime, to : -1..MaxTime,
                whole : BOOLEAN]
Nothing == [key |-> NoKey, from |-> -1, to |-> -1, whole |-> TRUE]

Start(key, force) ==
    [pc |-> "wait", key |-> key, force |-> force, cancelled |-> FALSE,
     began |-> now, result |-> Nothing, at |-> -1]

Failure ==
    [pc |-> "failed", key |-> NoKey, force |-> FALSE, cancelled |-> FALSE,
     began |-> 0, result |-> Nothing, at |-> -1]

Init ==
    /\ accounts = 0 /\ gate = Idle /\ now = 0
    /\ cache = [value |-> Nothing, until |-> -1]
    /\ call = [c \in Callers |-> Failure]

At(c, pc) == call[c].pc = pc
Goto(c, pc) == call' = [call EXCEPT ![c].pc = pc]
Fail(c) == call' = [call EXCEPT ![c] = Failure]
Return(c, value) ==
    call' = [call EXCEPT ![c] = [@ EXCEPT !.pc = "done", !.result = value,
                                          !.at = now]]

(* Refresh or RefreshAccounts, up to the gate: the accounts are read       *)
(* before the wait.                                                        *)
Refresh(c) ==
    /\ At(c, "failed") \/ At(c, "done")
    /\ \E scope \in Scopes, force \in BOOLEAN :
          /\ scope = "one" => force
          /\ call' = [call EXCEPT ![c] = Start([version |-> accounts,
                                                scope |-> scope], force)]
    /\ UNCHANGED <<accounts, gate, cache, now>>

(* The select on the gate and the context, which may choose either when    *)
(* both are ready.                                                         *)
Pass(c) ==
    /\ At(c, "wait") /\ gate = Idle
    /\ gate' = c /\ Goto(c, "in")
    /\ UNCHANGED <<accounts, cache, now>>

GiveUp(c) ==
    /\ At(c, "wait") /\ call[c].cancelled
    /\ Fail(c)
    /\ UNCHANGED <<accounts, gate, cache, now>>

(* The deferred receive, on every way out.                                 *)
Freed_OnSuccess(ok) == IF ok THEN Idle ELSE gate
Freed(ok) == Idle

(* May c be given what another call observed?                              *)
Shared_AnyKey(c) == ~call[c].force /\ now < cache.until
Shared_EvenForced(c) == call[c].key = cache.value.key /\ now < cache.until
Shared_Forever(c) == ~call[c].force /\ call[c].key = cache.value.key
Shared(c) ==
    /\ ~call[c].force
    /\ call[c].key = cache.value.key
    /\ now < cache.until

Failed_Never(c) == FALSE
Failed(c) == call[c].cancelled

Enter(c) ==
    /\ At(c, "in")
    /\ \/ /\ Failed(c)
          /\ Fail(c) /\ gate' = Freed(FALSE)
       \/ /\ ~Failed(c) /\ Shared(c)
          /\ Return(c, cache.value) /\ gate' = Freed(TRUE)
       \/ /\ ~Failed(c) /\ ~Shared(c)
          /\ call' = [call EXCEPT ![c] =
                         [@ EXCEPT !.pc = "load", !.result.from = now]]
          /\ UNCHANGED gate
    /\ UNCHANGED <<accounts, cache, now>>

(* The end of discovery.Run.  A context that ended during it leaves an     *)
(* observation that may lack anything.                                     *)
Loaded(c) ==
    /\ At(c, "load")
    /\ \/ /\ Failed(c)
          /\ Fail(c) /\ gate' = Freed(FALSE) /\ UNCHANGED cache
       \/ /\ ~Failed(c)
          /\ LET v == [key |-> call[c].key, from |-> call[c].result.from,
                       to |-> now, whole |-> ~call[c].cancelled]
             IN  /\ cache' = [value |-> v, until |-> now + Freshness]
                 /\ Return(c, v)
          /\ gate' = Freed(TRUE)
    /\ UNCHANGED <<accounts, now>>

(* The caller's context ends: rescanTimeout, or the user is gone.          *)
Cancel(c) ==
    /\ At(c, "wait") \/ At(c, "in") \/ At(c, "load")
    /\ ~call[c].cancelled
    /\ call' = [call EXCEPT ![c].cancelled = TRUE]
    /\ UNCHANGED <<accounts, gate, cache, now>>

(* CreateCloudAccount, UpdateCloudAccount or DeleteCloudAccount: each      *)
(* changes a row, updated_at included.                                     *)
UpdateAccounts ==
    /\ accounts < MaxUpdates
    /\ accounts' = accounts + 1
    /\ UNCHANGED <<gate, cache, call, now>>

Tick ==
    /\ now < MaxTime
    /\ now' = now + 1
    /\ UNCHANGED <<accounts, gate, cache, call>>

Next ==
    \/ \E c \in Callers :
          \/ Refresh(c) \/ Pass(c) \/ GiveUp(c) \/ Enter(c) \/ Loaded(c)
          \/ Cancel(c)
    \/ UpdateAccounts \/ Tick

(* A goroutine runs on, the requests of a load time out, and senders on a  *)
(* channel are served in the order in which they came.                     *)
Fairness ==
    \A c \in Callers :
       WF_vars(Enter(c)) /\ WF_vars(Loaded(c)) /\ SF_vars(Pass(c))

Spec == Init /\ [][Next]_vars
FairSpec == Spec /\ Fairness

-----------------------------------------------------------------------------
(* Properties.                                                             *)

TypeOK ==
    /\ accounts \in 0..MaxUpdates /\ now \in 0..MaxTime
    /\ gate \in Callers \cup {Idle}
    /\ cache \in [value : Observation, until : -1..(MaxTime + Freshness)]
    /\ call \in [Callers -> [pc : {"wait", "in", "load", "done", "failed"},
                             key : Key \cup {NoKey}, force : BOOLEAN,
                             cancelled : BOOLEAN, began : 0..MaxTime,
                             result : Observation, at : -1..MaxTime]]

(* Nobody deploys to the domains of other accounts: a call is given the    *)
(* observation of the accounts it read, although a rescan of one account   *)
(* and a change of the accounts go through the same single entry.          *)
ResultIsMine == \A c \in Callers : At(c, "done") => call[c].result.key = call[c].key

(* The comment of Refresh: a scan, a user's refresh and the check before   *)
(* a new certificate is deployed look at the cloud after they were asked   *)
(* for, however long they waited for the gate.                             *)
ForcedIsNew ==
    \A c \in Callers :
       At(c, "done") /\ call[c].force => call[c].result.from >= call[c].began

(* The same comment: what is shared was complete less than freshness ago   *)
(* when it was handed out.                                                 *)
SharedIsFresh ==
    \A c \in Callers :
       At(c, "done") => call[c].at - call[c].result.to < Freshness

(* A user who goes away during a refresh leaves no half observation behind *)
(* for the executors, which would take its domains for deleted.            *)
NoPartialResult ==
    cache.value.whole /\ \A c \in Callers : At(c, "done") => call[c].result.whole

(* One call at a time is behind the gate, and the gate is never held by a  *)
(* call that has returned, or every later call would wait for ever.        *)
GateIsHeld ==
    \A c \in Callers : (At(c, "in") \/ At(c, "load")) <=> gate = c

(* Every call returns, with an observation or an error.                    *)
EveryCallReturns ==
    \A c \in Callers : At(c, "wait") ~> (At(c, "done") \/ At(c, "failed"))
=============================================================================
