----------------------------- MODULE AcmeAccount -----------------------------
(***************************************************************************)
(* The ACME account every issue needs: ensureACMEAccount of the daemon     *)
(* over acme.Manager.EnsureAccount.  A job is one call: the daemon's cycle *)
(* and every goroutine of CreateRenewTask make one, each with the settings *)
(* it read earlier and each with a Manager of its own.                     *)
(*                                                                         *)
(* An account is identified by its key; registering a key the CA knows     *)
(* gives the account it has.                                               *)
(***************************************************************************)
EXTENDS Integers, FiniteSets

CONSTANTS
    Jobs,       \* concurrent calls
    Keys,       \* account keys that may be generated
    NoKey,      \* the empty column
    MaxLost,    \* bound: registrations that fail
    MaxFaults,  \* bound: updates of the settings that fail
    MaxCrashes  \* bound: restarts of the process

\* The cycle of the daemon is always one of the jobs.
ASSUME AccountAssumption ==
    /\ IsFiniteSet(Jobs) /\ Jobs # {} /\ IsFiniteSet(Keys)
    /\ NoKey \notin Keys
    /\ MaxLost \in Nat /\ MaxFaults \in Nat /\ MaxCrashes \in Nat

VARIABLES
    stored,  \* acme_account_key and acme_registration of t_app_settings
    ca,      \* keys with an account at the CA
    used,    \* keys generated so far
    job,     \* job[j]: pc and the account it has in hand
    budget   \* lost registrations, faults and crashes so far

vars == <<stored, ca, used, job, budget>>

Empty == [key |-> NoKey, reg |-> NoKey]
Idle == [pc |-> "idle", key |-> NoKey, reg |-> NoKey]

(* A database may come without an account, with one, with a key that was   *)
(* never registered, or with a registration whose key is gone.             *)
Init ==
    /\ \E k \in Keys :
          /\ stored \in {Empty, [key |-> k, reg |-> k], [key |-> k, reg |-> NoKey],
                         [key |-> NoKey, reg |-> k]}
          /\ ca = {stored.reg} \ {NoKey}
          /\ used = {stored.key, stored.reg} \ {NoKey}
    /\ job = [j \in Jobs |-> Idle]
    /\ budget = [lost |-> 0, faults |-> 0, crashes |-> 0]

Spend(what, bound) ==
    /\ budget[what] < bound
    /\ budget' = [budget EXCEPT ![what] = @ + 1]

At(j, pc) == job[j].pc = pc
Goto(j, pc) == job' = [job EXCEPT ![j].pc = pc]

(* GetAppSettings, at the start of a cycle or of ExecuteTaskByID.          *)
ReadSettings(j) ==
    /\ At(j, "idle")
    /\ job' = [job EXCEPT ![j] = [pc |-> "build", key |-> stored.key,
                                  reg |-> stored.reg]]
    /\ UNCHANGED <<stored, ca, used, budget>>

(* buildUser refuses a registration without its key.                       *)
Damaged_Never(a) == FALSE
Damaged(a) == a.reg # NoKey /\ a.key = NoKey

(* EnsureAccount registers unless the settings hold a registration.        *)
NeedsRegistration_NoKey(a) == a.key = NoKey
NeedsRegistration(a) == a.reg = NoKey

(* buildUser, and the early return of EnsureAccount.                       *)
Build(j) ==
    LET a == job[j]
    IN  /\ At(j, "build")
        /\ \/ /\ Damaged(a)
              /\ job' = [job EXCEPT ![j] = Idle] /\ UNCHANGED used
           \/ /\ ~Damaged(a) /\ ~NeedsRegistration(a)
              /\ Goto(j, "use") /\ UNCHANGED used
           \/ /\ ~Damaged(a) /\ NeedsRegistration(a)
              /\ \E k \in IF a.key = NoKey THEN Keys \ used ELSE {a.key} :
                    /\ job' = [job EXCEPT ![j] = [@ EXCEPT !.pc = "register",
                                                           !.key = k]]
                    /\ used' = used \cup {k}
        /\ UNCHANGED <<stored, ca, budget>>

(* Registration.Register: the CA may have made the account of a call that  *)
(* fails, and the key of a failed call is forgotten.                       *)
Register(j) ==
    LET k == job[j].key
    IN  /\ At(j, "register")
        /\ \/ /\ ca' = ca \cup {k} /\ UNCHANGED budget
              /\ job' = [job EXCEPT ![j] = [@ EXCEPT !.pc = "save", !.reg = k]]
           \/ /\ ca' \in {ca, ca \cup {k}} /\ Spend("lost", MaxLost)
              /\ job' = [job EXCEPT ![j] = Idle]
        /\ UNCHANGED <<stored, used>>

(* SaveACMEAccount writes both columns in one update, whatever they hold   *)
(* by now; its error is only logged.                                       *)
Saved_KeepsKey(old, a) ==
    [key |-> IF old.key = NoKey THEN a.key ELSE old.key, reg |-> a.reg]
Saved_Nothing(old, a) == old
Saved(old, a) == [key |-> a.key, reg |-> a.reg]

Save(j) ==
    /\ At(j, "save") /\ Goto(j, "use")
    /\ \/ stored' = Saved(stored, job[j]) /\ UNCHANGED budget
       \/ UNCHANGED stored /\ Spend("faults", MaxFaults)
    /\ UNCHANGED <<ca, used>>

(* The renewals made with the account are over.                            *)
Use(j) ==
    /\ At(j, "use")
    /\ job' = [job EXCEPT ![j] = Idle]
    /\ UNCHANGED <<stored, ca, used, budget>>

Crash ==
    /\ Spend("crashes", MaxCrashes)
    /\ job' = [j \in Jobs |-> Idle]
    /\ UNCHANGED <<stored, ca, used>>

Next ==
    \/ \E j \in Jobs :
          ReadSettings(j) \/ Build(j) \/ Register(j) \/ Save(j) \/ Use(j)
    \/ Crash

Spec == Init /\ [][Next]_vars

-----------------------------------------------------------------------------
(* Properties.                                                             *)

AccountType == [key : Keys \cup {NoKey}, reg : Keys \cup {NoKey}]

TypeOK ==
    /\ stored \in AccountType
    /\ ca \subseteq Keys /\ used \subseteq Keys
    /\ job \in [Jobs -> [pc : {"idle", "build", "register", "save", "use"},
                         key : Keys \cup {NoKey}, reg : Keys \cup {NoKey}]]
    /\ budget \in [lost : 0..MaxLost, faults : 0..MaxFaults,
                   crashes : 0..MaxCrashes]

(* The two columns belong together and name an account the CA knows: two   *)
(* jobs that both register and overwrite each other leave the account of   *)
(* one of them, never the key of one and the registration of the other.    *)
StoredIsRegistered ==
    stored.key # NoKey /\ stored.reg # NoKey
    => stored.key = stored.reg /\ stored.key \in ca

(* No certificate is ordered with a key the CA has no account for.         *)
UsedIsRegistered ==
    \A j \in Jobs : At(j, "use") => job[j].reg = job[j].key /\ job[j].key \in ca

(* A job registers at most once, however often it runs: once one account   *)
(* is stored every later reading finds one, so that the accounts made at   *)
(* the CA are no more than the calls that overlapped, and the failures.    *)
RegistrationsBounded ==
    Cardinality(ca) <= Cardinality(Jobs) + budget.lost + budget.faults
                       + (budget.crashes * Cardinality(Jobs))

-----------------------------------------------------------------------------
(* What the documentation says and the code does not do.                   *)

(* manager.go:66: registration happens once only.                          *)
RegistersOnce == Cardinality(ca) <= 1
=============================================================================
