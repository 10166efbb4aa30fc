------------------------------- MODULE Renewal -------------------------------
(***************************************************************************)
(* The renewal engine of certship: the daemon's scan cycle, the executors  *)
(* of renew tasks (started by the daemon and by the API), the API handlers *)
(* that create tasks and pause or resume a domain, and the two tables they *)
(* share, t_domain (row) and t_renew_task (task).                          *)
(*                                                                         *)
(* Time is counted down, not up: a certificate is the number of ticks it   *)
(* has left (0: expired, or none), next_retry_at the number of ticks still *)
(* to wait (NoRetry: NULL), and Tick ages every copy of both together.     *)
(* A step ends where the code leaves the process: at a query or an update  *)
(* of the database, a cloud call or an order at the CA.                    *)
(***************************************************************************)
EXTENDS RetryPolicy, FiniteSets

CONSTANTS
    Domains,           \* the custom domains seen in the cloud
    Tasks,             \* slots for records of t_renew_task; one whose task has
                       \* ended is reused
    Clients,           \* concurrent CreateRenewTask requests
    Requested,         \* bound: the domains they ask for
    CertLife,          \* life of a new certificate
    RenewBefore,       \* RenewBeforeDays: renew when no more life is left
    RenewConcurrency,  \* renewConcurrency: executors the daemon runs at once
    ErrorKinds,        \* the kinds of error cloud, DNS, CA and database give
    MaxFaults,         \* bound: errors of the database
    MaxCrashes,        \* bound: restarts of the process
    TickWhenBusy,      \* bound: may time pass while executors are running?
    Interference       \* bound: what users do, of "pause", "rebind" and "insist"

ASSUME EngineAssumption ==
    /\ Domains # {}
    /\ CertLife \in Nat /\ RenewBefore \in Nat
    /\ RenewBefore < CertLife
    /\ RenewConcurrency \in Nat \ {0}
    /\ ErrorKinds \subseteq Kinds
    /\ MaxFaults \in Nat /\ MaxCrashes \in Nat
    /\ TickWhenBusy \in BOOLEAN
    /\ Requested \subseteq Domains
    /\ Interference \subseteq {"pause", "rebind", "insist"}

VARIABLES
    row,       \* row[d]: the t_domain row of d
    task,      \* task[t]: the t_renew_task record in slot t
    cloud,     \* cloud[d]: life of the certificate bound to d in the cloud
    inflight,  \* Daemon.inflight: domains an executor works on
    ex,        \* ex[e]: the executor e, a pair of a task and its starter
    dm,        \* the goroutine in Daemon.cycle
    req,       \* req[c]: the CreateRenewTask request of client c
    budget     \* how many faults and crashes have happened

vars == <<row, task, cloud, inflight, ex, dm, req, budget>>

(* A task is started by ExecuteTaskByID ("api") or by the daemon's cycle.  *)
Execs == Tasks \X {"api", "daemon"}

Active == {"pending", "running"}
Statuses == Active \cup {"success", "failed", "none"}

NotUsable == -1    \* a domain the snapshot lacks, or with an unsure target

Gone == [pc |-> "gone", retry |-> 0, cert |-> 0, kind |-> "none"]

(* The steps of executeTask between LoadOrStore and the deferred Delete.   *)
Working == {"claim", "load", "prepare", "order", "save", "recheck",
            "deploy", "finish", "close", "fail", "record"}

TaskOf(e) == e[1]
DomOf(e) == task[TaskOf(e)].dom

NoCopy == [d \in Domains |-> [managed |-> FALSE, retry |-> 0, material |-> 0]]
NoSnap == [d \in Domains |-> NotUsable]
IdleDaemon == [pc |-> "idle", todo |-> {}, snap |-> NoSnap, copy |-> NoCopy,
               busy |-> {}, queue |-> {}]
IdleReq == [pc |-> "idle", dom |-> CHOOSE d \in Domains : TRUE]

(* A client that has its answer asks again only if it insists.             *)
Answered == IF "insist" \in Interference THEN IdleReq
            ELSE [IdleReq EXCEPT !.pc = "done"]

NewRow == [managed |-> TRUE, retry |-> 0, next |-> NoRetry, kind |-> "none",
           blocked |-> FALSE, material |-> 0, notified |-> "none"]

NoTask == [dom |-> CHOOSE d \in Domains : TRUE, status |-> "none"]

Init ==
    /\ row = [d \in Domains |-> NewRow]
    /\ task = [t \in Tasks |-> NoTask]
    /\ cloud = [d \in Domains |-> 0]
    /\ inflight = {}
    /\ ex = [e \in Execs |-> Gone]
    /\ dm = IdleDaemon
    /\ req = [c \in Clients |-> IdleReq]
    /\ budget = [faults |-> 0, crashes |-> 0]

NoFault == UNCHANGED budget

Fault ==
    /\ budget.faults < MaxFaults
    /\ budget' = [budget EXCEPT !.faults = @ + 1]

-----------------------------------------------------------------------------
(* The rows of t_domain.                                                   *)

(* The update made when a renewal succeeds, and, its material apart, the   *)
(* one CreateRenewTask and SetCertificateManaged(true) make.               *)
Cleared(r) == [r EXCEPT !.retry = 0, !.next = NoRetry, !.kind = "none",
                        !.blocked = FALSE]

(* notifyDomainState: the state it leaves in notified_state.  A repeated   *)
(* reminder writes the value that is there already.                        *)
Announced(r, state) ==
    IF ShouldNotify(r.notified, RepeatInterval, state)
    THEN [r EXCEPT !.notified = state] ELSE r

(* recordFailure: the update it makes once Backoff has chosen the wait w.  *)
(* blocked_reason is only ever set here, never cleared.                    *)
FailedRow_NotBlocked(r, kind, attempts, w) ==
    [r EXCEPT !.retry = attempts, !.kind = kind, !.next = w]

FailedRow(r, kind, attempts, w) ==
    [r EXCEPT !.retry = attempts, !.kind = kind, !.next = w,
              !.blocked = IF w = NoRetry THEN TRUE ELSE r.blocked]

(* The rows recordFailure may write over r, from the caller's copy of      *)
(* RetryCount.  retry_count stops at MaxAttempts, above which no decision  *)
(* depends on it.                                                          *)
Failed(r, kind, copied) ==
    LET attempts == AtMost(copied + 1, MaxAttempts)
    IN  {FailedRow(r, kind, attempts, w) : w \in Backoff(kind, attempts)}

(* recordFailure and its notification, one step because nothing but other  *)
(* notifications reads or writes notified_state.  Either update may fail,  *)
(* which is only logged.                                                   *)
RecordFailure(d, kind, copied) ==
    \E failed \in Failed(row[d], kind, copied) :
        LET state == IF failed.next = NoRetry THEN "blocked" ELSE "failed"
        IN  \/ /\ NoFault
               /\ row' = [row EXCEPT ![d] = Announced(failed, state)]
            \/ /\ Fault
               /\ row' \in {[row EXCEPT ![d] = failed],
                           [row EXCEPT ![d] = Announced(@, state)]}

(* createRenewTasks' query: the domains whose renewal may be scheduled.    *)
Schedulable(r) == r.managed /\ ~r.blocked /\ r.next <= 0

(* An unused record: nothing in the process still holds its identifier.    *)
Free(t) ==
    /\ task[t].status \notin Active
    /\ \A w \in {"api", "daemon"} : ex[<<t, w>>].pc = "gone"
    /\ t \notin dm.queue

BusyDomains == {task[t].dom : t \in {u \in Tasks : task[u].status \in Active}}

-----------------------------------------------------------------------------
(* executeTask, step by step.                                              *)

At(e, pc) == ex[e].pc = pc
Goto(e, pc) == ex' = [ex EXCEPT ![e].pc = pc]
Fails(e, kind) ==
    ex' = [ex EXCEPT ![e] = [@ EXCEPT !.pc = "fail", !.kind = kind,
                                      !.cert = 0]]

(* The return of executeTask, with the deferred inflight.Delete.           *)
Leave_StillLocked(e) ==
    /\ ex' = [ex EXCEPT ![e] = Gone]
    /\ UNCHANGED inflight

Leave(e) ==
    /\ ex' = [ex EXCEPT ![e] = Gone]
    /\ inflight' = inflight \ {DomOf(e)}

(* ExecuteTaskByID up to executeTask: the task is read, and the ACME       *)
(* account prepared, before anything is claimed.                           *)
Lookup(e) ==
    /\ At(e, "lookup")
    /\ \/ task[TaskOf(e)].status = "pending" /\ Goto(e, "enter")
       \/ ex' = [ex EXCEPT ![e] = Gone]
    /\ NoFault /\ UNCHANGED <<row, task, cloud, inflight, dm, req>>

(* inflight.LoadOrStore: a second executor of the domain returns at once.  *)
IsInflight_Never(d) == FALSE
IsInflight(d) == d \in inflight

Enter_ClaimsFirst(e) ==
    /\ At(e, "enter")
    /\ IF IsInflight(DomOf(e))
       THEN /\ ex' = [ex EXCEPT ![e] = Gone]
            /\ task' = [task EXCEPT ![TaskOf(e)].status = "running"]
            /\ UNCHANGED inflight
       ELSE /\ Goto(e, "claim") /\ UNCHANGED task
            /\ inflight' = inflight \cup {DomOf(e)}
    /\ NoFault /\ UNCHANGED <<row, cloud, dm, req>>

Enter(e) ==
    /\ At(e, "enter")
    /\ IF IsInflight(DomOf(e))
       THEN /\ ex' = [ex EXCEPT ![e] = Gone]
            /\ UNCHANGED inflight
       ELSE /\ Goto(e, "claim")
            /\ inflight' = inflight \cup {DomOf(e)}
    /\ NoFault /\ UNCHANGED <<row, task, cloud, dm, req>>

(* The conditional update that claims the task: only a pending one, so the *)
(* executor that comes second to a task leaves it alone.                   *)
MayClaim_Always(t) == TRUE
MayClaim(t) == task[t].status = "pending"

Claim(e) ==
    /\ At(e, "claim")
    /\ \/ /\ MayClaim(TaskOf(e)) /\ NoFault
          /\ task' = [task EXCEPT ![TaskOf(e)].status = "running"]
          /\ Goto(e, "load") /\ UNCHANGED inflight
       \/ /\ ~MayClaim(TaskOf(e)) /\ NoFault
          /\ Leave(e) /\ UNCHANGED task
       \/ /\ MayClaim(TaskOf(e)) /\ Fault    \* the update, or its reply, is lost
          /\ \/ task' = [task EXCEPT ![TaskOf(e)].status = "running"]
             \/ UNCHANGED task
          /\ Leave(e)
    /\ UNCHANGED <<row, cloud, dm, req>>

(* The row is read once; the executor works with this copy from here on.   *)
Load(e) ==
    /\ At(e, "load")
    /\ \/ row[DomOf(e)].managed /\ NoFault
          /\ ex' = [ex EXCEPT ![e] = [@ EXCEPT
                !.pc = "prepare", !.retry = row[DomOf(e)].retry,
                !.cert = row[DomOf(e)].material]]
       \/ ~row[DomOf(e)].managed /\ NoFault
          /\ ex' = [ex EXCEPT ![e] = [@ EXCEPT
                !.pc = "fail", !.retry = row[DomOf(e)].retry,
                !.kind = "permanent"]]
       \/ Fault /\ Fails(e, "none")          \* no row to record a failure on
    /\ UNCHANGED <<row, task, cloud, inflight, dm, req>>

(* reusableCertificate with the renewal threshold.                         *)
Reusable_OffByOne(cert) == cert > RenewBefore + 1
Reusable(cert) == cert > RenewBefore

(* cloudstate.Resolve, preflight, and ensureCert up to the order: reuse    *)
(* the copy, or find the account that owns the zone.                       *)
Prepare(e) ==
    /\ At(e, "prepare")
    /\ \/ Reusable(ex[e].cert) /\ Goto(e, "save")
       \/ ~Reusable(ex[e].cert) /\ Goto(e, "order")
       \/ \E k \in ErrorKinds : Fails(e, k)
    /\ NoFault /\ UNCHANGED <<row, task, cloud, inflight, dm, req>>

(* ObtainCert: an order at the CA.                                         *)
Order(e) ==
    /\ At(e, "order")
    /\ \/ ex' = [ex EXCEPT ![e] = [@ EXCEPT !.pc = "save", !.cert = CertLife]]
       \/ \E k \in ErrorKinds : Fails(e, k)
    /\ NoFault /\ UNCHANGED <<row, task, cloud, inflight, dm, req>>

(* saveCertificate: no deployment before the material is stored.           *)
SavedRow_Nothing(r, cert) == r
SavedRow(r, cert) == [r EXCEPT !.material = cert]

Save(e) ==
    LET saved == [row EXCEPT ![DomOf(e)] = SavedRow(@, ex[e].cert)]
    IN  /\ At(e, "save")
        /\ \/ ex[e].cert > 0 /\ row' = saved /\ Goto(e, "recheck")
           \/ Fails(e, "transient") /\ UNCHANGED row
           \/ ex[e].cert > 0 /\ Fails(e, "transient") /\ row' = saved
        /\ NoFault /\ UNCHANGED <<task, cloud, inflight, dm, req>>

(* The checks before the write: Resolve, Managed again, preflight.         *)
Recheck(e) ==
    /\ At(e, "recheck")
    /\ \/ row[DomOf(e)].managed /\ Goto(e, "deploy")
       \/ ~row[DomOf(e)].managed /\ Fails(e, "permanent")
       \/ \E k \in ErrorKinds : Fails(e, k)
    /\ NoFault /\ UNCHANGED <<row, task, cloud, inflight, dm, req>>

(* deploy: the cloud may have taken the certificate and yet report an error. *)
Deploy(e) ==
    LET deployed == [cloud EXCEPT ![DomOf(e)] = ex[e].cert]
    IN  /\ At(e, "deploy")
        /\ \/ Goto(e, "finish") /\ cloud' = deployed
           \/ \E k \in ErrorKinds : Fails(e, k) /\ cloud' \in {cloud, deployed}
        /\ NoFault /\ UNCHANGED <<row, task, inflight, dm, req>>

(* The update of the row after a deployment; an error of it is only logged. *)
Finish(e) ==
    /\ At(e, "finish") /\ Goto(e, "close")
    /\ \/ /\ NoFault
          /\ row' = [row EXCEPT ![DomOf(e)] =
                        [Cleared(@) EXCEPT !.material = ex[e].cert]]
       \/ Fault /\ UNCHANGED row
    /\ UNCHANGED <<task, cloud, inflight, dm, req>>

(* The task ends in success and the domain is announced ok; the errors of  *)
(* both updates are ignored.                                               *)
Close(e) ==
    LET done == [task EXCEPT ![TaskOf(e)].status = "success"]
        told == [row EXCEPT ![DomOf(e)] = Announced(@, "ok")]
    IN  /\ At(e, "close")
        /\ \/ NoFault /\ task' = done /\ row' = told
           \/ Fault /\ UNCHANGED task /\ row' = told
           \/ Fault /\ task' = done /\ UNCHANGED row
        /\ Leave(e)
        /\ UNCHANGED <<cloud, dm, req>>

(* failTask up to recordFailure; the error of the update is ignored.       *)
Fail(e) ==
    /\ At(e, "fail")
    /\ \/ NoFault /\ task' = [task EXCEPT ![TaskOf(e)].status = "failed"]
       \/ Fault /\ UNCHANGED task
    /\ IF ex[e].kind = "none" THEN Leave(e)
       ELSE Goto(e, "record") /\ UNCHANGED inflight
    /\ UNCHANGED <<row, cloud, dm, req>>

(* recordFailure at the end of failTask, from the copy Load made.          *)
Record(e) ==
    /\ At(e, "record")
    /\ RecordFailure(DomOf(e), ex[e].kind, ex[e].retry)
    /\ Leave(e)
    /\ UNCHANGED <<task, cloud, dm, req>>

Execute(e) ==
    \/ Lookup(e) \/ Enter(e) \/ Claim(e) \/ Load(e) \/ Prepare(e)
    \/ Order(e) \/ Save(e) \/ Recheck(e) \/ Deploy(e)
    \/ Finish(e) \/ Close(e) \/ Fail(e) \/ Record(e)

-----------------------------------------------------------------------------
(* Daemon.cycle, step by step.                                             *)

DaemonAt(pc) == dm.pc = pc

(* cloudstate.Refresh and the first Load: what the cloud shows, with the   *)
(* domains that are missing, undeployable or of unknown certificate left   *)
(* out.  A cycle that fails here changes nothing and is not a step.        *)
Scan(usable) ==
    /\ DaemonAt("idle")
    /\ dm' = [dm EXCEPT !.pc = "load",
                        !.snap = [d \in Domains |->
                            IF d \in usable THEN cloud[d] ELSE NotUsable]]
    /\ NoFault /\ UNCHANGED <<row, task, cloud, inflight, ex, req>>

(* checkAndRedeploy reads the rows once, for the whole loop.               *)
LoadStates ==
    /\ DaemonAt("load")
    /\ \/ /\ NoFault
          /\ dm' = [dm EXCEPT !.pc = "redeploy", !.todo = Domains,
                             !.copy = [d \in Domains |->
                                [managed |-> row[d].managed, retry |-> 0,
                                 material |-> row[d].material]]]
       \/ Fault /\ dm' = [dm EXCEPT !.pc = "select"]
    /\ UNCHANGED <<row, task, cloud, inflight, ex, req>>

(* A domain whose cloud certificate has lapsed while the copy of its       *)
(* stored one is valid.                                                    *)
NeedsRedeploy(d) ==
    dm.copy[d].managed /\ dm.snap[d] = 0 /\ dm.copy[d].material > 0

(* One round of the loop: preflight and deploy, each of which may fail.    *)
Redeploy(d) ==
    /\ DaemonAt("redeploy") /\ d \in dm.todo
    /\ dm' = [dm EXCEPT !.todo = @ \ {d}]
    /\ \/ UNCHANGED cloud
       \/ /\ NeedsRedeploy(d)
          /\ cloud' = [cloud EXCEPT ![d] = dm.copy[d].material]
    /\ NoFault /\ UNCHANGED <<row, task, inflight, ex, req>>

RedeployDone ==
    /\ DaemonAt("redeploy") /\ dm.todo = {}
    /\ dm' = [dm EXCEPT !.pc = "select", !.copy = NoCopy]
    /\ NoFault /\ UNCHANGED <<row, task, cloud, inflight, ex, req>>

(* createRenewTasks' first query; a failed or an empty one ends the step.  *)
Select ==
    LET due == {d \in Domains : Schedulable(row[d])}
    IN  /\ DaemonAt("select")
        /\ \/ /\ due # {} /\ NoFault
              /\ dm' = [dm EXCEPT !.pc = "busy", !.todo = due,
                            !.copy = [d \in Domains |->
                                [managed |-> FALSE, material |-> 0,
                                 retry |-> IF d \in due THEN row[d].retry
                                           ELSE 0]]]
           \/ /\ IF due = {} THEN NoFault ELSE Fault
              /\ dm' = [dm EXCEPT !.pc = "pending", !.snap = NoSnap]
        /\ UNCHANGED <<row, task, cloud, inflight, ex, req>>

(* The second query: the domains that have a task already.                 *)
QueryBusy ==
    /\ DaemonAt("busy")
    /\ \/ NoFault /\ dm' = [dm EXCEPT !.pc = "create", !.busy = BusyDomains]
       \/ Fault /\ dm' = [dm EXCEPT !.pc = "pending", !.todo = {},
                                    !.copy = NoCopy, !.snap = NoSnap]
    /\ UNCHANGED <<row, task, cloud, inflight, ex, req>>

(* A domain of the loop that gets a task: it is seen, its certificate is   *)
(* due, and it had no task when the second query ran.                      *)
WantsTask(d) ==
    dm.snap[d] # NotUsable /\ dm.snap[d] <= RenewBefore /\ d \notin dm.busy

(* The new record.  The slots of ended ones that nobody holds any more are  *)
(* emptied with it: no step reads them.                                    *)
NewTask(t, d) ==
    [u \in Tasks |->
        IF u = t THEN [dom |-> d, status |-> "pending"]
        ELSE IF Free(u) THEN NoTask ELSE task[u]]

(* One round of the loop: skip the domain, record that its zone cannot be  *)
(* found, or create its task, which the database may refuse.               *)
Create(d) ==
    /\ DaemonAt("create") /\ d \in dm.todo
    /\ dm' = [dm EXCEPT !.todo = @ \ {d}, !.copy[d] = NoCopy[d]]
    /\ \/ ~WantsTask(d) /\ NoFault /\ UNCHANGED <<row, task>>
       \/ /\ WantsTask(d) /\ UNCHANGED task
          /\ \E k \in ErrorKinds : RecordFailure(d, k, dm.copy[d].retry)
       \/ /\ WantsTask(d) /\ NoFault /\ UNCHANGED row
          /\ \E t \in Tasks : Free(t) /\ task' = NewTask(t, d)
       \/ WantsTask(d) /\ Fault /\ UNCHANGED <<row, task>>
    /\ UNCHANGED <<cloud, inflight, ex, req>>

CreateDone ==
    /\ DaemonAt("create") /\ dm.todo = {}
    /\ dm' = [dm EXCEPT !.pc = "pending", !.busy = {}, !.copy = NoCopy,
                        !.snap = NoSnap]
    /\ NoFault /\ UNCHANGED <<row, task, cloud, inflight, ex, req>>

(* executePendingTasks' query, and the ACME account; the cycle ends when   *)
(* there is nothing to do or no account.                                   *)
QueryPending ==
    LET pending == {t \in Tasks : task[t].status = "pending"}
    IN  /\ DaemonAt("pending")
        /\ \/ pending # {}
              /\ dm' = [dm EXCEPT !.pc = "spawn", !.queue = pending]
           \/ dm' = [dm EXCEPT !.pc = "idle"]
        /\ NoFault /\ UNCHANGED <<row, task, cloud, inflight, ex, req>>

(* The semaphore of the worker pool.                                       *)
DaemonExecs == {e \in Execs : e[2] = "daemon" /\ ex[e].pc # "gone"}

Spawn(t) ==
    /\ DaemonAt("spawn") /\ t \in dm.queue
    /\ Cardinality(DaemonExecs) < RenewConcurrency
    /\ dm' = [dm EXCEPT !.queue = @ \ {t}]
    /\ ex' = [ex EXCEPT ![<<t, "daemon">>].pc = "enter"]
    /\ NoFault /\ UNCHANGED <<row, task, cloud, inflight, req>>

(* wg.Wait: the cycle ends when its executors have.                        *)
CycleDone ==
    /\ DaemonAt("spawn") /\ dm.queue = {} /\ DaemonExecs = {}
    /\ dm' = [dm EXCEPT !.pc = "idle"]
    /\ NoFault /\ UNCHANGED <<row, task, cloud, inflight, ex, req>>

Cycle ==
    \/ \E usable \in SUBSET Domains : Scan(usable)
    \/ LoadStates
    \/ \E d \in Domains : Redeploy(d) \/ Create(d)
    \/ RedeployDone \/ Select \/ QueryBusy \/ CreateDone
    \/ QueryPending \/ CycleDone
    \/ \E t \in Tasks : Spawn(t)

-----------------------------------------------------------------------------
(* The API.                                                                *)

ReqAt(c, pc) == req[c].pc = pc
ReqGoto(c, pc) == req' = [req EXCEPT ![c].pc = pc]

(* CreateRenewTask: the domain resolves in the cloud and is managed.       *)
Request(c, d) ==
    /\ ReqAt(c, "idle")
    /\ row[d].managed
    /\ req' = [req EXCEPT ![c] = [pc |-> "busy", dom |-> d]]
    /\ NoFault /\ UNCHANGED <<row, task, cloud, inflight, ex, dm>>

(* A domain with a pending or running task refuses another.                *)
CheckBusy(c) ==
    /\ ReqAt(c, "busy")
    /\ IF req[c].dom \in BusyDomains THEN req' = [req EXCEPT ![c] = Answered]
       ELSE ReqGoto(c, "reset")
    /\ NoFault /\ UNCHANGED <<row, task, cloud, inflight, ex, dm>>

(* A manual request clears the failures; an error of that is only logged.  *)
ResetRetry(c) ==
    /\ ReqAt(c, "reset") /\ ReqGoto(c, "create")
    /\ \/ NoFault /\ row' = [row EXCEPT ![req[c].dom] = Cleared(@)]
       \/ Fault /\ UNCHANGED row
    /\ UNCHANGED <<task, cloud, inflight, ex, dm>>

(* The task, and the goroutine that executes it; or the database refuses.  *)
CreateManual(c) ==
    /\ ReqAt(c, "create")
    /\ req' = [req EXCEPT ![c] = Answered]
    /\ \/ \E t \in Tasks :
            /\ Free(t)
            /\ task' = NewTask(t, req[c].dom)
            /\ ex' = [ex EXCEPT ![<<t, "api">>].pc = "lookup"]
       \/ UNCHANGED <<task, ex>>
    /\ NoFault /\ UNCHANGED <<row, cloud, inflight, dm>>

(* SetCertificateManaged: pause, or resume and clear the failures.         *)
SetManaged(d, managed) ==
    /\ "pause" \in Interference
    /\ row' = [row EXCEPT ![d] =
                  IF managed THEN [Cleared(@) EXCEPT !.managed = TRUE]
                  ELSE [@ EXCEPT !.managed = FALSE]]
    /\ NoFault /\ UNCHANGED <<task, cloud, inflight, ex, dm, req>>

Api ==
    \/ \E c \in Clients :
          \/ \E d \in Requested : Request(c, d)
          \/ CheckBusy(c) \/ ResetRetry(c) \/ CreateManual(c)
    \/ \E d \in Domains, managed \in BOOLEAN : SetManaged(d, managed)

-----------------------------------------------------------------------------
(* The environment.                                                        *)

(* The domain is bound anew in the cloud, without a certificate.           *)
Rebind(d) ==
    /\ "rebind" \in Interference
    /\ cloud' = [cloud EXCEPT ![d] = 0]
    /\ NoFault /\ UNCHANGED <<row, task, inflight, ex, dm, req>>

(* The process stops and starts again: only the two tables survive.        *)
Crash ==
    /\ budget.crashes < MaxCrashes
    /\ budget' = [budget EXCEPT !.crashes = @ + 1]
    /\ inflight' = {}
    /\ ex' = [e \in Execs |-> Gone]
    /\ dm' = IdleDaemon
    /\ req' = [c \in Clients |-> IdleReq]
    /\ UNCHANGED <<row, task, cloud>>

Aged(n) == IF n > 0 THEN n - 1 ELSE n

Tick ==
    /\ TickWhenBusy \/ \A e \in Execs : ex[e].pc = "gone"
    /\ row' = [d \in Domains |-> [row[d] EXCEPT !.next = Aged(@),
                                               !.material = Aged(@)]]
    /\ cloud' = [d \in Domains |-> Aged(cloud[d])]
    /\ ex' = [e \in Execs |-> [ex[e] EXCEPT !.cert = Aged(@)]]
    /\ dm' = [dm EXCEPT
          !.snap = [d \in Domains |-> Aged(dm.snap[d])],
          !.copy = [d \in Domains |-> [dm.copy[d] EXCEPT !.material = Aged(@)]]]
    /\ NoFault /\ UNCHANGED <<task, inflight, req>>

Environment == (\E d \in Domains : Rebind(d)) \/ Crash \/ Tick

Next == (\E e \in Execs : Execute(e)) \/ Cycle \/ Api \/ Environment

Spec == Init /\ [][Next]_vars

-----------------------------------------------------------------------------
(* Properties.                                                             *)

ExecPcs == Working \cup {"gone", "lookup", "enter"}
DaemonPcs == {"idle", "load", "redeploy", "select", "busy", "create",
              "pending", "spawn"}
RowType == [managed : BOOLEAN, retry : 0..MaxAttempts, next : Nat \cup {NoRetry},
            kind : Kinds \cup {"none"}, blocked : BOOLEAN,
            material : Nat, notified : NotifiedStates]

TaskType == [dom : Domains, status : Statuses]
ExecType == [pc : ExecPcs, retry : 0..MaxAttempts, cert : Nat,
             kind : Kinds \cup {"none"}]
CopyType == [managed : BOOLEAN, retry : 0..MaxAttempts, material : Nat]
DaemonType == [pc : DaemonPcs, todo : SUBSET Domains,
               snap : [Domains -> Nat \cup {NotUsable}],
               copy : [Domains -> CopyType],
               busy : SUBSET Domains, queue : SUBSET Tasks]
ReqType == [pc : {"idle", "busy", "reset", "create", "done"}, dom : Domains]

TypeOK ==
    /\ row \in [Domains -> RowType]
    /\ task \in [Tasks -> TaskType]
    /\ cloud \in [Domains -> Nat]
    /\ inflight \in SUBSET Domains
    /\ ex \in [Execs -> ExecType]
    /\ dm \in DaemonType
    /\ req \in [Clients -> ReqType]
    /\ budget \in [faults : 0..MaxFaults, crashes : 0..MaxCrashes]

(* At most one executor works on a domain, and inflight holds exactly the  *)
(* domains somebody works on: the LoadOrStore and the deferred Delete of   *)
(* executeTask make issuing exclusive between API and daemon, and no       *)
(* return, early or late, leaves a domain locked.                          *)
OneExecutorPerDomain ==
    /\ \A e, f \in Execs :
          ex[e].pc \in Working /\ ex[f].pc \in Working /\ DomOf(e) = DomOf(f)
          => e = f
    /\ inflight = {DomOf(e) : e \in {f \in Execs : ex[f].pc \in Working}}

(* An order is in progress only while the stored certificate is due: no    *)
(* interleaving of executors, retries and restarts spends an order of the  *)
(* CA's quota on a domain whose material could have been deployed again.   *)
NoWastedOrder ==
    \A e \in Execs : At(e, "order") => row[DomOf(e)].material <= RenewBefore

(* What is about to be written to the cloud, or has just been, is the      *)
(* certificate in the row: no other writer of the row replaces it between  *)
(* saveCertificate and the end of the deployment, so that a deployment     *)
(* that fails or is cut by a crash can be repeated from the database.      *)
DeployedIsStored ==
    \A e \in Execs :
        ex[e].pc \in {"recheck", "deploy", "finish"}
        => row[DomOf(e)].material = ex[e].cert

(* A domain with failures on record is either waiting for its next attempt *)
(* or blocked, a permanent error always blocks, and a domain without       *)
(* failures is neither: whatever the order in which executors, the daemon  *)
(* and the API wrote the row, no domain drops out of the schedule silently *)
(* and no reset leaves half of a failure behind.                           *)
FailureIsScheduledOrBlocked ==
    \A d \in Domains :
        /\ row[d].retry = 0 <=> row[d].kind = "none"
        /\ row[d].retry = 0 => row[d].next = NoRetry /\ ~row[d].blocked
        /\ row[d].retry > 0 => row[d].next # NoRetry \/ row[d].blocked
        /\ row[d].kind = "permanent" => row[d].blocked

(* A task is claimed once and ends once: pending, running, then success or *)
(* failed; a finished record never changes again until its slot is emptied *)
(* or reused by a new pending one.                                         *)
StatusMoves(old, new) ==
    \/ new = old
    \/ old = "pending" /\ new = "running"
    \/ old = "running" /\ new \in {"success", "failed"}
    \/ old \notin Active /\ new \in {"pending", "none"}

TaskStep == \A t \in Tasks : StatusMoves(task[t].status, task'[t].status)

TaskEndsOnce == [][TaskStep]_vars

(* Liveness, for the instances whose environment neither crashes nor loses *)
(* updates.  The goroutines are scheduled and the ticker fires: every step *)
(* of an executor and of the cycle is eventually taken.  The observation   *)
(* of the cloud, and the preparation of the ACME account, do not fail for  *)
(* ever.  Nothing is assumed of time, of orders and deployments, which may *)
(* always fail, nor of the users of the API.                               *)
CycleGoesOn ==
    \/ \E d \in Domains : Redeploy(d) \/ Create(d)
    \/ \E t \in Tasks : Spawn(t)
    \/ LoadStates \/ RedeployDone \/ Select \/ QueryBusy \/ CreateDone
    \/ QueryPending \/ CycleDone \/ Scan(Domains)

Fairness ==
    /\ WF_vars(CycleGoesOn)
    /\ SF_vars(Scan(Domains))
    /\ SF_vars(QueryPending /\ dm'.pc = "spawn")
    /\ \A e \in Execs : WF_vars(Execute(e))

FairSpec == Spec /\ Fairness

(* An open task is eventually closed: whatever becomes of the goroutine    *)
(* that was to run it (ExecuteTaskByID without an ACME account, a domain   *)
(* another executor has in flight, a second open task of the domain, a     *)
(* full pool), a later cycle takes it up, and who claims it ends it.       *)
TasksEnd ==
    \A t \in Tasks : task[t].status \in Active ~> task[t].status \notin Active

(* The daemon may renew the domain and its certificate is due.             *)
Due(d) == Schedulable(row[d]) /\ cloud[d] <= RenewBefore

(* No domain stays due for ever: it is renewed, or its failure is recorded *)
(* and delays or blocks it, or a user pauses it.  Neither a stale snapshot,*)
(* nor a scan that misses it, nor an open task, nor another domain in the  *)
(* pool keeps it from being attempted.                                     *)
DueIsAttempted == \A d \in Domains : []<>~Due(d)

-----------------------------------------------------------------------------
(* The inductive invariant.                                                *)

(* The executors that have claimed their task and not ended it.            *)
Claimed == {"load", "prepare", "order", "save", "recheck", "deploy",
            "finish", "close", "fail"}

(* Who is past the claim of its task finds it running until it ends it.    *)
ClaimedIsRunning ==
    \A e \in Execs :
        ex[e].pc \in Claimed => task[TaskOf(e)].status = "running"

(* The executor's copy of the material is what the row holds, and an order *)
(* follows only a copy that is due.                                        *)
CopyIsStored ==
    \A e \in Execs :
        /\ ex[e].pc \in {"prepare", "order", "recheck", "deploy", "finish"}
           => row[DomOf(e)].material = ex[e].cert
        /\ ex[e].pc = "order" => ex[e].cert <= RenewBefore

(* What is about to be saved is the copy that was reused, or a new         *)
(* certificate that outlasts the one it replaces, which is due.            *)
SaveIsRenewal ==
    \A e \in Execs :
        LET old == row[DomOf(e)].material
        IN  At(e, "save")
            => \/ ex[e].cert = old
               \/ /\ old <= RenewBefore
                  /\ old < ex[e].cert /\ ex[e].cert <= CertLife

(* failTask records an error of some kind.                                 *)
RecordsAKind == \A e \in Execs : ex[e].pc = "record" => ex[e].kind \in Kinds

(* The daemon's executors run only while the cycle waits for them, and a   *)
(* task it has yet to start has none.                                      *)
DaemonPool ==
    \A t \in Tasks :
        /\ dm.pc # "spawn" => t \notin dm.queue /\ ex[<<t, "daemon">>].pc = "gone"
        /\ t \in dm.queue => ex[<<t, "daemon">>].pc = "gone"

(* Everything the proofs need at once: no two executors share a domain,    *)
(* whoever holds one has claimed its task and works on the stored          *)
(* material, and the rows are consistent.                                  *)
RenewalInv ==
    /\ TypeOK
    /\ DaemonPool
    /\ OneExecutorPerDomain
    /\ RecordsAKind
    /\ FailureIsScheduledOrBlocked
    /\ ClaimedIsRunning
    /\ CopyIsStored
    /\ SaveIsRenewal

-----------------------------------------------------------------------------
(* The promise about certificates.                                         *)

(* What the daemon read of a row and has yet to look at in its loop.       *)
Unread(d) ==
    IF dm.pc = "redeploy" /\ d \in dm.todo THEN dm.copy[d].material ELSE 0

Custody == INSTANCE CertificateCustody WITH
    held <- inflight,
    stored <- [d \in Domains |-> row[d].material],
    bound <- cloud,
    spare <- [d \in Domains |-> Unread(d)]

(* A stored certificate is replaced only under the lock of its domain,     *)
(* when it is due, and by one that lasts longer; the cloud is given what   *)
(* the row holds or, once per loop and domain, what checkAndRedeploy read: *)
(* no interleaving of executors, daemon, users and restarts does more.     *)
ImplementsCustody == Custody!Spec

-----------------------------------------------------------------------------
(* What the documentation says and the code does not do.                   *)

(* entschema/renew_task.go:37: a running task is being executed.           *)
RunningIsExecuted ==
    \A t \in Tasks :
        task[t].status = "running"
        => \E e \in Execs : TaskOf(e) = t /\ ex[e].pc \in Working

(* daemon.go:229: a domain does not get a second task while one is open.   *)
OneActiveTaskPerDomain ==
    \A t, u \in Tasks :
        task[t].status \in Active /\ task[u].status \in Active
        /\ task[t].dom = task[u].dom => t = u

(* entschema/domain.go:51: retry_count counts consecutive failures: it     *)
(* grows by one or restarts.                                               *)
FailuresAreConsecutive ==
    [][\A d \in Domains : row'[d].retry \in {0, row[d].retry, row[d].retry + 1}]_vars

(* entschema/domain.go:56: before next_retry_at no task is created, other  *)
(* than by a user.                                                         *)
NoTaskBeforeRetry ==
    [][\A d \in Domains : Create(d) /\ task' # task => row[d].next <= 0]_vars

(* daemon.go:640: an error that may be retried is scheduled, only one that *)
(* is exhausted or hopeless writes blocked_reason.                         *)
OnlyExhaustedIsBlocked ==
    \A d \in Domains : row[d].blocked => Exhausted(row[d].kind, row[d].retry)

=============================================================================
