---------------------------- MODULE RenewalProofs ----------------------------
(***************************************************************************)
(* The safety properties of Renewal hold for any number of domains, tasks  *)
(* and clients, any policy and any bounds, and it implements the promise   *)
(* CertificateCustody.                                                     *)
(*                                                                         *)
(* None of them is inductive alone.  That an executor is alone with its    *)
(* domain rests on the daemon spawning a task at most once per cycle       *)
(* (DaemonPool); that an order is never wasted rests on the executor's     *)
(* copy of the material still being what the row holds (CopyIsStored),     *)
(* which in turn rests on mutual exclusion; that a task ends once rests on *)
(* whoever is past its claim finding it running (ClaimedIsRunning); that a *)
(* certificate is replaced only by a longer one, when due, rests on what   *)
(* the executor saves still being a renewal of the row (SaveIsRenewal).    *)
(***************************************************************************)
EXTENDS Renewal, TLAPS

USE PolicyAssumption, EngineAssumption

(* A row on which the failures are consistent.                             *)
Consistent(r) ==
    /\ r.retry = 0 <=> r.kind = "none"
    /\ r.retry = 0 => r.next = NoRetry /\ ~r.blocked
    /\ r.retry > 0 => r.next # NoRetry \/ r.blocked
    /\ r.kind = "permanent" => r.blocked

BudgetType == [faults : 0..MaxFaults, crashes : 0..MaxCrashes]

-----------------------------------------------------------------------------
(* The operators.                                                          *)

(* Backoff gives a wait, or none exactly when Exhausted says so.           *)
LEMMA BackoffType ==
    ASSUME NEW kind \in Kinds, NEW n \in Nat, n # 0, NEW w \in Backoff(kind, n)
    PROVE  /\ w \in Nat \cup {NoRetry}
           /\ w = NoRetry <=> Exhausted(kind, n)
<1>1. CASE Exhausted(kind, n)
  BY <1>1 DEF Backoff, Exhausted, NoRetry
<1>2. CASE ~Exhausted(kind, n)
  <2>1. PICK d \in Nat : w \in WithJitter(d)
    <3>1. NominalDelay(n) \in Nat
      BY DEF NominalDelay
    <3> QED BY <1>2, <3>1 DEF Backoff, Exhausted, Kinds
  <2>2. w \in Nat
    BY <2>1 DEF WithJitter
  <2> QED BY <1>2, <2>2 DEF NoRetry
<1> QED BY <1>1, <1>2

(* recordFailure writes a row that is scheduled, or blocked, as its kind   *)
(* and its attempts demand, and leaves the material and the intent alone.  *)
LEMMA FailedRows ==
    ASSUME NEW r \in RowType, NEW kind \in Kinds, NEW n \in 0..MaxAttempts,
           NEW f \in Failed(r, kind, n)
    PROVE  /\ f \in RowType
           /\ f.retry > 0 /\ f.kind = kind
           /\ f.next = NoRetry => f.blocked
           /\ kind = "permanent" => f.blocked
           /\ f.material = r.material
<1> DEFINE attempts == AtMost(n + 1, MaxAttempts)
<1>1. attempts \in 1..MaxAttempts
  BY DEF AtMost
<1> HIDE DEF attempts
<1>2. PICK w \in Backoff(kind, attempts) : f = FailedRow(r, kind, attempts, w)
  BY DEF Failed, attempts
<1>3. w \in Nat \cup {NoRetry} /\ (w = NoRetry <=> Exhausted(kind, attempts))
  <2>1. attempts \in Nat /\ attempts # 0
    BY <1>1
  <2> QED BY <1>2, <2>1, BackoffType
<1>4. /\ r.managed \in BOOLEAN /\ r.blocked \in BOOLEAN
      /\ r.material \in Nat /\ r.notified \in NotifiedStates
  BY DEF RowType
<1>5. attempts \in 0..MaxAttempts /\ attempts > 0
  BY <1>1
<1> DEFINE blocked == IF w = NoRetry THEN TRUE ELSE r.blocked
<1>6. blocked \in BOOLEAN
  BY <1>4
<1>7. f = [r EXCEPT !.retry = attempts, !.kind = kind, !.next = w,
                    !.blocked = blocked]
  BY <1>2 DEF FailedRow
<1> HIDE DEF blocked
<1>8. f \in RowType
  BY <1>3, <1>5, <1>6, <1>7 DEF RowType
<1>9. /\ f.retry = attempts /\ f.kind = kind /\ f.next = w
      /\ f.blocked = blocked /\ f.material = r.material
  BY <1>7 DEF RowType
<1> QED BY <1>3, <1>5, <1>8, <1>9 DEF blocked, Exhausted

(* A reset clears the failures and nothing else.                           *)
LEMMA ClearedRow ==
    ASSUME NEW r \in RowType
    PROVE  /\ Cleared(r) \in RowType
           /\ Cleared(r).retry = 0 /\ Cleared(r).next = NoRetry
           /\ Cleared(r).kind = "none" /\ ~Cleared(r).blocked
           /\ Cleared(r).material = r.material
<1>1. 0 \in 0..MaxAttempts /\ NoRetry \in Nat \cup {NoRetry} /\ "none" \in Kinds \cup {"none"}
  OBVIOUS
<1>2. Cleared(r) \in RowType
  BY <1>1 DEF Cleared, RowType
<1> QED BY <1>2 DEF Cleared, RowType

(* A notification touches the notified state only.                         *)
LEMMA AnnouncedRow ==
    ASSUME NEW r \in RowType, NEW state \in AlertStates
    PROVE  /\ Announced(r, state) \in RowType
           /\ Announced(r, state).retry = r.retry
           /\ Announced(r, state).next = r.next
           /\ Announced(r, state).kind = r.kind
           /\ Announced(r, state).blocked = r.blocked
           /\ Announced(r, state).material = r.material
  BY DEF Announced, RowType, NotifiedStates

(* A write to one row of t_domain leaves the others as they were.          *)
LEMMA RowUpdate ==
    ASSUME TypeOK, NEW d \in Domains, NEW x \in RowType,
           row' = [row EXCEPT ![d] = x]
    PROVE  /\ row' \in [Domains -> RowType]
           /\ row'[d] = x
           /\ \A c \in Domains : c # d => row'[c] = row[c]
  BY DEF TypeOK

(* The row a failure leaves, saved or not, and the others untouched.       *)
LEMMA RecordedRow ==
    ASSUME TypeOK, NEW d \in Domains, NEW kind \in Kinds,
           NEW n \in 0..MaxAttempts, RecordFailure(d, kind, n)
    PROVE  /\ row' \in [Domains -> RowType]
           /\ \A c \in Domains : c # d => row'[c] = row[c]
           /\ row'[d].material = row[d].material
           /\ Consistent(row[d]) => Consistent(row'[d])
           /\ budget' \in BudgetType
<1>1. PICK f \in Failed(row[d], kind, n), state \in AlertStates :
        \/ NoFault /\ row' = [row EXCEPT ![d] = Announced(f, state)]
        \/ Fault /\ row' \in {[row EXCEPT ![d] = f],
                             [row EXCEPT ![d] = Announced(row[d], state)]}
  BY DEF RecordFailure, AlertStates
<1>2. row[d] \in RowType
  BY DEF TypeOK
<1>3. f \in RowType
  BY <1>1, <1>2, FailedRows
<1>4. budget' \in BudgetType
  BY <1>1 DEF NoFault, Fault, TypeOK, BudgetType
<1>5. CASE row' = [row EXCEPT ![d] = Announced(f, state)]
  <2>1. row'[d] = Announced(f, state)
    BY <1>5 DEF TypeOK
  <2>2. row' \in [Domains -> RowType]
    BY <1>3, <1>5, AnnouncedRow DEF TypeOK
  <2>3. \A c \in Domains : c # d => row'[c] = row[c]
    BY <1>5 DEF TypeOK
  <2>4. Consistent(f)
    BY <1>1, <1>2, <1>3, FailedRows DEF Consistent, RowType, Kinds
  <2>5. Consistent(row'[d])
    BY <1>3, <2>1, <2>4, AnnouncedRow DEF Consistent
  <2>6. row'[d].material = row[d].material
    BY <1>1, <1>2, <1>3, <2>1, FailedRows, AnnouncedRow
  <2> QED BY <1>4, <2>2, <2>3, <2>5, <2>6
<1>6. CASE row' = [row EXCEPT ![d] = Announced(row[d], state)]
  <2>1. row'[d] = Announced(row[d], state)
    BY <1>6 DEF TypeOK
  <2>2. row' \in [Domains -> RowType]
    BY <1>2, <1>6, AnnouncedRow DEF TypeOK
  <2>3. \A c \in Domains : c # d => row'[c] = row[c]
    BY <1>6 DEF TypeOK
  <2>4. Consistent(row[d]) => Consistent(row'[d])
    BY <1>2, <2>1, AnnouncedRow DEF Consistent
  <2> QED BY <1>2, <1>4, <2>1, <2>2, <2>3, <2>4, AnnouncedRow
<1>7. CASE row' = [row EXCEPT ![d] = f]
  <2>1. /\ row' \in [Domains -> RowType] /\ row'[d] = f
        /\ \A c \in Domains : c # d => row'[c] = row[c]
    BY <1>3, <1>7, RowUpdate
  <2>2. Consistent(f)
    BY <1>1, <1>2, <1>3, FailedRows DEF Consistent, RowType, Kinds
  <2>3. f.material = row[d].material
    BY <1>1, <1>2, FailedRows
  <2> QED BY <1>4, <2>1, <2>2, <2>3
<1> QED BY <1>1, <1>5, <1>6, <1>7

-----------------------------------------------------------------------------
(* What one step of an executor may touch.                                 *)

(* Its own record, task and row, the last two only while it holds the      *)
(* domain; an executor that is gone takes no step.                         *)
Frames(e) ==
    /\ ex[e].pc # "gone"
    /\ \A f \in Execs : f # e => ex'[f] = ex[f]
    /\ \A t \in Tasks : t # TaskOf(e) => task'[t] = task[t]
    /\ task'[TaskOf(e)].dom = DomOf(e)
    /\ \A d \in Domains : d # DomOf(e) => row'[d] = row[d]
    /\ ex[e].pc \notin Working => task' = task /\ row' = row
    /\ dm' = dm /\ req' = req

(* How its holding the domain and inflight move together.                  *)
Moves(e) ==
    \/ /\ ex[e].pc \in Working <=> ex'[e].pc \in Working
       /\ inflight' = inflight
    \/ /\ ex[e].pc \notin Working /\ ex'[e].pc \in Working
       /\ DomOf(e) \notin inflight
       /\ inflight' = inflight \cup {DomOf(e)}
    \/ /\ ex[e].pc \in Working /\ ex'[e].pc \notin Working
       /\ inflight' = inflight \ {DomOf(e)}

(* What SaveIsRenewal says of one executor.                                *)
Renews(old, cert) ==
    cert = old \/ (old <= RenewBefore /\ old < cert /\ cert <= CertLife)

(* What it knows of its task, of the material and of its error.            *)
Knows(e) ==
    /\ ex'[e].pc \in Claimed => task'[TaskOf(e)].status = "running"
    /\ ex'[e].pc \in {"prepare", "order", "recheck", "deploy", "finish"}
       => row'[DomOf(e)].material = ex'[e].cert
    /\ ex'[e].pc = "order" => ex'[e].cert <= RenewBefore
    /\ ex'[e].pc = "save" => Renews(row'[DomOf(e)].material, ex'[e].cert)
    /\ ex'[e].pc = "record" => ex'[e].kind \in Kinds

(* A step with or without a fault stays within the bounds.                 *)
LEMMA BudgetKept ==
    ASSUME TypeOK, NoFault \/ Fault
    PROVE  budget' \in BudgetType
  BY DEF TypeOK, NoFault, Fault, BudgetType

(* An executor's own step replaces its record and no other.                *)
LEMMA ExecUpdate ==
    ASSUME TypeOK, NEW e \in Execs, NEW x \in ExecType,
           ex' = [ex EXCEPT ![e] = x]
    PROVE  /\ ex' \in [Execs -> ExecType]
           /\ ex'[e] = x
           /\ \A f \in Execs : f # e => ex'[f] = ex[f]
  BY DEF TypeOK

(* An executor that only moves on keeps its copy and its error.            *)
LEMMA GotoStep ==
    ASSUME TypeOK, NEW e \in Execs, NEW pc \in ExecPcs, Goto(e, pc)
    PROVE  /\ ex' \in [Execs -> ExecType]
           /\ ex'[e].pc = pc /\ ex'[e].cert = ex[e].cert
           /\ ex'[e].kind = ex[e].kind
           /\ \A f \in Execs : f # e => ex'[f] = ex[f]
<1> DEFINE x == [ex[e] EXCEPT !.pc = pc]
<1>1. ex[e] \in ExecType
  BY DEF TypeOK
<1>2. x \in ExecType /\ x.pc = pc /\ x.cert = ex[e].cert /\ x.kind = ex[e].kind
  BY <1>1 DEF ExecType
<1>3. ex' = [ex EXCEPT ![e] = x]
  BY DEF Goto
<1> HIDE DEF x
<1> QED BY <1>2, <1>3, ExecUpdate

(* An executor that fails goes to failTask, whatever it did before.        *)
LEMMA FailsStep ==
    ASSUME TypeOK, NEW e \in Execs, NEW kind \in Kinds \cup {"none"},
           Fails(e, kind)
    PROVE  /\ ex' \in [Execs -> ExecType]
           /\ ex'[e].pc = "fail"
           /\ \A f \in Execs : f # e => ex'[f] = ex[f]
<1> DEFINE x == [ex[e] EXCEPT !.pc = "fail", !.kind = kind, !.cert = 0]
<1>1. ex[e] \in ExecType
  BY DEF TypeOK
<1>2. x \in ExecType /\ x.pc = "fail"
  BY <1>1 DEF ExecType, ExecPcs, Working
<1>3. ex' = [ex EXCEPT ![e] = x]
  BY DEF Fails
<1> HIDE DEF x
<1> QED BY <1>2, <1>3, ExecUpdate

(* The return of executeTask.                                              *)
LEMMA GoneStep ==
    ASSUME TypeOK, NEW e \in Execs, ex' = [ex EXCEPT ![e] = Gone]
    PROVE  /\ ex' \in [Execs -> ExecType]
           /\ ex'[e].pc = "gone"
           /\ \A f \in Execs : f # e => ex'[f] = ex[f]
<1>1. Gone \in ExecType /\ Gone.pc = "gone"
  BY DEF Gone, ExecType, ExecPcs
<1> QED BY <1>1, ExecUpdate

(* A write of one task's status keeps its domain and the other tasks.      *)
LEMMA StatusStep ==
    ASSUME TypeOK, NEW u \in Tasks, NEW s \in Statuses,
           task' = [task EXCEPT ![u].status = s]
    PROVE  /\ task' \in [Tasks -> TaskType]
           /\ task'[u].status = s /\ task'[u].dom = task[u].dom
           /\ \A t \in Tasks : t # u => task'[t] = task[t]
  BY DEF TypeOK, TaskType

(* What the identifier of an executor stands for.                          *)
LEMMA ExecIds ==
    ASSUME TypeOK, NEW e \in Execs
    PROVE  /\ TaskOf(e) \in Tasks /\ DomOf(e) \in Domains
           /\ DomOf(e) = task[TaskOf(e)].dom
           /\ row[DomOf(e)] \in RowType /\ ex[e] \in ExecType
  BY DEF TypeOK, DomOf, TaskOf, TaskType, Execs

(* A new record leaves those alone that anybody works with.                *)
LEMMA NewTaskEffect ==
    ASSUME TypeOK, NEW t \in Tasks, NEW d \in Domains, Free(t), task' = NewTask(t, d)
    PROVE  /\ task' \in [Tasks -> TaskType]
           /\ \A e \in Execs : ex[e].pc \in Working
                => task'[TaskOf(e)] = task[TaskOf(e)]
<1>1. NoTask \in TaskType /\ [dom |-> d, status |-> "pending"] \in TaskType
  <2>1. (CHOOSE x \in Domains : TRUE) \in Domains
    OBVIOUS
  <2> QED BY <2>1 DEF NoTask, TaskType, Statuses, Active
<1>2. task' \in [Tasks -> TaskType]
  BY <1>1 DEF NewTask, TypeOK
<1>3. ASSUME NEW e \in Execs, ex[e].pc \in Working
      PROVE  task'[TaskOf(e)] = task[TaskOf(e)]
  <2>1. TaskOf(e) \in Tasks
    BY ExecIds
  <2>2. ~Free(TaskOf(e))
    BY <1>3 DEF Free, Execs, TaskOf, Working
  <2> QED BY <2>1, <2>2 DEF NewTask
<1> QED BY <1>2, <1>3

-----------------------------------------------------------------------------
(* The steps of executeTask.                                               *)

Good(e) ==
    /\ row' \in [Domains -> RowType]
    /\ task' \in [Tasks -> TaskType]
    /\ cloud' \in [Domains -> Nat]
    /\ ex' \in [Execs -> ExecType]
    /\ budget' \in BudgetType
    /\ Frames(e) /\ Moves(e) /\ Knows(e)
    /\ Consistent(row'[DomOf(e)])

(* What the invariant says of the executor that steps.                     *)
LEMMA Before ==
    ASSUME RenewalInv, NEW e \in Execs
    PROVE  /\ TypeOK
           /\ TaskOf(e) \in Tasks /\ DomOf(e) \in Domains
           /\ DomOf(e) = task[TaskOf(e)].dom
           /\ row[DomOf(e)] \in RowType /\ ex[e] \in ExecType
           /\ Consistent(row[DomOf(e)])
           /\ ex[e].pc \in Claimed => task[TaskOf(e)].status = "running"
           /\ ex[e].pc \in {"prepare", "order", "recheck", "deploy", "finish"}
              => row[DomOf(e)].material = ex[e].cert
           /\ ex[e].pc = "order" => ex[e].cert <= RenewBefore
           /\ ex[e].pc = "save" => Renews(row[DomOf(e)].material, ex[e].cert)
           /\ ex[e].pc = "record" => ex[e].kind \in Kinds
           /\ ex[e].pc \in Working => DomOf(e) \in inflight
<1>1. TypeOK
  BY DEF RenewalInv
<1>2. Consistent(row[DomOf(e)])
  BY <1>1, ExecIds DEF RenewalInv, FailureIsScheduledOrBlocked, Consistent
<1>3. ex[e].pc \in Working => DomOf(e) \in inflight
  BY DEF RenewalInv, OneExecutorPerDomain
<1>4. ex[e].pc = "save" => Renews(row[DomOf(e)].material, ex[e].cert)
  BY DEF RenewalInv, SaveIsRenewal, Renews, At
<1> QED BY <1>1, <1>2, <1>3, <1>4, ExecIds
        DEF RenewalInv, ClaimedIsRunning, CopyIsStored, RecordsAKind

(* ExecuteTaskByID, up to executeTask, touches no table.                   *)
LEMMA LookupStep ==
    ASSUME RenewalInv, NEW e \in Execs, Lookup(e)
    PROVE  Good(e)
<1> USE Before
<1>0. /\ ex[e].pc = "lookup" /\ NoFault
      /\ UNCHANGED <<row, task, cloud, inflight, dm, req>>
  BY DEF Lookup, At
<1>1. CASE Goto(e, "enter")
  <2>1. "enter" \in ExecPcs
    BY DEF ExecPcs
  <2>2. /\ ex' \in [Execs -> ExecType] /\ ex'[e].pc = "enter"
        /\ \A f \in Execs : f # e => ex'[f] = ex[f]
    BY <1>1, <2>1, GotoStep
  <2>3. Frames(e) /\ Moves(e) /\ Knows(e)
    BY <1>0, <2>2 DEF Frames, Moves, Knows, Working, Claimed
  <2> QED BY <1>0, <2>2, <2>3, BudgetKept DEF Good, TypeOK
<1>2. CASE ex' = [ex EXCEPT ![e] = Gone]
  <2>1. /\ ex' \in [Execs -> ExecType] /\ ex'[e].pc = "gone"
        /\ \A f \in Execs : f # e => ex'[f] = ex[f]
    BY <1>2, GoneStep
  <2>2. Frames(e) /\ Moves(e) /\ Knows(e)
    BY <1>0, <2>1 DEF Frames, Moves, Knows, Working, Claimed
  <2> QED BY <1>0, <2>1, <2>2, BudgetKept DEF Good, TypeOK
<1> QED BY <1>1, <1>2 DEF Lookup

(* LoadOrStore: an executor gets a domain nobody holds, or returns.        *)
LEMMA EnterStep ==
    ASSUME RenewalInv, NEW e \in Execs, Enter(e)
    PROVE  Good(e)
<1> USE Before
<1>0. /\ ex[e].pc = "enter" /\ NoFault
      /\ UNCHANGED <<row, task, cloud, dm, req>>
  BY DEF Enter, At
<1>1. CASE ~IsInflight(DomOf(e))
  <2>1. "claim" \in ExecPcs /\ Goto(e, "claim")
    BY <1>1 DEF ExecPcs, Working, Enter
  <2>2. /\ ex' \in [Execs -> ExecType] /\ ex'[e].pc = "claim"
        /\ \A f \in Execs : f # e => ex'[f] = ex[f]
    BY <2>1, GotoStep
  <2>3. DomOf(e) \notin inflight /\ inflight' = inflight \cup {DomOf(e)}
    BY <1>1 DEF Enter, IsInflight
  <2>4. Frames(e) /\ Moves(e) /\ Knows(e)
    BY <1>0, <2>2, <2>3 DEF Frames, Moves, Knows, Working, Claimed
  <2> QED BY <1>0, <2>2, <2>4, BudgetKept DEF Good, TypeOK
<1>2. CASE IsInflight(DomOf(e))
  <2>1. ex' = [ex EXCEPT ![e] = Gone] /\ inflight' = inflight
    BY <1>2 DEF Enter
  <2>2. /\ ex' \in [Execs -> ExecType] /\ ex'[e].pc = "gone"
        /\ \A f \in Execs : f # e => ex'[f] = ex[f]
    BY <2>1, GoneStep
  <2>3. Frames(e) /\ Moves(e) /\ Knows(e)
    BY <1>0, <2>1, <2>2 DEF Frames, Moves, Knows, Working, Claimed
  <2> QED BY <1>0, <2>2, <2>3, BudgetKept DEF Good, TypeOK
<1> QED BY <1>1, <1>2

(* The claim, granted, refused or lost; whoever goes on finds it running.  *)
LEMMA ClaimStep ==
    ASSUME RenewalInv, NEW e \in Execs, Claim(e)
    PROVE  Good(e)
<1> USE Before
<1>0. ex[e].pc = "claim" /\ UNCHANGED <<row, cloud, dm, req>>
  BY DEF Claim, At
<1>1. budget' \in BudgetType
  BY BudgetKept DEF Claim
<1>2. CASE /\ task' = [task EXCEPT ![TaskOf(e)].status = "running"]
           /\ Goto(e, "load") /\ inflight' = inflight
  <2>1. "load" \in ExecPcs /\ "running" \in Statuses
    BY DEF ExecPcs, Working, Statuses, Active
  <2>2. /\ ex' \in [Execs -> ExecType] /\ ex'[e].pc = "load"
        /\ \A f \in Execs : f # e => ex'[f] = ex[f]
    BY <1>2, <2>1, GotoStep
  <2>3. /\ task' \in [Tasks -> TaskType]
        /\ task'[TaskOf(e)].status = "running"
        /\ task'[TaskOf(e)].dom = task[TaskOf(e)].dom
        /\ \A t \in Tasks : t # TaskOf(e) => task'[t] = task[t]
    BY <1>2, <2>1, StatusStep
  <2>4. Frames(e) /\ Moves(e) /\ Knows(e)
    BY <1>0, <1>2, <2>2, <2>3 DEF Frames, Moves, Knows, Working, Claimed
  <2> QED BY <1>0, <1>1, <2>2, <2>3, <2>4 DEF Good, TypeOK
<1>3. CASE /\ \/ task' = [task EXCEPT ![TaskOf(e)].status = "running"]
              \/ task' = task
           /\ Leave(e)
  <2>1. "running" \in Statuses
    BY DEF Statuses, Active
  <2>2. /\ ex' \in [Execs -> ExecType] /\ ex'[e].pc = "gone"
        /\ \A f \in Execs : f # e => ex'[f] = ex[f]
        /\ inflight' = inflight \ {DomOf(e)}
    BY <1>3, GoneStep DEF Leave
  <2>3. /\ task' \in [Tasks -> TaskType]
        /\ task'[TaskOf(e)].dom = task[TaskOf(e)].dom
        /\ \A t \in Tasks : t # TaskOf(e) => task'[t] = task[t]
    BY <1>3, <2>1, StatusStep DEF TypeOK
  <2>4. Frames(e) /\ Moves(e) /\ Knows(e)
    BY <1>0, <2>2, <2>3 DEF Frames, Moves, Knows, Working, Claimed
  <2> QED BY <1>0, <1>1, <2>2, <2>3, <2>4 DEF Good, TypeOK
<1> QED BY <1>2, <1>3 DEF Claim

(* The copy of the row is the row; a paused domain fails the task.         *)
LEMMA LoadStep ==
    ASSUME RenewalInv, NEW e \in Execs, Load(e)
    PROVE  Good(e)
<1> USE Before
<1>0. ex[e].pc = "load" /\ UNCHANGED <<row, task, cloud, inflight, dm, req>>
  BY DEF Load, At
<1>1. budget' \in BudgetType
  BY BudgetKept DEF Load
<1>2. row[DomOf(e)].retry \in 0..MaxAttempts /\ row[DomOf(e)].material \in Nat
  BY DEF RowType
<1>3. CASE ex' = [ex EXCEPT ![e] = [@ EXCEPT
                !.pc = "prepare", !.retry = row[DomOf(e)].retry,
                !.cert = row[DomOf(e)].material]]
  <2> DEFINE x == [ex[e] EXCEPT !.pc = "prepare", !.retry = row[DomOf(e)].retry,
                                !.cert = row[DomOf(e)].material]
  <2>1. x \in ExecType /\ x.pc = "prepare" /\ x.cert = row[DomOf(e)].material
    BY <1>2 DEF ExecType, ExecPcs, Working
  <2>2. ex' = [ex EXCEPT ![e] = x]
    BY <1>3
  <2> HIDE DEF x
  <2>3. /\ ex' \in [Execs -> ExecType] /\ ex'[e] = x
        /\ \A f \in Execs : f # e => ex'[f] = ex[f]
    BY <2>1, <2>2, ExecUpdate
  <2>4. Frames(e) /\ Moves(e) /\ Knows(e)
    BY <1>0, <2>1, <2>3 DEF Frames, Moves, Knows, Working, Claimed
  <2> QED BY <1>0, <1>1, <2>3, <2>4 DEF Good, TypeOK
<1>4. CASE ex' = [ex EXCEPT ![e] = [@ EXCEPT
                !.pc = "fail", !.retry = row[DomOf(e)].retry,
                !.kind = "permanent"]]
  <2> DEFINE x == [ex[e] EXCEPT !.pc = "fail", !.retry = row[DomOf(e)].retry,
                                !.kind = "permanent"]
  <2>1. x \in ExecType /\ x.pc = "fail"
    BY <1>2 DEF ExecType, ExecPcs, Working, Kinds
  <2>2. ex' = [ex EXCEPT ![e] = x]
    BY <1>4
  <2> HIDE DEF x
  <2>3. /\ ex' \in [Execs -> ExecType] /\ ex'[e] = x
        /\ \A f \in Execs : f # e => ex'[f] = ex[f]
    BY <2>1, <2>2, ExecUpdate
  <2>4. Frames(e) /\ Moves(e) /\ Knows(e)
    BY <1>0, <2>1, <2>3 DEF Frames, Moves, Knows, Working, Claimed
  <2> QED BY <1>0, <1>1, <2>3, <2>4 DEF Good, TypeOK
<1>5. CASE Fails(e, "none")
  <2>1. /\ ex' \in [Execs -> ExecType] /\ ex'[e].pc = "fail"
        /\ \A f \in Execs : f # e => ex'[f] = ex[f]
    BY <1>5, FailsStep
  <2>2. Frames(e) /\ Moves(e) /\ Knows(e)
    BY <1>0, <2>1 DEF Frames, Moves, Knows, Working, Claimed
  <2> QED BY <1>0, <1>1, <2>1, <2>2 DEF Good, TypeOK
<1> QED BY <1>3, <1>4, <1>5 DEF Load

(* Every failure on the way of an executor that has claimed its task.      *)
LEMMA FailureStep ==
    ASSUME RenewalInv, NEW e \in Execs, NEW k \in Kinds \cup {"none"},
           ex[e].pc \in Claimed, Fails(e, k), NoFault,
           UNCHANGED <<row, task, inflight, dm, req>>,
           cloud' \in [Domains -> Nat]
    PROVE  Good(e)
<1> USE Before
<1>1. /\ ex' \in [Execs -> ExecType] /\ ex'[e].pc = "fail"
      /\ \A f \in Execs : f # e => ex'[f] = ex[f]
  BY FailsStep
<1>2. Frames(e) /\ Moves(e) /\ Knows(e)
  BY <1>1 DEF Frames, Moves, Knows, Working, Claimed
<1> QED BY <1>1, <1>2, BudgetKept DEF Good, TypeOK

(* Only a copy that is due goes on to an order.                            *)
LEMMA PrepareStep ==
    ASSUME RenewalInv, NEW e \in Execs, Prepare(e)
    PROVE  Good(e)
<1> USE Before
<1>0. /\ ex[e].pc = "prepare" /\ NoFault
      /\ UNCHANGED <<row, task, cloud, inflight, dm, req>>
  BY DEF Prepare, At
<1>1. ASSUME NEW pc \in {"save", "order"}, Goto(e, pc),
             pc = "order" => ~Reusable(ex[e].cert)
      PROVE  Good(e)
  <2>1. pc \in ExecPcs
    BY DEF ExecPcs, Working
  <2>2. /\ ex' \in [Execs -> ExecType] /\ ex'[e].pc = pc
        /\ ex'[e].cert = ex[e].cert
        /\ \A f \in Execs : f # e => ex'[f] = ex[f]
    BY <1>1, <2>1, GotoStep
  <2>3. pc = "order" => ex[e].cert <= RenewBefore
    BY <1>1 DEF Reusable, ExecType
  <2>4. Frames(e) /\ Moves(e)
    BY <1>0, <2>2 DEF Frames, Moves, Working
  <2>5. Knows(e)
    BY <1>0, <2>2, <2>3 DEF Knows, Claimed, Renews
  <2> QED BY <1>0, <2>2, <2>4, <2>5, BudgetKept DEF Good, TypeOK
<1>2. ASSUME NEW k \in ErrorKinds, Fails(e, k)
      PROVE  Good(e)
  BY <1>0, <1>2, FailureStep DEF Claimed, TypeOK
<1> QED BY <1>1, <1>2 DEF Prepare

(* An order yields a certificate or fails the task.                        *)
LEMMA OrderStep ==
    ASSUME RenewalInv, NEW e \in Execs, Order(e)
    PROVE  Good(e)
<1> USE Before
<1>0. /\ ex[e].pc = "order" /\ NoFault
      /\ UNCHANGED <<row, task, cloud, inflight, dm, req>>
  BY DEF Order, At
<1>1. CASE ex' = [ex EXCEPT ![e] = [@ EXCEPT !.pc = "save", !.cert = CertLife]]
  <2> DEFINE x == [ex[e] EXCEPT !.pc = "save", !.cert = CertLife]
  <2>1. x \in ExecType /\ x.pc = "save" /\ x.cert = CertLife
    BY DEF ExecType, ExecPcs, Working
  <2>2. ex' = [ex EXCEPT ![e] = x]
    BY <1>1
  <2> HIDE DEF x
  <2>3. /\ ex' \in [Execs -> ExecType] /\ ex'[e] = x
        /\ \A f \in Execs : f # e => ex'[f] = ex[f]
    BY <2>1, <2>2, ExecUpdate
  <2>4. Renews(row[DomOf(e)].material, CertLife)
    BY <1>0 DEF Renews, RowType
  <2>5. Frames(e) /\ Moves(e) /\ Knows(e)
    BY <1>0, <2>1, <2>3, <2>4 DEF Frames, Moves, Knows, Working, Claimed
  <2> QED BY <1>0, <2>3, <2>5, BudgetKept DEF Good, TypeOK
<1>2. ASSUME NEW k \in ErrorKinds, Fails(e, k)
      PROVE  Good(e)
  BY <1>0, <1>2, FailureStep DEF Claimed, TypeOK
<1> QED BY <1>1, <1>2 DEF Order

(* saveCertificate: who goes on works on the stored material.              *)
LEMMA SaveStep ==
    ASSUME RenewalInv, NEW e \in Execs, Save(e)
    PROVE  Good(e)
<1> USE Before
<1>0. /\ ex[e].pc = "save" /\ NoFault
      /\ UNCHANGED <<task, cloud, inflight, dm, req>>
  BY DEF Save, At
<1>1. ex[e].cert \in Nat
  BY DEF ExecType
<1> DEFINE x == SavedRow(row[DomOf(e)], ex[e].cert)
<1>2. /\ x \in RowType /\ x.material = ex[e].cert
      /\ Consistent(x)
  BY <1>1 DEF SavedRow, RowType, Consistent
<1>3. ASSUME row' = [row EXCEPT ![DomOf(e)] = x]
      PROVE  /\ row' \in [Domains -> RowType] /\ row'[DomOf(e)] = x
             /\ \A c \in Domains : c # DomOf(e) => row'[c] = row[c]
  <2> HIDE DEF x
  <2> QED BY <1>2, <1>3, RowUpdate
<1>4. CASE Goto(e, "recheck") /\ row' = [row EXCEPT ![DomOf(e)] = x]
  <2>1. "recheck" \in ExecPcs
    BY DEF ExecPcs, Working
  <2>2. /\ ex' \in [Execs -> ExecType] /\ ex'[e].pc = "recheck"
        /\ ex'[e].cert = ex[e].cert
        /\ \A f \in Execs : f # e => ex'[f] = ex[f]
    BY <1>4, <2>1, GotoStep
  <2>3. Frames(e) /\ Moves(e) /\ Knows(e)
    BY <1>0, <1>2, <1>3, <1>4, <2>2 DEF Frames, Moves, Knows, Working, Claimed
  <2> QED BY <1>0, <1>2, <1>3, <1>4, <2>2, <2>3, BudgetKept DEF Good, TypeOK
<1>5. CASE /\ Fails(e, "transient")
           /\ row' = row \/ row' = [row EXCEPT ![DomOf(e)] = x]
  <2>1. /\ ex' \in [Execs -> ExecType] /\ ex'[e].pc = "fail"
        /\ \A f \in Execs : f # e => ex'[f] = ex[f]
    BY <1>5, FailsStep DEF Kinds
  <2>2. /\ row' \in [Domains -> RowType] /\ Consistent(row'[DomOf(e)])
        /\ \A c \in Domains : c # DomOf(e) => row'[c] = row[c]
    BY <1>2, <1>3, <1>5 DEF TypeOK
  <2>3. Frames(e) /\ Moves(e) /\ Knows(e)
    BY <1>0, <2>1, <2>2 DEF Frames, Moves, Knows, Working, Claimed
  <2> QED BY <1>0, <2>1, <2>2, <2>3, BudgetKept DEF Good, TypeOK
<1> QED BY <1>4, <1>5 DEF Save

(* The checks before the deployment change nothing.                        *)
LEMMA RecheckStep ==
    ASSUME RenewalInv, NEW e \in Execs, Recheck(e)
    PROVE  Good(e)
<1> USE Before
<1>0. /\ ex[e].pc = "recheck" /\ NoFault
      /\ UNCHANGED <<row, task, cloud, inflight, dm, req>>
  BY DEF Recheck, At
<1>1. CASE Goto(e, "deploy")
  <2>1. "deploy" \in ExecPcs
    BY DEF ExecPcs, Working
  <2>2. /\ ex' \in [Execs -> ExecType] /\ ex'[e].pc = "deploy"
        /\ ex'[e].cert = ex[e].cert
        /\ \A f \in Execs : f # e => ex'[f] = ex[f]
    BY <1>1, <2>1, GotoStep
  <2>3. Frames(e) /\ Moves(e) /\ Knows(e)
    BY <1>0, <2>2 DEF Frames, Moves, Knows, Working, Claimed
  <2> QED BY <1>0, <2>2, <2>3, BudgetKept DEF Good, TypeOK
<1>2. ASSUME NEW k \in Kinds, Fails(e, k)
      PROVE  Good(e)
  BY <1>0, <1>2, FailureStep DEF Claimed, TypeOK
<1>3. "permanent" \in Kinds
  BY DEF Kinds
<1> QED BY <1>1, <1>2, <1>3 DEF Recheck

(* A deployment changes the cloud only.                                    *)
LEMMA DeployStep ==
    ASSUME RenewalInv, NEW e \in Execs, Deploy(e)
    PROVE  Good(e)
<1> USE Before
<1>0. /\ ex[e].pc = "deploy" /\ NoFault
      /\ UNCHANGED <<row, task, inflight, dm, req>>
  BY DEF Deploy, At
<1>1. [cloud EXCEPT ![DomOf(e)] = ex[e].cert] \in [Domains -> Nat]
  BY DEF ExecType, TypeOK
<1>2. cloud' \in [Domains -> Nat]
  BY <1>1 DEF Deploy, TypeOK
<1>3. CASE Goto(e, "finish")
  <2>1. "finish" \in ExecPcs
    BY DEF ExecPcs, Working
  <2>2. /\ ex' \in [Execs -> ExecType] /\ ex'[e].pc = "finish"
        /\ ex'[e].cert = ex[e].cert
        /\ \A f \in Execs : f # e => ex'[f] = ex[f]
    BY <1>3, <2>1, GotoStep
  <2>3. Frames(e) /\ Moves(e) /\ Knows(e)
    BY <1>0, <2>2 DEF Frames, Moves, Knows, Working, Claimed
  <2> QED BY <1>0, <1>2, <2>2, <2>3, BudgetKept DEF Good, TypeOK
<1>4. ASSUME NEW k \in ErrorKinds, Fails(e, k)
      PROVE  Good(e)
  BY <1>0, <1>2, <1>4, FailureStep DEF Claimed
<1> QED BY <1>3, <1>4 DEF Deploy

(* The row's last update clears every trace of failure.                    *)
LEMMA FinishStep ==
    ASSUME RenewalInv, NEW e \in Execs, Finish(e)
    PROVE  Good(e)
<1> USE Before
<1>0. /\ ex[e].pc = "finish" /\ Goto(e, "close")
      /\ UNCHANGED <<task, cloud, inflight, dm, req>>
  BY DEF Finish, At
<1>1. budget' \in BudgetType
  BY BudgetKept DEF Finish
<1> DEFINE c == Cleared(row[DomOf(e)])
<1> DEFINE x == [c EXCEPT !.material = ex[e].cert]
<1>2. /\ c \in RowType /\ c.retry = 0 /\ c.next = NoRetry
      /\ c.kind = "none" /\ ~c.blocked
  BY ClearedRow
<1>3. ex[e].cert \in Nat
  BY DEF ExecType
<1>4. x \in RowType /\ Consistent(x)
  <2> HIDE DEF c
  <2> QED BY <1>2, <1>3 DEF RowType, Consistent
<1>5. row' = row \/ row' = [row EXCEPT ![DomOf(e)] = x]
  BY DEF Finish
<1>6. /\ row' \in [Domains -> RowType] /\ Consistent(row'[DomOf(e)])
      /\ \A d \in Domains : d # DomOf(e) => row'[d] = row[d]
  <2> HIDE DEF x
  <2> QED BY <1>4, <1>5, RowUpdate DEF TypeOK
<1>7. "close" \in ExecPcs
  BY DEF ExecPcs, Working
<1>8. /\ ex' \in [Execs -> ExecType] /\ ex'[e].pc = "close"
      /\ \A f \in Execs : f # e => ex'[f] = ex[f]
  BY <1>0, <1>7, GotoStep
<1>9. Frames(e) /\ Moves(e) /\ Knows(e)
  BY <1>0, <1>6, <1>8 DEF Frames, Moves, Knows, Working, Claimed
<1> QED BY <1>0, <1>1, <1>6, <1>8, <1>9 DEF Good, TypeOK

(* The end of a successful task gives the domain back.                     *)
LEMMA CloseStep ==
    ASSUME RenewalInv, NEW e \in Execs, Close(e)
    PROVE  Good(e)
<1> USE Before
<1>0. ex[e].pc = "close" /\ Leave(e) /\ UNCHANGED <<cloud, dm, req>>
  BY DEF Close, At
<1>1. budget' \in BudgetType
  BY BudgetKept DEF Close
<1> DEFINE x == Announced(row[DomOf(e)], "ok")
<1>2. x \in RowType /\ Consistent(x)
  <2>1. "ok" \in AlertStates
    BY DEF AlertStates
  <2> QED BY <2>1, AnnouncedRow DEF Consistent
<1>3. row' = row \/ row' = [row EXCEPT ![DomOf(e)] = x]
  BY DEF Close
<1>4. /\ row' \in [Domains -> RowType] /\ Consistent(row'[DomOf(e)])
      /\ \A d \in Domains : d # DomOf(e) => row'[d] = row[d]
  <2> HIDE DEF x
  <2> QED BY <1>2, <1>3, RowUpdate DEF TypeOK
<1>5. task' = task \/ task' = [task EXCEPT ![TaskOf(e)].status = "success"]
  BY DEF Close
<1>6. /\ task' \in [Tasks -> TaskType]
      /\ task'[TaskOf(e)].dom = task[TaskOf(e)].dom
      /\ \A t \in Tasks : t # TaskOf(e) => task'[t] = task[t]
  <2>1. "success" \in Statuses
    BY DEF Statuses, Active
  <2> QED BY <1>5, <2>1, StatusStep DEF TypeOK
<1>7. /\ ex' \in [Execs -> ExecType] /\ ex'[e].pc = "gone"
      /\ \A f \in Execs : f # e => ex'[f] = ex[f]
      /\ inflight' = inflight \ {DomOf(e)}
  BY <1>0, GoneStep DEF Leave
<1>8. Frames(e) /\ Moves(e) /\ Knows(e)
  BY <1>0, <1>4, <1>6, <1>7 DEF Frames, Moves, Knows, Working, Claimed
<1> QED BY <1>0, <1>1, <1>4, <1>6, <1>7, <1>8 DEF Good, TypeOK

(* failTask goes on to record an error of some kind, or returns.           *)
LEMMA FailStep ==
    ASSUME RenewalInv, NEW e \in Execs, Fail(e)
    PROVE  Good(e)
<1> USE Before
<1>0. ex[e].pc = "fail" /\ UNCHANGED <<row, cloud, dm, req>>
  BY DEF Fail, At
<1>1. budget' \in BudgetType
  BY BudgetKept DEF Fail
<1>2. task' = task \/ task' = [task EXCEPT ![TaskOf(e)].status = "failed"]
  BY DEF Fail
<1>3. /\ task' \in [Tasks -> TaskType]
      /\ task'[TaskOf(e)].dom = task[TaskOf(e)].dom
      /\ \A t \in Tasks : t # TaskOf(e) => task'[t] = task[t]
  <2>1. "failed" \in Statuses
    BY DEF Statuses, Active
  <2> QED BY <1>2, <2>1, StatusStep DEF TypeOK
<1>4. CASE ex[e].kind = "none"
  <2>1. /\ ex' \in [Execs -> ExecType] /\ ex'[e].pc = "gone"
        /\ \A f \in Execs : f # e => ex'[f] = ex[f]
        /\ inflight' = inflight \ {DomOf(e)}
    BY <1>4, GoneStep DEF Fail, Leave
  <2>2. Frames(e) /\ Moves(e) /\ Knows(e)
    BY <1>0, <1>3, <2>1 DEF Frames, Moves, Knows, Working, Claimed
  <2> QED BY <1>0, <1>1, <1>3, <2>1, <2>2 DEF Good, TypeOK
<1>5. CASE ex[e].kind # "none"
  <2>1. "record" \in ExecPcs /\ ex[e].kind \in Kinds
    BY <1>5 DEF ExecPcs, Working, ExecType
  <2>2. Goto(e, "record") /\ inflight' = inflight
    BY <1>5 DEF Fail
  <2>3. /\ ex' \in [Execs -> ExecType] /\ ex'[e].pc = "record"
        /\ ex'[e].kind = ex[e].kind
        /\ \A f \in Execs : f # e => ex'[f] = ex[f]
    BY <2>1, <2>2, GotoStep
  <2>4. Frames(e) /\ Moves(e) /\ Knows(e)
    BY <1>0, <1>3, <2>1, <2>2, <2>3 DEF Frames, Moves, Knows, Working, Claimed
  <2> QED BY <1>0, <1>1, <1>3, <2>3, <2>4 DEF Good, TypeOK
<1> QED BY <1>4, <1>5

(* recordFailure leaves a consistent row and gives the domain back.        *)
LEMMA RecordStep ==
    ASSUME RenewalInv, NEW e \in Execs, Record(e)
    PROVE  Good(e)
<1> USE Before
<1>0. /\ ex[e].pc = "record" /\ Leave(e) /\ UNCHANGED <<task, cloud, dm, req>>
      /\ RecordFailure(DomOf(e), ex[e].kind, ex[e].retry)
  BY DEF Record, At
<1>1. ex[e].kind \in Kinds /\ ex[e].retry \in 0..MaxAttempts
  BY <1>0 DEF ExecType
<1>2. /\ row' \in [Domains -> RowType] /\ Consistent(row'[DomOf(e)])
      /\ \A d \in Domains : d # DomOf(e) => row'[d] = row[d]
      /\ budget' \in BudgetType
  BY <1>0, <1>1, RecordedRow
<1>3. /\ ex' \in [Execs -> ExecType] /\ ex'[e].pc = "gone"
      /\ \A f \in Execs : f # e => ex'[f] = ex[f]
      /\ inflight' = inflight \ {DomOf(e)}
  BY <1>0, GoneStep DEF Leave
<1>4. Frames(e) /\ Moves(e) /\ Knows(e)
  BY <1>0, <1>2, <1>3 DEF Frames, Moves, Knows, Working, Claimed
<1> QED BY <1>0, <1>2, <1>3, <1>4 DEF Good, TypeOK

(* Every step of an executor is as Good says.                              *)
LEMMA ExecuteStep ==
    ASSUME RenewalInv, NEW e \in Execs, Execute(e)
    PROVE  Good(e)
  BY LookupStep, EnterStep, ClaimStep, LoadStep, PrepareStep, OrderStep,
     SaveStep, RecheckStep, DeployStep, FinishStep, CloseStep, FailStep,
     RecordStep DEF Execute

-----------------------------------------------------------------------------
(* A step of an executor preserves the invariant.                          *)

(* Who does not step keeps what it knows: its task is another, or the one  *)
(* that steps holds no domain, and so touches no row and no task.          *)
LEMMA ExecuteInv ==
    ASSUME RenewalInv, NEW e \in Execs, Execute(e)
    PROVE  RenewalInv'
<1>0. Good(e) /\ TypeOK
  BY ExecuteStep DEF RenewalInv
<1>1. Frames(e) /\ Moves(e) /\ Knows(e)
  BY <1>0 DEF Good
<1>2. \A f \in Execs : /\ TaskOf(f) \in Tasks /\ DomOf(f) \in Domains
                       /\ task'[TaskOf(f)].dom = DomOf(f)
  BY <1>0, <1>1, ExecIds DEF Frames
<1>3. TypeOK'
  BY <1>0, <1>1, <1>2 DEF TypeOK, Good, Frames, Moves, BudgetType
<1>4. DaemonPool'
  <2>1. \A f \in Execs : ex[f].pc = "gone" => ex'[f].pc = "gone"
    BY <1>1 DEF Frames
  <2>2. \A t \in Tasks : <<t, "daemon">> \in Execs
    BY DEF Execs
  <2> QED BY <1>1, <2>1, <2>2 DEF RenewalInv, DaemonPool, Frames
<1>5. /\ \A f, g \in Execs :
            ex[f].pc \in Working /\ ex[g].pc \in Working /\ DomOf(f) = DomOf(g)
            => f = g
      /\ inflight = {DomOf(f) : f \in {g \in Execs : ex[g].pc \in Working}}
  BY DEF RenewalInv, OneExecutorPerDomain
<1>6. \A f \in Execs : f # e => ex'[f] = ex[f]
  BY <1>1 DEF Frames
<1>7. /\ \A f, g \in Execs :
            ex'[f].pc \in Working /\ ex'[g].pc \in Working /\ DomOf(f) = DomOf(g)
            => f = g
      /\ inflight' = {DomOf(f) : f \in {g \in Execs : ex'[g].pc \in Working}}
  BY <1>1, <1>5, <1>6 DEF Moves
<1>8. OneExecutorPerDomain'
  BY <1>2, <1>7 DEF OneExecutorPerDomain, DomOf, TaskOf
<1>9. RecordsAKind'
  BY <1>1, <1>6 DEF RenewalInv, RecordsAKind, Knows
<1>10. FailureIsScheduledOrBlocked'
  <2>1. \A d \in Domains : Consistent(row'[d])
    BY <1>0, <1>1 DEF Good, Frames, RenewalInv, FailureIsScheduledOrBlocked,
       Consistent
  <2> QED BY <2>1 DEF FailureIsScheduledOrBlocked, Consistent
<1>11. ClaimedIsRunning'
  <2> SUFFICES ASSUME NEW f \in Execs, ex'[f].pc \in Claimed
               PROVE  task'[TaskOf(f)].status = "running"
    BY DEF ClaimedIsRunning, TaskOf
  <2>1. CASE f = e
    BY <1>1, <2>1 DEF Knows
  <2>2. CASE f # e
    <3>1. ex[f].pc \in Claimed /\ ex[f].pc \in Working
      BY <1>6, <2>2 DEF Claimed, Working
    <3>2. task[TaskOf(f)].status = "running"
      BY <3>1 DEF RenewalInv, ClaimedIsRunning
    <3>3. TaskOf(f) = TaskOf(e) => ex[e].pc \notin Working
      BY <1>5, <2>2, <3>1 DEF DomOf
    <3> QED BY <1>1, <1>2, <3>2, <3>3 DEF Frames
  <2> QED BY <2>1, <2>2
<1>12. CopyIsStored'
  <2> SUFFICES ASSUME NEW f \in Execs
               PROVE  /\ ex'[f].pc \in {"prepare", "order", "recheck", "deploy",
                                       "finish"}
                         => row'[DomOf(f)].material = ex'[f].cert
                      /\ ex'[f].pc = "order" => ex'[f].cert <= RenewBefore
    BY <1>2 DEF CopyIsStored, DomOf, TaskOf
  <2>1. CASE f = e
    BY <1>1, <2>1 DEF Knows
  <2>2. CASE f # e
    <3>1. ex[f].pc \in Working /\ DomOf(f) = DomOf(e) => ex[e].pc \notin Working
      BY <1>5, <2>2
    <3>2. ex[f].pc \in Working => row'[DomOf(f)] = row[DomOf(f)]
      BY <1>1, <1>2, <3>1 DEF Frames
    <3> QED BY <1>6, <2>2, <3>2 DEF RenewalInv, CopyIsStored, Working
  <2> QED BY <2>1, <2>2
<1>13. SaveIsRenewal'
  <2> SUFFICES ASSUME NEW f \in Execs, ex'[f].pc = "save"
               PROVE  Renews(row'[DomOf(f)].material, ex'[f].cert)
    BY <1>2 DEF SaveIsRenewal, Renews, DomOf, TaskOf, At
  <2>1. CASE f = e
    BY <1>1, <2>1 DEF Knows
  <2>2. CASE f # e
    <3>1. ex[f].pc = "save" /\ ex[f].pc \in Working
      BY <1>6, <2>2 DEF Working
    <3>2. row'[DomOf(f)] = row[DomOf(f)]
      BY <1>1, <1>2, <1>5, <2>2, <3>1 DEF Frames
    <3> QED BY <1>6, <2>2, <3>1, <3>2, Before
  <2> QED BY <2>1, <2>2
<1> QED BY <1>3, <1>4, <1>8, <1>9, <1>10, <1>11, <1>12, <1>13 DEF RenewalInv

-----------------------------------------------------------------------------
(* The steps of the daemon, the API and the environment.                   *)

(* What they leave to the executors at work.                               *)
Quiet ==
    /\ inflight' = inflight
    /\ \A e \in Execs :
          ex[e].pc \in Working
          => /\ ex'[e].pc = ex[e].pc /\ ex'[e].kind = ex[e].kind
             /\ task'[TaskOf(e)] = task[TaskOf(e)]
             /\ \/ /\ ex'[e].cert = ex[e].cert
                   /\ row'[DomOf(e)].material = row[DomOf(e)].material
                \/ /\ ex'[e].cert = Aged(ex[e].cert)
                   /\ row'[DomOf(e)].material = Aged(row[DomOf(e)].material)
    /\ \A e \in Execs : ex[e].pc \notin Working => ex'[e].pc \notin Working
    /\ \A d \in Domains : Consistent(row[d]) => Consistent(row'[d])

(* A tick takes a count down to 0, and leaves NULL and unknown alone.      *)
LEMMA AgedNat ==
    /\ \A n \in Nat : Aged(n) \in Nat /\ Aged(n) <= n
    /\ \A n \in Nat \cup {NoRetry} : /\ Aged(n) \in Nat \cup {NoRetry}
                                    /\ Aged(n) = NoRetry <=> n = NoRetry
    /\ \A n \in Nat \cup {NotUsable} : Aged(n) \in Nat \cup {NotUsable}
  BY DEF Aged, NoRetry, NotUsable

(* A certificate and the one that replaces it grow old together.           *)
LEMMA RenewsAged ==
    ASSUME NEW old \in Nat, NEW cert \in Nat, Renews(old, cert)
    PROVE  Renews(Aged(old), Aged(cert))
  BY DEF Renews, Aged

(* A quiet step preserves the invariant.                                   *)
LEMMA QuietInv ==
    ASSUME RenewalInv, TypeOK', DaemonPool', Quiet
    PROVE  RenewalInv'
<1>1. \A e \in Execs : ex[e].pc \in Working
                       => task'[TaskOf(e)].dom = DomOf(e)
  BY DEF Quiet, DomOf
<1>2. \A e \in Execs : ex'[e].pc \in Working <=> ex[e].pc \in Working
  BY DEF Quiet
<1>3. OneExecutorPerDomain'
  <2>1. {g \in Execs : ex'[g].pc \in Working} = {g \in Execs : ex[g].pc \in Working}
    BY <1>2
  <2>2. {task'[TaskOf(f)].dom : f \in {g \in Execs : ex'[g].pc \in Working}}
        = {DomOf(f) : f \in {g \in Execs : ex[g].pc \in Working}}
    BY <1>1, <2>1
  <2> QED BY <1>1, <1>2, <2>2 DEF Quiet, RenewalInv, OneExecutorPerDomain, DomOf,
             TaskOf
<1>4. RecordsAKind'
  BY <1>2 DEF Quiet, RenewalInv, RecordsAKind, Working
<1>5. FailureIsScheduledOrBlocked'
  BY DEF Quiet, RenewalInv, FailureIsScheduledOrBlocked, Consistent
<1>6. ClaimedIsRunning'
  BY <1>2 DEF Quiet, RenewalInv, ClaimedIsRunning, Claimed, Working, TaskOf
<1>7. CopyIsStored'
  <2> SUFFICES ASSUME NEW e \in Execs, ex'[e].pc \in Working
               PROVE  /\ ex'[e].pc \in {"prepare", "order", "recheck", "deploy",
                                       "finish"}
                         => row'[DomOf(e)].material = ex'[e].cert
                      /\ ex'[e].pc = "order" => ex'[e].cert <= RenewBefore
    BY <1>1, <1>2 DEF CopyIsStored, DomOf, TaskOf, Working
  <2>1. ex[e].cert \in Nat /\ ex'[e].cert \in Nat
    BY DEF RenewalInv, TypeOK, ExecType
  <2>2. /\ ex'[e].pc = ex[e].pc /\ ex'[e].cert <= ex[e].cert
        /\ row[DomOf(e)].material = ex[e].cert
           => row'[DomOf(e)].material = ex'[e].cert
    BY <1>2, <2>1, AgedNat DEF Quiet
  <2> QED BY <2>1, <2>2 DEF RenewalInv, CopyIsStored
<1>8. SaveIsRenewal'
  <2> SUFFICES ASSUME NEW e \in Execs, ex'[e].pc = "save"
               PROVE  Renews(row'[DomOf(e)].material, ex'[e].cert)
    BY <1>1, <1>2 DEF SaveIsRenewal, Renews, DomOf, TaskOf, At, Working
  <2>1. ex[e].pc = "save" /\ ex[e].pc \in Working
    BY <1>2 DEF Quiet, Working
  <2>2. Renews(row[DomOf(e)].material, ex[e].cert)
    BY <2>1, Before
  <2>3. row[DomOf(e)].material \in Nat /\ ex[e].cert \in Nat
    BY Before DEF RowType, ExecType
  <2> QED BY <2>1, <2>2, <2>3, RenewsAged DEF Quiet
<1> QED BY <1>3, <1>4, <1>5, <1>6, <1>7, <1>8 DEF RenewalInv

(* An empty copy and an empty snapshot.                                    *)
LEMMA Blank ==
    /\ NoCopy \in [Domains -> CopyType]
    /\ NoSnap \in [Domains -> Nat \cup {NotUsable}]
  BY DEF NoCopy, NoSnap, CopyType

(* A step outside the executors that leaves their tables alone.            *)
LEMMA UntouchedQuiet ==
    ASSUME RenewalInv, UNCHANGED <<row, task, inflight, ex>>
    PROVE  Quiet
<1>1. \A e \in Execs : ex[e].cert \in Nat
  BY DEF RenewalInv, TypeOK, ExecType
<1> QED BY <1>1 DEF Quiet

(* A step of the cycle outside its worker pool moves only the cycle.       *)
LEMMA CycleMoves ==
    ASSUME RenewalInv, NoFault \/ Fault, cloud' \in [Domains -> Nat],
           UNCHANGED <<row, task, inflight, ex, req>>,
           dm.pc # "spawn", dm' \in DaemonType,
           dm'.queue = dm.queue \/ dm'.pc = "spawn"
    PROVE  RenewalInv'
<1>1. TypeOK'
  BY BudgetKept DEF RenewalInv, TypeOK, BudgetType
<1>2. DaemonPool'
  BY DEF RenewalInv, DaemonPool
<1> QED BY <1>1, <1>2, UntouchedQuiet, QuietInv

(* A step of the daemon's cycle preserves the invariant.                   *)
LEMMA CycleInv ==
    ASSUME RenewalInv, Cycle
    PROVE  RenewalInv'
<1> USE Blank
<1>0. TypeOK /\ dm \in DaemonType /\ cloud \in [Domains -> Nat]
  BY DEF RenewalInv, TypeOK
<1>1. ASSUME NEW usable \in SUBSET Domains, Scan(usable)
      PROVE  RenewalInv'
  <2> DEFINE s == [d \in Domains |-> IF d \in usable THEN cloud[d] ELSE NotUsable]
  <2>1. s \in [Domains -> Nat \cup {NotUsable}]
    BY <1>0
  <2>2. dm' = [dm EXCEPT !.pc = "load", !.snap = s]
    BY <1>1 DEF Scan
  <2> HIDE DEF s
  <2>3. dm' \in DaemonType /\ dm'.queue = dm.queue
    BY <1>0, <2>1, <2>2 DEF DaemonType, DaemonPcs
  <2> QED BY <1>0, <1>1, <2>3, CycleMoves DEF Scan, DaemonAt
<1>2. CASE LoadStates
  <2> DEFINE c == [d \in Domains |-> [managed |-> row[d].managed, retry |-> 0,
                                      material |-> row[d].material]]
  <2>1. c \in [Domains -> CopyType]
    BY <1>0 DEF TypeOK, RowType, CopyType
  <2>2. \/ dm' = [dm EXCEPT !.pc = "redeploy", !.todo = Domains, !.copy = c]
        \/ dm' = [dm EXCEPT !.pc = "select"]
    BY <1>2 DEF LoadStates
  <2> HIDE DEF c
  <2>3. dm' \in DaemonType /\ dm'.queue = dm.queue
    BY <1>0, <2>1, <2>2 DEF DaemonType, DaemonPcs
  <2> QED BY <1>0, <1>2, <2>3, CycleMoves DEF LoadStates, DaemonAt
<1>3. ASSUME NEW d \in Domains, Redeploy(d)
      PROVE  RenewalInv'
  <2>1. dm' \in DaemonType /\ dm'.queue = dm.queue
    BY <1>0, <1>3 DEF Redeploy, DaemonType
  <2>2. dm.copy[d].material \in Nat
    BY <1>0 DEF DaemonType, CopyType
  <2>3. cloud' \in [Domains -> Nat]
    BY <1>0, <1>3, <2>2 DEF Redeploy
  <2> QED BY <1>3, <2>1, <2>3, CycleMoves DEF Redeploy, DaemonAt
<1>4. CASE RedeployDone
  <2>1. dm' \in DaemonType /\ dm'.queue = dm.queue
    BY <1>0, <1>4 DEF RedeployDone, DaemonType, DaemonPcs
  <2> QED BY <1>0, <1>4, <2>1, CycleMoves DEF RedeployDone, DaemonAt
<1>5. CASE Select
  <2> DEFINE due == {d \in Domains : Schedulable(row[d])}
  <2> DEFINE c == [d \in Domains |->
                     [managed |-> FALSE, material |-> 0,
                      retry |-> IF d \in due THEN row[d].retry ELSE 0]]
  <2>1. c \in [Domains -> CopyType]
    BY <1>0 DEF TypeOK, RowType, CopyType
  <2>2. \/ dm' = [dm EXCEPT !.pc = "busy", !.todo = due, !.copy = c]
        \/ dm' = [dm EXCEPT !.pc = "pending", !.snap = NoSnap]
    BY <1>5 DEF Select
  <2>3. due \subseteq Domains
    OBVIOUS
  <2> HIDE DEF c, due
  <2>4. dm' \in DaemonType /\ dm'.queue = dm.queue
    BY <1>0, <2>1, <2>2, <2>3 DEF DaemonType, DaemonPcs
  <2> QED BY <1>0, <1>5, <2>4, CycleMoves DEF Select, DaemonAt
<1>6. CASE QueryBusy
  <2>1. BusyDomains \subseteq Domains
    BY <1>0 DEF BusyDomains, TypeOK, TaskType
  <2>2. dm' \in DaemonType /\ dm'.queue = dm.queue
    BY <1>0, <1>6, <2>1 DEF QueryBusy, DaemonType, DaemonPcs
  <2> QED BY <1>0, <1>6, <2>2, CycleMoves DEF QueryBusy, DaemonAt
<1>7. ASSUME NEW d \in Domains, Create(d)
      PROVE  RenewalInv'
  <2>0. dm.pc = "create" /\ UNCHANGED <<cloud, inflight, ex, req>>
    BY <1>7 DEF Create, DaemonAt
  <2>1. NoCopy[d] \in CopyType
    OBVIOUS
  <2>2. dm' \in DaemonType /\ dm'.queue = dm.queue /\ dm'.pc = dm.pc
    BY <1>0, <1>7, <2>1 DEF Create, DaemonType
  <2>3. DaemonPool'
    BY <2>0, <2>2 DEF RenewalInv, DaemonPool
  <2>4. CASE task' = task /\ row' = row /\ (NoFault \/ Fault)
    BY <1>0, <2>0, <2>2, <2>4, CycleMoves
  <2>5. ASSUME NEW k \in ErrorKinds, task' = task,
               RecordFailure(d, k, dm.copy[d].retry)
        PROVE  RenewalInv'
    <3>1. dm.copy[d].retry \in 0..MaxAttempts
      BY <1>0 DEF DaemonType, CopyType
    <3>2. /\ row' \in [Domains -> RowType]
          /\ \A c \in Domains : c # d => row'[c] = row[c]
          /\ row'[d].material = row[d].material
          /\ Consistent(row[d]) => Consistent(row'[d])
          /\ budget' \in BudgetType
      BY <1>0, <2>5, <3>1, RecordedRow
    <3>3. TypeOK'
      BY <1>0, <2>0, <2>2, <2>5, <3>2 DEF TypeOK, BudgetType
    <3>4. \A e \in Execs : ex[e].cert \in Nat /\ DomOf(e) \in Domains
      BY <1>0, ExecIds DEF ExecType
    <3>5. \A c \in Domains : /\ row'[c].material = row[c].material
                             /\ Consistent(row[c]) => Consistent(row'[c])
      BY <3>2
    <3>6. Quiet
      BY <2>0, <2>5, <3>4, <3>5 DEF Quiet
    <3> QED BY <2>3, <3>3, <3>6, QuietInv
  <2>6. ASSUME NEW t \in Tasks, Free(t), task' = NewTask(t, d), NoFault,
               row' = row
        PROVE  RenewalInv'
    <3>1. /\ task' \in [Tasks -> TaskType]
          /\ \A e \in Execs : ex[e].pc \in Working
               => task'[TaskOf(e)] = task[TaskOf(e)]
      BY <1>0, <2>6, NewTaskEffect
    <3>2. TypeOK'
      BY <1>0, <2>0, <2>2, <2>6, <3>1, BudgetKept DEF TypeOK, BudgetType
    <3>4. \A e \in Execs : ex[e].cert \in Nat
      BY <1>0, ExecIds DEF ExecType
    <3>5. Quiet
      BY <2>0, <2>6, <3>1, <3>4 DEF Quiet
    <3> QED BY <2>3, <3>2, <3>5, QuietInv
  <2> QED BY <1>7, <2>4, <2>5, <2>6 DEF Create
<1>8. CASE CreateDone
  <2>1. dm' \in DaemonType /\ dm'.queue = dm.queue
    BY <1>0, <1>8 DEF CreateDone, DaemonType, DaemonPcs
  <2> QED BY <1>0, <1>8, <2>1, CycleMoves DEF CreateDone, DaemonAt
<1>9. CASE QueryPending
  <2>1. /\ dm' \in DaemonType
        /\ dm'.queue = dm.queue \/ dm'.pc = "spawn"
    BY <1>0, <1>9 DEF QueryPending, DaemonType, DaemonPcs
  <2> QED BY <1>0, <1>9, <2>1, CycleMoves DEF QueryPending, DaemonAt
<1>10. CASE CycleDone
  <2>0. UNCHANGED <<row, task, cloud, inflight, ex, req>> /\ NoFault
    BY <1>10 DEF CycleDone
  <2>1. dm' \in DaemonType /\ dm'.queue = {}
    BY <1>0, <1>10 DEF CycleDone, DaemonType, DaemonPcs
  <2>2. \A t \in Tasks : ex[<<t, "daemon">>].pc = "gone"
    BY <1>10 DEF CycleDone, DaemonExecs, Execs
  <2>3. TypeOK'
    BY <1>0, <2>0, <2>1, BudgetKept DEF TypeOK, BudgetType
  <2>4. DaemonPool'
    BY <2>0, <2>1, <2>2 DEF DaemonPool
  <2> QED BY <2>0, <2>3, <2>4, UntouchedQuiet, QuietInv
<1>11. ASSUME NEW t \in Tasks, Spawn(t)
       PROVE  RenewalInv'
  <2>0. /\ UNCHANGED <<row, task, cloud, inflight, req>> /\ NoFault
        /\ dm.pc = "spawn" /\ t \in dm.queue
    BY <1>11 DEF Spawn, DaemonAt
  <2> DEFINE e == <<t, "daemon">>
  <2>1. e \in Execs /\ ex[e].pc = "gone"
    BY <2>0 DEF Execs, RenewalInv, DaemonPool
  <2>2. dm' \in DaemonType /\ dm'.pc = "spawn" /\ dm'.queue = dm.queue \ {t}
    BY <1>0, <1>11, <2>0 DEF Spawn, DaemonType
  <2>3. Goto(e, "enter") /\ "enter" \in ExecPcs
    BY <1>11 DEF Spawn, Goto, ExecPcs
  <2>4. /\ ex' \in [Execs -> ExecType] /\ ex'[e].pc = "enter"
        /\ \A f \in Execs : f # e => ex'[f] = ex[f]
    <3> HIDE DEF e
    <3> QED BY <1>0, <2>1, <2>3, GotoStep
  <2>5. TypeOK'
    BY <1>0, <2>0, <2>2, <2>4, BudgetKept DEF TypeOK, BudgetType
  <2>6. DaemonPool'
    <3>1. \A u \in Tasks : u \in dm'.queue => <<u, "daemon">> # e /\ <<u, "daemon">> \in Execs
      BY <2>2 DEF Execs
    <3> QED BY <2>0, <2>2, <2>4, <3>1 DEF RenewalInv, DaemonPool
  <2>7. \A f \in Execs : ex[f].cert \in Nat
    BY <1>0, ExecIds DEF ExecType
  <2>8. Quiet
    BY <2>0, <2>1, <2>4, <2>7 DEF Quiet, Working
  <2> QED BY <2>5, <2>6, <2>8, QuietInv
<1> QED BY <1>1, <1>2, <1>3, <1>4, <1>5, <1>6, <1>7, <1>8, <1>9, <1>10, <1>11
        DEF Cycle

(* A step of the API or the environment that does not touch the cycle.     *)
LEMMA PoolKept ==
    ASSUME RenewalInv, dm' = dm,
           \A t \in Tasks : ex'[<<t, "daemon">>] = ex[<<t, "daemon">>]
    PROVE  DaemonPool'
  BY DEF RenewalInv, DaemonPool

(* A user's update of a row: consistent failures, and the same material.   *)
LEMMA RowEdited ==
    ASSUME RenewalInv, NEW d \in Domains, NEW x \in RowType,
           x.material = row[d].material,
           Consistent(row[d]) => Consistent(x),
           row' = [row EXCEPT ![d] = x],
           UNCHANGED <<task, inflight, ex>>
    PROVE  row' \in [Domains -> RowType] /\ Quiet
<1>0. TypeOK
  BY DEF RenewalInv
<1>1. /\ row' \in [Domains -> RowType] /\ row'[d] = x
      /\ \A c \in Domains : c # d => row'[c] = row[c]
  BY <1>0, RowUpdate
<1>2. \A e \in Execs : ex[e].cert \in Nat /\ DomOf(e) \in Domains
  BY <1>0, ExecIds DEF ExecType
<1>3. \A c \in Domains : /\ row'[c].material = row[c].material
                         /\ Consistent(row[c]) => Consistent(row'[c])
  BY <1>1
<1> QED BY <1>1, <1>2, <1>3 DEF Quiet

(* A step of an API handler preserves the invariant.                       *)
LEMMA ApiInv ==
    ASSUME RenewalInv, Api
    PROVE  RenewalInv'
<1>0. TypeOK
  BY DEF RenewalInv
<1>1. ASSUME NEW c \in Clients, req' \in [Clients -> ReqType],
             UNCHANGED <<row, task, cloud, inflight, ex, dm>>, NoFault
      PROVE  RenewalInv'
  <2>1. TypeOK'
    BY <1>0, <1>1, BudgetKept DEF TypeOK, BudgetType
  <2> QED BY <1>1, <2>1, PoolKept, UntouchedQuiet, QuietInv
<1>2. Answered \in ReqType
  BY DEF Answered, IdleReq, ReqType
<1>3. ASSUME NEW c \in Clients, NEW d \in Domains, Request(c, d)
      PROVE  RenewalInv'
  <2>1. req' \in [Clients -> ReqType]
    BY <1>0, <1>3 DEF Request, TypeOK, ReqType
  <2> QED BY <1>1, <1>3, <2>1 DEF Request
<1>4. ASSUME NEW c \in Clients, CheckBusy(c)
      PROVE  RenewalInv'
  <2>1. req' \in [Clients -> ReqType]
    <3>1. [req[c] EXCEPT !.pc = "reset"] \in ReqType
      BY <1>0 DEF TypeOK, ReqType
    <3>2. \/ req' = [req EXCEPT ![c] = Answered]
          \/ req' = [req EXCEPT ![c] = [req[c] EXCEPT !.pc = "reset"]]
      BY <1>4 DEF CheckBusy, ReqGoto
    <3> QED BY <1>0, <1>2, <3>1, <3>2 DEF TypeOK
  <2> QED BY <1>1, <1>4, <2>1 DEF CheckBusy
<1>5. ASSUME NEW c \in Clients, ResetRetry(c)
      PROVE  RenewalInv'
  <2>1. req' \in [Clients -> ReqType] /\ req[c].dom \in Domains
    BY <1>0, <1>5 DEF ResetRetry, ReqGoto, TypeOK, ReqType
  <2>2. UNCHANGED <<task, cloud, inflight, ex, dm>> /\ (NoFault \/ Fault)
    BY <1>5 DEF ResetRetry
  <2> DEFINE d == req[c].dom
  <2> DEFINE x == Cleared(row[d])
  <2>3. row[d] \in RowType
    BY <1>0, <2>1 DEF TypeOK
  <2>4. /\ x \in RowType /\ x.material = row[d].material
        /\ Consistent(x)
    BY <2>3, ClearedRow DEF Consistent
  <2>5. row' = row \/ row' = [row EXCEPT ![d] = x]
    BY <1>5 DEF ResetRetry
  <2>6. row' \in [Domains -> RowType] /\ Quiet
    <3> HIDE DEF x, d
    <3>1. CASE row' = row
      BY <1>0, <2>2, <3>1, UntouchedQuiet DEF TypeOK
    <3>2. CASE row' = [row EXCEPT ![d] = x]
      <4>1. d \in Domains
        BY <2>1 DEF d
      <4> QED BY <2>2, <2>4, <3>2, <4>1, RowEdited
    <3> QED BY <2>5, <3>1, <3>2
  <2>7. TypeOK'
    BY <1>0, <2>1, <2>2, <2>6, BudgetKept DEF TypeOK, BudgetType
  <2> QED BY <2>2, <2>6, <2>7, PoolKept, QuietInv
<1>6. ASSUME NEW c \in Clients, CreateManual(c)
      PROVE  RenewalInv'
  <2>1. req' \in [Clients -> ReqType] /\ req[c].dom \in Domains
    BY <1>0, <1>2, <1>6 DEF CreateManual, TypeOK, ReqType
  <2>2. UNCHANGED <<row, cloud, inflight, dm>> /\ NoFault
    BY <1>6 DEF CreateManual
  <2>3. CASE UNCHANGED <<task, ex>>
    BY <1>1, <2>1, <2>2, <2>3
  <2>4. ASSUME NEW t \in Tasks, Free(t), task' = NewTask(t, req[c].dom),
               ex' = [ex EXCEPT ![<<t, "api">>].pc = "lookup"]
        PROVE  RenewalInv'
    <3> DEFINE e == <<t, "api">>
    <3>1. e \in Execs /\ ex[e].pc = "gone"
      BY <2>4 DEF Free, Execs
    <3>2. Goto(e, "lookup") /\ "lookup" \in ExecPcs
      BY <2>4 DEF Goto, ExecPcs
    <3>3. /\ ex' \in [Execs -> ExecType] /\ ex'[e].pc = "lookup"
          /\ \A f \in Execs : f # e => ex'[f] = ex[f]
      <4> HIDE DEF e
      <4> QED BY <1>0, <3>1, <3>2, GotoStep
    <3>4. /\ task' \in [Tasks -> TaskType]
          /\ \A f \in Execs : ex[f].pc \in Working
               => task'[TaskOf(f)] = task[TaskOf(f)]
      BY <1>0, <2>1, <2>4, NewTaskEffect
    <3>5. TypeOK'
      BY <1>0, <2>1, <2>2, <3>3, <3>4, BudgetKept DEF TypeOK, BudgetType
    <3>6. DaemonPool'
      BY <2>2, <3>3, PoolKept DEF Execs
    <3>8. \A f \in Execs : ex[f].cert \in Nat
      BY <1>0, ExecIds DEF ExecType
    <3>9. Quiet
      BY <2>2, <3>1, <3>3, <3>4, <3>8 DEF Quiet, Working
    <3> QED BY <3>5, <3>6, <3>9, QuietInv
  <2> QED BY <1>6, <2>3, <2>4 DEF CreateManual
<1>7. ASSUME NEW d \in Domains, NEW managed \in BOOLEAN, SetManaged(d, managed)
      PROVE  RenewalInv'
  <2>1. UNCHANGED <<task, cloud, inflight, ex, dm, req>> /\ NoFault
    BY <1>7 DEF SetManaged
  <2> DEFINE c == Cleared(row[d])
  <2> DEFINE x == IF managed THEN [c EXCEPT !.managed = TRUE]
                  ELSE [row[d] EXCEPT !.managed = FALSE]
  <2>2. row[d] \in RowType
    BY <1>0 DEF TypeOK
  <2>3. /\ c \in RowType /\ c.material = row[d].material
        /\ c.retry = 0 /\ c.next = NoRetry /\ c.kind = "none" /\ ~c.blocked
    BY <2>2, ClearedRow
  <2>4. /\ x \in RowType /\ x.material = row[d].material
        /\ Consistent(row[d]) => Consistent(x)
    <3> HIDE DEF c
    <3>1. CASE managed
      <4>1. x = [c EXCEPT !.managed = TRUE]
        BY <3>1
      <4>2. /\ x \in RowType /\ x.material = c.material /\ x.retry = c.retry
            /\ x.next = c.next /\ x.kind = c.kind /\ x.blocked = c.blocked
        BY <2>3, <4>1 DEF RowType
      <4> QED BY <2>3, <4>2 DEF Consistent
    <3>2. CASE ~managed
      BY <2>2, <3>2 DEF RowType, Consistent
    <3> QED BY <3>1, <3>2
  <2>5. row' = [row EXCEPT ![d] = x]
    BY <1>7 DEF SetManaged
  <2>6. row' \in [Domains -> RowType] /\ Quiet
    <3> HIDE DEF x
    <3> QED BY <2>1, <2>4, <2>5, RowEdited
  <2>7. TypeOK'
    BY <1>0, <2>1, <2>6, BudgetKept DEF TypeOK, BudgetType
  <2> QED BY <2>1, <2>6, <2>7, PoolKept, QuietInv
<1> QED BY <1>3, <1>4, <1>5, <1>6, <1>7 DEF Api

(* A change of the binding in the cloud preserves the invariant.           *)
LEMMA RebindInv ==
    ASSUME RenewalInv, NEW d \in Domains, Rebind(d)
    PROVE  RenewalInv'
<1>1. TypeOK'
  BY BudgetKept DEF RenewalInv, TypeOK, BudgetType, Rebind
<1> QED BY <1>1, PoolKept, UntouchedQuiet, QuietInv DEF Rebind

(* Time ages every copy of a certificate alike.                            *)
LEMMA TickInv ==
    ASSUME RenewalInv, Tick
    PROVE  RenewalInv'
<1>0. TypeOK /\ UNCHANGED <<task, inflight, req>> /\ NoFault
  BY DEF RenewalInv, Tick
<1>1. ASSUME NEW d \in Domains
      PROVE  /\ row'[d] \in RowType
             /\ row'[d].material = Aged(row[d].material)
             /\ Consistent(row[d]) => Consistent(row'[d])
  <2>1. row[d] \in RowType
    BY <1>0 DEF TypeOK
  <2>2. row'[d] = [row[d] EXCEPT !.next = Aged(row[d].next),
                                 !.material = Aged(row[d].material)]
    BY DEF Tick
  <2>3. /\ row[d].next \in Nat \cup {NoRetry} /\ row[d].material \in Nat
    BY <2>1 DEF RowType
  <2>4. /\ Aged(row[d].material) \in Nat
        /\ Aged(row[d].next) \in Nat \cup {NoRetry}
        /\ Aged(row[d].next) = NoRetry <=> row[d].next = NoRetry
    BY <2>3, AgedNat
  <2>5. /\ row'[d] \in RowType
        /\ row'[d].material = Aged(row[d].material)
        /\ row'[d].next = Aged(row[d].next)
        /\ row'[d].retry = row[d].retry /\ row'[d].kind = row[d].kind
        /\ row'[d].blocked = row[d].blocked
    BY <2>1, <2>2, <2>4 DEF RowType
  <2> QED BY <2>4, <2>5 DEF Consistent
<1>2. row' \in [Domains -> RowType]
  <2> DEFINE r(d) == [row[d] EXCEPT !.next = Aged(@), !.material = Aged(@)]
  <2>1. row' = [d \in Domains |-> r(d)]
    BY DEF Tick
  <2>2. \A d \in Domains : row'[d] = r(d)
    BY <2>1
  <2>3. \A d \in Domains : r(d) \in RowType
    BY <1>1, <2>2
  <2> HIDE DEF r
  <2> QED BY <2>1, <2>3
<1>3. cloud' \in [Domains -> Nat]
  BY <1>0, AgedNat DEF Tick, TypeOK
<1>4. ASSUME NEW e \in Execs
      PROVE  /\ ex'[e] \in ExecType
             /\ ex'[e].pc = ex[e].pc /\ ex'[e].kind = ex[e].kind
             /\ ex'[e].cert = Aged(ex[e].cert) /\ ex'[e].cert <= ex[e].cert
  <2>1. ex[e] \in ExecType /\ ex[e].cert \in Nat
    BY <1>0 DEF TypeOK, ExecType
  <2>2. ex'[e] = [ex[e] EXCEPT !.cert = Aged(ex[e].cert)]
    BY DEF Tick
  <2>3. Aged(ex[e].cert) \in Nat /\ Aged(ex[e].cert) <= ex[e].cert
    BY <2>1, AgedNat
  <2> QED BY <2>1, <2>2, <2>3 DEF ExecType
<1>5. ex' \in [Execs -> ExecType]
  <2> DEFINE x(e) == [ex[e] EXCEPT !.cert = Aged(@)]
  <2>1. ex' = [e \in Execs |-> x(e)]
    BY DEF Tick
  <2>2. \A e \in Execs : ex'[e] = x(e)
    BY <2>1
  <2>3. \A e \in Execs : x(e) \in ExecType
    BY <1>4, <2>2
  <2> HIDE DEF x
  <2> QED BY <2>1, <2>3
<1>6. dm' \in DaemonType /\ dm'.pc = dm.pc /\ dm'.queue = dm.queue
  <2> DEFINE s == [d \in Domains |-> Aged(dm.snap[d])]
  <2> DEFINE c == [d \in Domains |-> [dm.copy[d] EXCEPT !.material = Aged(@)]]
  <2>1. dm \in DaemonType
    BY <1>0 DEF TypeOK
  <2>2. s \in [Domains -> Nat \cup {NotUsable}]
    BY <2>1, AgedNat DEF DaemonType
  <2>3. \A d \in Domains : [dm.copy[d] EXCEPT !.material = Aged(dm.copy[d].material)] \in CopyType
    <3>1. \A d \in Domains : dm.copy[d] \in CopyType /\ dm.copy[d].material \in Nat
      BY <2>1 DEF DaemonType, CopyType
    <3> QED BY <3>1, AgedNat DEF CopyType
  <2>4. c \in [Domains -> CopyType]
    BY <2>3
  <2>5. dm' = [dm EXCEPT !.snap = s, !.copy = c]
    BY DEF Tick
  <2> HIDE DEF s, c
  <2> QED BY <2>1, <2>2, <2>4, <2>5 DEF DaemonType
<1>7. TypeOK'
  BY <1>0, <1>2, <1>3, <1>5, <1>6, BudgetKept DEF TypeOK, BudgetType
<1>8. DaemonPool'
  <2>1. \A t \in Tasks : <<t, "daemon">> \in Execs
    BY DEF Execs
  <2> QED BY <1>4, <1>6, <2>1 DEF RenewalInv, DaemonPool
<1>9. Quiet
  <2>1. \A e \in Execs : DomOf(e) \in Domains
    BY <1>0, ExecIds
  <2> QED BY <1>0, <1>1, <1>4, <2>1 DEF Quiet
<1> QED BY <1>7, <1>8, <1>9, QuietInv

(* A restart leaves the two tables, and nobody who relies on more.         *)
LEMMA CrashInv ==
    ASSUME RenewalInv, Crash
    PROVE  RenewalInv'
<1>0. TypeOK /\ UNCHANGED <<row, task, cloud>> /\ inflight' = {}
  BY DEF RenewalInv, Crash
<1>1. Gone \in ExecType /\ Gone.pc = "gone"
  BY DEF Gone, ExecType, ExecPcs
<1>2. ex' \in [Execs -> ExecType] /\ \A e \in Execs : ex'[e].pc = "gone"
  BY <1>1 DEF Crash
<1>3. dm' \in DaemonType /\ dm'.pc = "idle" /\ dm'.queue = {}
  BY Blank DEF Crash, IdleDaemon, DaemonType, DaemonPcs
<1>4. req' \in [Clients -> ReqType]
  <2>1. IdleReq \in ReqType
    BY DEF IdleReq, ReqType
  <2> QED BY <2>1 DEF Crash
<1>5. budget' \in BudgetType
  BY <1>0 DEF Crash, TypeOK, BudgetType
<1>6. TypeOK'
  BY <1>0, <1>2, <1>3, <1>4, <1>5 DEF TypeOK, BudgetType
<1>7. DaemonPool'
  BY <1>2, <1>3 DEF DaemonPool, Execs
<1>8. /\ OneExecutorPerDomain' /\ RecordsAKind' /\ ClaimedIsRunning'
      /\ CopyIsStored' /\ SaveIsRenewal'
  BY <1>0, <1>2 DEF OneExecutorPerDomain, RecordsAKind, ClaimedIsRunning,
     CopyIsStored, SaveIsRenewal, At, Working, Claimed
<1>9. FailureIsScheduledOrBlocked'
  BY <1>0 DEF RenewalInv, FailureIsScheduledOrBlocked
<1> QED BY <1>6, <1>7, <1>8, <1>9 DEF RenewalInv

-----------------------------------------------------------------------------
(* The theorems.                                                           *)

(* The empty database of a fresh installation.                             *)
LEMMA InitInv == Init => RenewalInv
<1> SUFFICES ASSUME Init PROVE RenewalInv
  OBVIOUS
<1>1. Gone \in ExecType /\ Gone.pc = "gone"
  BY DEF Gone, ExecType, ExecPcs
<1>2. ex \in [Execs -> ExecType] /\ \A e \in Execs : ex[e].pc = "gone"
  BY <1>1 DEF Init
<1>3. dm \in DaemonType /\ dm.pc = "idle" /\ dm.queue = {}
  BY Blank DEF Init, IdleDaemon, DaemonType, DaemonPcs
<1>4. NewRow \in RowType /\ Consistent(NewRow)
  BY DEF NewRow, RowType, NotifiedStates, AlertStates, NoRetry, Consistent
<1>5. row \in [Domains -> RowType] /\ \A d \in Domains : Consistent(row[d])
  BY <1>4 DEF Init
<1>6. task \in [Tasks -> TaskType] /\ req \in [Clients -> ReqType]
  <2>1. IdleReq \in ReqType
    BY DEF IdleReq, ReqType
  <2> QED BY <2>1 DEF Init, NoTask, TaskType, Statuses
<1>7. TypeOK
  BY <1>2, <1>3, <1>5, <1>6 DEF TypeOK, Init
<1>8. DaemonPool
  BY <1>2, <1>3 DEF DaemonPool, Execs
<1>9. /\ OneExecutorPerDomain /\ RecordsAKind /\ ClaimedIsRunning
      /\ CopyIsStored /\ SaveIsRenewal
  BY <1>2 DEF Init, OneExecutorPerDomain, RecordsAKind, ClaimedIsRunning,
     CopyIsStored, SaveIsRenewal, At, Working, Claimed
<1>10. FailureIsScheduledOrBlocked
  BY <1>5 DEF FailureIsScheduledOrBlocked, Consistent
<1> QED BY <1>7, <1>8, <1>9, <1>10 DEF RenewalInv

(* The invariant is inductive.                                             *)
LEMMA NextInv == RenewalInv /\ [Next]_vars => RenewalInv'
<1> SUFFICES ASSUME RenewalInv, [Next]_vars PROVE RenewalInv'
  OBVIOUS
<1>1. CASE UNCHANGED vars
  BY <1>1 DEF vars, RenewalInv, TypeOK, DaemonPool, OneExecutorPerDomain,
     RecordsAKind, FailureIsScheduledOrBlocked, ClaimedIsRunning, CopyIsStored,
     SaveIsRenewal, At, DomOf, TaskOf
<1>2. CASE Environment
  BY <1>2, RebindInv, CrashInv, TickInv DEF Environment
<1> QED BY <1>1, <1>2, ExecuteInv, CycleInv, ApiInv DEF Next

(* Every reachable state of the engine, of any size, is as RenewalInv says:*)
(* in particular it is well typed.                                         *)
THEOREM InvTheorem == Spec => []RenewalInv
  BY InitInv, NextInv, PTL DEF Spec

(* Every variable keeps its type, next_retry_at included: no backoff lies  *)
(* in the past.                                                            *)
THEOREM TypeTheorem == Spec => []TypeOK
<1>1. RenewalInv => TypeOK
  BY DEF RenewalInv
<1> QED BY <1>1, InvTheorem, PTL

(* Issuing is exclusive per domain between the API and the daemon, and no  *)
(* return of executeTask leaves a domain locked.                           *)
THEOREM ExclusionTheorem == Spec => []OneExecutorPerDomain
<1>1. RenewalInv => OneExecutorPerDomain
  BY DEF RenewalInv
<1> QED BY <1>1, InvTheorem, PTL

(* No order is placed while the stored certificate could still be deployed.*)
THEOREM OrderTheorem == Spec => []NoWastedOrder
<1>1. RenewalInv => NoWastedOrder
  BY DEF RenewalInv, NoWastedOrder, CopyIsStored, At
<1> QED BY <1>1, InvTheorem, PTL

(* What is written to the cloud is what the database holds.                *)
THEOREM StoredTheorem == Spec => []DeployedIsStored
<1>1. RenewalInv => DeployedIsStored
  BY DEF RenewalInv, DeployedIsStored, CopyIsStored
<1> QED BY <1>1, InvTheorem, PTL

(* A failing domain is scheduled or blocked, and a reset is complete.      *)
THEOREM ScheduleTheorem == Spec => []FailureIsScheduledOrBlocked
<1>1. RenewalInv => FailureIsScheduledOrBlocked
  BY DEF RenewalInv
<1> QED BY <1>1, InvTheorem, PTL

-----------------------------------------------------------------------------
(* Tasks.                                                                  *)

(* An update of one task's status that follows the life of a task.         *)
LEMMA OneTaskMoves ==
    ASSUME TypeOK, NEW u \in Tasks, NEW s \in Statuses,
           StatusMoves(task[u].status, s),
           task' = task \/ task' = [task EXCEPT ![u].status = s]
    PROVE  TaskStep
  BY StatusStep DEF TaskStep, StatusMoves

(* A record that nobody uses may become a new task.                        *)
LEMMA NewTaskMoves ==
    ASSUME TypeOK, NEW u \in Tasks, NEW d \in Domains, Free(u),
           task' = NewTask(u, d)
    PROVE  TaskStep
  BY DEF TaskStep, StatusMoves, NewTask, NoTask, Free, TypeOK, TaskType

(* Every step moves every task along its life, or not at all.              *)
LEMMA NextTaskStep == RenewalInv /\ [Next]_vars => [TaskStep]_vars
<1> SUFFICES ASSUME RenewalInv, Next PROVE TaskStep
  BY DEF TaskStep, StatusMoves, vars
<1>0. TypeOK
  BY DEF RenewalInv
<1>1. CASE task' = task
  BY <1>1 DEF TaskStep, StatusMoves
<1>2. ASSUME NEW e \in Execs, Execute(e)
      PROVE  TaskStep
  <2>0. TaskOf(e) \in Tasks
    BY <1>0, ExecIds
  <2>1. CASE Claim(e)
    <3>1. \/ task' = task
          \/ /\ task[TaskOf(e)].status = "pending"
             /\ task' = [task EXCEPT ![TaskOf(e)].status = "running"]
      BY <2>1 DEF Claim, MayClaim
    <3> QED BY <1>0, <1>1, <2>0, <3>1, OneTaskMoves DEF StatusMoves, Statuses, Active
  <2>2. CASE Close(e)
    <3>1. task[TaskOf(e)].status = "running"
      BY <2>2, Before DEF Close, At, Claimed
    <3>2. \/ task' = task
          \/ task' = [task EXCEPT ![TaskOf(e)].status = "success"]
      BY <2>2 DEF Close
    <3> QED BY <1>0, <2>0, <3>1, <3>2, OneTaskMoves DEF StatusMoves, Statuses
  <2>3. CASE Fail(e)
    <3>1. task[TaskOf(e)].status = "running"
      BY <2>3, Before DEF Fail, At, Claimed
    <3>2. \/ task' = task
          \/ task' = [task EXCEPT ![TaskOf(e)].status = "failed"]
      BY <2>3 DEF Fail
    <3> QED BY <1>0, <2>0, <3>1, <3>2, OneTaskMoves DEF StatusMoves, Statuses
  <2> QED BY <1>1, <1>2, <2>1, <2>2, <2>3
          DEF Execute, Lookup, Enter, Load, Prepare, Order, Save, Recheck, Deploy,
              Finish, Record
<1>3. CASE Cycle
  <2>1. ASSUME NEW d \in Domains, Create(d)
        PROVE  TaskStep
    BY <1>0, <1>1, <2>1, NewTaskMoves DEF Create
  <2> QED BY <1>1, <1>3, <2>1
          DEF Cycle, Scan, LoadStates, Redeploy, RedeployDone, Select, QueryBusy,
              CreateDone, QueryPending, CycleDone, Spawn
<1>4. CASE Api
  <2>1. ASSUME NEW c \in Clients, CreateManual(c)
        PROVE  TaskStep
    <3>1. req[c].dom \in Domains
      BY <1>0 DEF TypeOK, ReqType
    <3> QED BY <1>0, <1>1, <2>1, <3>1, NewTaskMoves DEF CreateManual
  <2> QED BY <1>1, <1>4, <2>1 DEF Api, Request, CheckBusy, ResetRetry, SetManaged
<1>5. CASE Environment
  BY <1>1, <1>5 DEF Environment, Rebind, Crash, Tick
<1> QED BY <1>2, <1>3, <1>4, <1>5 DEF Next

(* No task is claimed twice, and none changes after its end.               *)
THEOREM TaskTheorem == Spec => TaskEndsOnce
  BY InvTheorem, NextTaskStep, PTL DEF Spec, TaskEndsOnce

-----------------------------------------------------------------------------
(* The promise about certificates.                                         *)

Stored == [d \in Domains |-> row[d].material]
Spare == [d \in Domains |-> Unread(d)]

(* Rows that keep their material store the same certificates.              *)
LEMMA StoredKept ==
    ASSUME \A d \in Domains : row'[d].material = row[d].material
    PROVE  Stored' = Stored
  BY DEF Stored

(* A cycle outside the loop of checkAndRedeploy has nothing to repair.     *)
LEMMA SpareEmpty ==
    /\ dm.pc # "redeploy" => Spare = [d \in Domains |-> 0]
    /\ dm'.pc # "redeploy" => Spare' = [d \in Domains |-> 0]
  BY DEF Spare, Unread

(* A step that leaves the four alone is a stutter of the promise.          *)
LEMMA Stutters ==
    ASSUME inflight' = inflight, Stored' = Stored, cloud' = cloud,
           Spare' = Spare
    PROVE  UNCHANGED Custody!custodyVars
  BY DEF Custody!custodyVars, Stored, Spare

(* The initial states are those of the promise.                            *)
LEMMA InitCustody == Init => Custody!Init
<1> SUFFICES ASSUME Init PROVE Custody!Init
  OBVIOUS
<1>1. Stored = [d \in Domains |-> 0]
  BY DEF Init, Stored, NewRow
<1>2. Spare = [d \in Domains |-> 0]
  BY SpareEmpty DEF Init, IdleDaemon
<1> QED BY <1>1, <1>2 DEF Custody!Init, Custody!Nothing, Init, Stored, Spare

(* What a step of an executor, the save apart, leaves of the material.     *)
LEMMA MaterialKept ==
    ASSUME RenewalInv, NEW e \in Execs, Execute(e), ~Save(e)
    PROVE  Stored' = Stored
<1> USE Before
<1>0. \A d \in Domains : d # DomOf(e) => row'[d] = row[d]
  BY ExecuteStep DEF Good, Frames
<1>1. CASE row' = row
  BY <1>1, StoredKept
<1>2. CASE Finish(e)
  <2> DEFINE x == [Cleared(row[DomOf(e)]) EXCEPT !.material = ex[e].cert]
  <2>1. /\ row' = row \/ row' = [row EXCEPT ![DomOf(e)] = x]
        /\ row[DomOf(e)].material = ex[e].cert
    BY <1>2 DEF Finish, At
  <2>2. x.material = ex[e].cert
    BY DEF Cleared, RowType
  <2> HIDE DEF x
  <2>3. row'[DomOf(e)].material = row[DomOf(e)].material
    BY <2>1, <2>2 DEF TypeOK
  <2> QED BY <1>0, <2>3, StoredKept
<1>3. CASE Close(e)
  <2> DEFINE x == Announced(row[DomOf(e)], "ok")
  <2>1. row' = row \/ row' = [row EXCEPT ![DomOf(e)] = x]
    BY <1>3 DEF Close
  <2>2. x.material = row[DomOf(e)].material
    BY AnnouncedRow DEF AlertStates
  <2> HIDE DEF x
  <2>3. row'[DomOf(e)].material = row[DomOf(e)].material
    BY <2>1, <2>2 DEF TypeOK
  <2> QED BY <1>0, <2>3, StoredKept
<1>4. CASE Record(e)
  <2>1. /\ RecordFailure(DomOf(e), ex[e].kind, ex[e].retry)
        /\ ex[e].kind \in Kinds /\ ex[e].retry \in 0..MaxAttempts
    BY <1>4 DEF Record, At, ExecType
  <2>2. row'[DomOf(e)].material = row[DomOf(e)].material
    BY <2>1, RecordedRow
  <2> QED BY <1>0, <2>2, StoredKept
<1> QED BY <1>1, <1>2, <1>3, <1>4
        DEF Execute, Lookup, Enter, Claim, Load, Prepare, Order, Recheck, Deploy,
            Fail

(* A save of a new certificate replaces one that is due by a longer one.   *)
LEMMA SaveRefines ==
    ASSUME RenewalInv, NEW e \in Execs, Save(e)
    PROVE  Custody!Next \/ UNCHANGED Custody!custodyVars
<1> USE Before
<1> DEFINE new == ex[e].cert
<1> PICK d \in Domains : d = DomOf(e)
  OBVIOUS
<1>0. /\ ex[e].pc = "save" /\ ex[e].pc \in Working
      /\ UNCHANGED <<cloud, inflight, dm>>
  BY DEF Save, At, Working
<1>1. d \in Domains /\ d \in inflight /\ row \in [Domains -> RowType]
  BY <1>0 DEF TypeOK
<1>2. Spare' = Spare
  BY <1>0 DEF Spare, Unread
<1>3. new \in Nat /\ row[d].material \in Nat /\ CertLife \in Nat
  BY DEF ExecType, RowType
<1>4. Renews(row[d].material, new)
  BY <1>0
<1>5. \/ row' = row
      \/ /\ row'[d].material = new
         /\ \A c \in Domains : c # d => row'[c] = row[c]
  <2> DEFINE x == SavedRow(row[d], new)
  <2>1. row' = row \/ row' = [row EXCEPT ![d] = x]
    BY DEF Save
  <2>2. x.material = new
    BY DEF SavedRow, RowType
  <2> HIDE DEF x, new
  <2> QED BY <1>1, <2>1, <2>2
<1> HIDE DEF new
<1>6. CASE row' = row \/ new = row[d].material
  <2>1. Stored' = Stored
    BY <1>5, <1>6, StoredKept
  <2> QED BY <1>0, <1>2, <2>1, Stutters
<1>7. CASE row' # row /\ new # row[d].material
  <2>1. /\ row[d].material <= RenewBefore
        /\ new \in (row[d].material + 1)..CertLife
    BY <1>3, <1>4, <1>7 DEF Renews
  <2>2. Stored' = [Stored EXCEPT ![d] = new]
    BY <1>1, <1>5, <1>7 DEF Stored
  <2>3. Stored[d] = row[d].material
    BY <1>1 DEF Stored
  <2>4. Custody!Replace(d)
    BY <1>0, <1>1, <1>2, <2>1, <2>2, <2>3 DEF Custody!Replace, Stored, Spare
  <2> QED BY <2>4 DEF Custody!Next
<1> QED BY <1>6, <1>7

(* Every other step of an executor holds or releases its domain, or binds  *)
(* what is stored, or is no step of the promise.                           *)
LEMMA ExecuteRefines ==
    ASSUME RenewalInv, NEW e \in Execs, Execute(e), ~Save(e)
    PROVE  Custody!Next \/ UNCHANGED Custody!custodyVars
<1> USE Before
<1> DEFINE d == DomOf(e)
<1>0. Stored' = Stored /\ d \in Domains
  BY MaterialKept
<1>1. Moves(e) /\ dm' = dm
  BY ExecuteStep DEF Good, Frames
<1>2. Spare' = Spare
  BY <1>1 DEF Spare, Unread
<1>3. CASE Deploy(e)
  <2>1. /\ ex[e].pc = "deploy" /\ ex[e].pc \in Working
        /\ inflight' = inflight
        /\ cloud' \in {cloud, [cloud EXCEPT ![d] = ex[e].cert]}
    BY <1>3 DEF Deploy, At, Working
  <2>2. d \in inflight /\ Stored[d] = ex[e].cert
    BY <1>0, <2>1 DEF Stored
  <2> HIDE DEF d
  <2>3. cloud' # cloud => Custody!Bind(d)
    BY <1>0, <1>2, <2>1, <2>2 DEF Custody!Bind, Stored, Spare
  <2> QED BY <1>0, <1>2, <2>1, <2>3, Stutters DEF Custody!Next
<1>4. CASE ~Deploy(e)
  <2>1. cloud' = cloud
    BY <1>4 DEF Execute, Lookup, Enter, Claim, Load, Prepare, Order, Save,
       Recheck, Finish, Close, Fail, Record
  <2>2. \/ inflight' = inflight
        \/ d \notin inflight /\ inflight' = inflight \cup {d}
        \/ inflight' = inflight \ {d}
    BY <1>1 DEF Moves
  <2> HIDE DEF d
  <2>3. CASE inflight' = inflight
    BY <1>0, <1>2, <2>1, <2>3, Stutters
  <2>4. CASE d \notin inflight /\ inflight' = inflight \cup {d}
    <3>1. Custody!Hold(d)
      BY <1>0, <1>2, <2>1, <2>4 DEF Custody!Hold, Stored, Spare
    <3> QED BY <1>0, <3>1 DEF Custody!Next
  <2>5. CASE inflight' = inflight \ {d}
    <3>1. Custody!Release(d)
      BY <1>0, <1>2, <2>1, <2>5 DEF Custody!Release, Stored, Spare
    <3> QED BY <1>0, <3>1 DEF Custody!Next
  <2> QED BY <2>2, <2>3, <2>4, <2>5
<1> QED BY <1>3, <1>4

(* The cycle reads what is stored and repairs from what it read.           *)
LEMMA CycleRefines ==
    ASSUME RenewalInv, Cycle
    PROVE  Custody!Next \/ UNCHANGED Custody!custodyVars
<1>0. /\ TypeOK /\ dm \in DaemonType /\ cloud \in [Domains -> Nat]
      /\ inflight' = inflight
  BY DEF RenewalInv, TypeOK, Cycle, Scan, LoadStates, Redeploy, Create,
     RedeployDone, Select, QueryBusy, CreateDone, QueryPending, CycleDone, Spawn
<1>1. CASE LoadStates /\ dm'.pc = "redeploy"
  <2>1. /\ dm' = [dm EXCEPT !.pc = "redeploy", !.todo = Domains,
                            !.copy = [d \in Domains |->
                                [managed |-> row[d].managed, retry |-> 0,
                                 material |-> row[d].material]]]
        /\ UNCHANGED <<row, cloud>>
    BY <1>0, <1>1 DEF LoadStates, DaemonType
  <2>2. Spare' = Stored
    BY <1>0, <2>1 DEF Spare, Unread, Stored, DaemonType
  <2>3. Stored' = Stored
    BY <2>1, StoredKept
  <2>4. Custody!Read
    BY <1>0, <2>1, <2>2, <2>3 DEF Custody!Read, Spare, Stored
  <2> QED BY <2>4 DEF Custody!Next
<1>2. ASSUME NEW d \in Domains, Redeploy(d)
      PROVE  Custody!Next \/ UNCHANGED Custody!custodyVars
  <2>1. /\ dm.pc = "redeploy" /\ d \in dm.todo /\ row' = row
        /\ dm'.pc = dm.pc /\ dm'.copy = dm.copy /\ dm'.todo = dm.todo \ {d}
    BY <1>0, <1>2 DEF Redeploy, DaemonAt, DaemonType
  <2>2. Stored' = Stored /\ Spare[d] = dm.copy[d].material
    BY <2>1, StoredKept DEF Spare, Unread
  <2>3. Spare' = [Spare EXCEPT ![d] = 0]
    BY <2>1 DEF Spare, Unread
  <2>4. \/ cloud' = cloud
        \/ Spare[d] > 0 /\ cloud' = [cloud EXCEPT ![d] = Spare[d]]
    BY <1>2, <2>2 DEF Redeploy, NeedsRedeploy
  <2>5. Spare[d] \in Nat
    BY <1>0, <2>2 DEF DaemonType, CopyType
  <2>6. CASE Spare[d] > 0
    <3>1. Custody!Repair(d)
      BY <1>0, <2>2, <2>3, <2>4, <2>6 DEF Custody!Repair, Stored, Spare
    <3> QED BY <3>1 DEF Custody!Next
  <2>7. CASE ~(Spare[d] > 0)
    <3>1. Spare[d] = 0
      BY <2>5, <2>7
    <3>2. Spare' = Spare
      BY <2>3, <3>1 DEF Spare
    <3> QED BY <1>0, <2>2, <2>4, <2>7, <3>2, Stutters
  <2> QED BY <2>6, <2>7
<1>3. ASSUME Stored' = Stored, cloud' = cloud, Spare' = Spare
      PROVE  UNCHANGED Custody!custodyVars
  BY <1>0, <1>3, Stutters
<1>4. CASE RedeployDone
  <2>1. dm.todo = {} /\ dm'.pc = "select" /\ UNCHANGED <<row, cloud>>
    BY <1>0, <1>4 DEF RedeployDone, DaemonType
  <2>2. Spare = [d \in Domains |-> 0]
    BY <2>1 DEF Spare, Unread
  <2> QED BY <1>3, <2>1, <2>2, SpareEmpty, StoredKept
<1>5. ASSUME NEW d \in Domains, Create(d)
      PROVE  UNCHANGED Custody!custodyVars
  <2>1. /\ dm.pc = "create" /\ dm'.pc = "create" /\ cloud' = cloud
        /\ \/ row' = row
           \/ \E k \in ErrorKinds : RecordFailure(d, k, dm.copy[d].retry)
    BY <1>0, <1>5 DEF Create, DaemonAt, DaemonType
  <2>2. ASSUME NEW k \in ErrorKinds, RecordFailure(d, k, dm.copy[d].retry)
        PROVE  Stored' = Stored
    <3>1. dm.copy[d].retry \in 0..MaxAttempts
      BY <1>0 DEF DaemonType, CopyType
    <3>2. /\ row'[d].material = row[d].material
          /\ \A c \in Domains : c # d => row'[c] = row[c]
      BY <1>0, <2>2, <3>1, RecordedRow
    <3> QED BY <3>2, StoredKept
  <2> QED BY <1>3, <2>1, <2>2, SpareEmpty, StoredKept
<1>6. CASE \/ \E usable \in SUBSET Domains : Scan(usable)
           \/ LoadStates /\ dm'.pc # "redeploy"
           \/ Select \/ QueryBusy \/ CreateDone \/ QueryPending \/ CycleDone
           \/ \E t \in Tasks : Spawn(t)
  <2>1. dm.pc # "redeploy" /\ dm'.pc # "redeploy" /\ UNCHANGED <<row, cloud>>
    BY <1>0, <1>6 DEF Scan, LoadStates, Select, QueryBusy, CreateDone,
       QueryPending, CycleDone, Spawn, DaemonAt, DaemonType
  <2> QED BY <1>3, <2>1, SpareEmpty, StoredKept
<1> QED BY <1>1, <1>2, <1>4, <1>5, <1>6 DEF Cycle

(* No request to the API touches a certificate.                            *)
LEMMA ApiRefines ==
    ASSUME RenewalInv, Api
    PROVE  UNCHANGED Custody!custodyVars
<1>0. TypeOK /\ UNCHANGED <<cloud, inflight, dm>>
  BY DEF RenewalInv, Api, Request, CheckBusy, ResetRetry, CreateManual, SetManaged
<1>1. Spare' = Spare
  BY <1>0 DEF Spare, Unread
<1>2. ASSUME NEW d \in Domains, NEW x, x.material = row[d].material,
             row' = [row EXCEPT ![d] = x]
      PROVE  Stored' = Stored
  <2>1. \A c \in Domains : row'[c].material = row[c].material
    BY <1>0, <1>2 DEF TypeOK
  <2> QED BY <2>1, StoredKept
<1>3. CASE row' = row
  BY <1>0, <1>1, <1>3, StoredKept, Stutters
<1>4. ASSUME NEW c \in Clients, ResetRetry(c)
      PROVE  Stored' = Stored
  <2>1. req[c].dom \in Domains /\ row[req[c].dom] \in RowType
    BY <1>0 DEF TypeOK, ReqType
  <2>2. Cleared(row[req[c].dom]).material = row[req[c].dom].material
    BY <2>1, ClearedRow
  <2>3. row' = row \/ row' = [row EXCEPT ![req[c].dom] = Cleared(row[req[c].dom])]
    BY <1>4 DEF ResetRetry
  <2> QED BY <1>2, <2>1, <2>2, <2>3, StoredKept
<1>5. ASSUME NEW d \in Domains, NEW managed \in BOOLEAN, SetManaged(d, managed)
      PROVE  Stored' = Stored
  <2> DEFINE x == IF managed THEN [Cleared(row[d]) EXCEPT !.managed = TRUE]
                  ELSE [row[d] EXCEPT !.managed = FALSE]
  <2>1. row[d] \in RowType
    BY <1>0 DEF TypeOK
  <2>2. x.material = row[d].material
    BY <2>1, ClearedRow DEF RowType
  <2>3. row' = [row EXCEPT ![d] = x]
    BY <1>5 DEF SetManaged
  <2> HIDE DEF x
  <2> QED BY <1>2, <2>2, <2>3
<1> QED BY <1>0, <1>1, <1>3, <1>4, <1>5, Stutters
        DEF Api, Request, CheckBusy, CreateManual

(* The environment unbinds a certificate, restarts or takes time.          *)
LEMMA EnvironmentRefines ==
    ASSUME RenewalInv, Environment
    PROVE  Custody!Next \/ UNCHANGED Custody!custodyVars
<1>0. TypeOK
  BY DEF RenewalInv
<1>1. ASSUME NEW d \in Domains, Rebind(d)
      PROVE  Custody!Next
  <2>1. /\ UNCHANGED <<row, inflight, dm>>
        /\ cloud' = [cloud EXCEPT ![d] = 0]
    BY <1>1 DEF Rebind
  <2>2. Stored' = Stored /\ Spare' = Spare
    BY <2>1 DEF Stored, Spare, Unread
  <2>3. Custody!Unbind(d)
    BY <2>1, <2>2 DEF Custody!Unbind, Stored, Spare
  <2> QED BY <2>3 DEF Custody!Next
<1>2. CASE Crash
  <2>1. UNCHANGED <<row, cloud>> /\ inflight' = {} /\ dm'.pc # "redeploy"
    BY <1>2 DEF Crash, IdleDaemon
  <2>2. Stored' = Stored /\ Spare' = [d \in Domains |-> 0]
    BY <2>1, SpareEmpty, StoredKept
  <2>3. Custody!Restart
    BY <2>1, <2>2 DEF Custody!Restart, Custody!Nothing, Stored, Spare
  <2> QED BY <2>3 DEF Custody!Next
<1>3. CASE Tick
  <2>1. /\ row \in [Domains -> RowType] /\ dm \in DaemonType
        /\ inflight' = inflight
        /\ cloud' = [d \in Domains |-> Aged(cloud[d])]
    BY <1>0, <1>3 DEF TypeOK, Tick
  <2>2. \A d \in Domains : row'[d].material = Aged(row[d].material)
    <3>1. \A d \in Domains :
             row'[d] = [row[d] EXCEPT !.next = Aged(row[d].next),
                                      !.material = Aged(row[d].material)]
      BY <1>3 DEF Tick
    <3>2. \A d \in Domains : row[d] \in RowType
      BY <2>1
    <3> QED BY <3>1, <3>2 DEF RowType
  <2>3. Stored' = [d \in Domains |-> Aged(Stored[d])]
    BY <2>2 DEF Stored
  <2>4. /\ dm'.pc = dm.pc /\ dm'.todo = dm.todo
        /\ \A d \in Domains : dm'.copy[d].material = Aged(dm.copy[d].material)
    <3> DEFINE s == [d \in Domains |-> Aged(dm.snap[d])]
    <3> DEFINE c == [d \in Domains |-> [dm.copy[d] EXCEPT !.material = Aged(@)]]
    <3>1. dm' = [dm EXCEPT !.snap = s, !.copy = c]
      BY <1>3 DEF Tick
    <3>2. \A d \in Domains : c[d].material = Aged(dm.copy[d].material)
      BY <2>1 DEF DaemonType, CopyType
    <3> HIDE DEF s, c
    <3> QED BY <2>1, <3>1, <3>2 DEF DaemonType
  <2>5. \A d \in Domains : Unread(d)' = Aged(Unread(d))
    BY <2>4 DEF Unread, Aged
  <2>6. Spare' = [d \in Domains |-> Aged(Spare[d])]
    BY <2>5 DEF Spare
  <2>7. Custody!Age
    BY <2>1, <2>3, <2>6 DEF Custody!Age, Custody!Older, Aged, Stored, Spare
  <2> QED BY <2>7 DEF Custody!Next
<1> QED BY <1>1, <1>2, <1>3 DEF Environment

(* Every step of the engine is one of the promise, or none.                *)
LEMMA StepCustody ==
    RenewalInv /\ [Next]_vars => [Custody!Next]_(Custody!custodyVars)
<1> SUFFICES ASSUME RenewalInv, [Next]_vars
             PROVE  Custody!Next \/ UNCHANGED Custody!custodyVars
  OBVIOUS
<1>1. CASE UNCHANGED vars
  <2>1. inflight' = inflight /\ cloud' = cloud /\ Stored' = Stored /\ Spare' = Spare
    BY <1>1 DEF vars, Stored, Spare, Unread
  <2> QED BY <2>1, Stutters
<1> QED BY <1>1, SaveRefines, ExecuteRefines, CycleRefines, ApiRefines,
           EnvironmentRefines DEF Next

(* The engine, for any number of domains, tasks and clients, keeps its     *)
(* promise about certificates: replaced when due, by a longer one, under   *)
(* the lock of the domain; bound only as stored or as read.                *)
THEOREM CustodyTheorem == Spec => ImplementsCustody
  BY InitInv, NextInv, InitCustody, StepCustody, PTL
     DEF Spec, ImplementsCustody, Custody!Spec

=============================================================================
