-------------------------- MODULE AcmeAccountProofs --------------------------
EXTENDS AcmeAccount, FiniteSetTheorems, TLAPS

(***************************************************************************)
(* Whatever is read from the settings, and whatever a job has in hand,     *)
(* names one account if it names any.                                      *)
(***************************************************************************)
Matches(a) ==
    a.key # NoKey /\ a.reg # NoKey => a.key = a.reg /\ a.key \in ca

IsRegistered(a) == a.reg = a.key /\ a.key \in ca

JobOK(j) ==
    /\ At(j, "build") => Matches(job[j])
    /\ At(j, "register") => job[j].key \in Keys
    /\ At(j, "save") => IsRegistered(job[j])
    /\ At(j, "use") => IsRegistered(job[j])

AccountInv ==
    /\ TypeOK
    /\ Matches(stored)
    /\ \A j \in Jobs : JobOK(j)

(* The records a job goes through are in the type.                         *)
PCs == {"idle", "build", "register", "save", "use"}
JobType == [pc : PCs, key : Keys \cup {NoKey}, reg : Keys \cup {NoKey}]

(***************************************************************************)
(* The invariant holds of every database the service may start on.         *)
(***************************************************************************)
LEMMA AccountInit ==
  ASSUME Init  PROVE AccountInv
<1>1. PICK k \in Keys :
        /\ stored \in {Empty, [key |-> k, reg |-> k], [key |-> k, reg |-> NoKey],
                       [key |-> NoKey, reg |-> k]}
        /\ ca = {stored.reg} \ {NoKey}
        /\ used = {stored.key, stored.reg} \ {NoKey}
  BY DEF Init
<1>2. stored \in AccountType
  BY <1>1 DEF AccountType, Empty
<1>3. ca \subseteq Keys /\ used \subseteq Keys
  BY <1>1, <1>2 DEF AccountType
<1>4. Matches(stored)
  BY <1>1, AccountAssumption DEF Matches, Empty
<1>5. job \in [Jobs -> JobType]
  BY DEF Init, Idle, JobType, PCs
<1>6. budget \in [lost : 0..MaxLost, faults : 0..MaxFaults,
                  crashes : 0..MaxCrashes]
  BY AccountAssumption DEF Init
<1>7. TypeOK
  BY <1>2, <1>3, <1>5, <1>6 DEF TypeOK, JobType, PCs
<1>8. ASSUME NEW j \in Jobs PROVE JobOK(j)
  BY DEF Init, Idle, JobOK, At
<1> QED
  BY <1>4, <1>7, <1>8 DEF AccountInv

(***************************************************************************)
(* A job's record may change alone: the rest of the state keeps its type.  *)
(***************************************************************************)
LEMMA JobChanges ==
  ASSUME AccountInv, NEW j \in Jobs, NEW r \in JobType,
         job' = [job EXCEPT ![j] = r],
         stored' \in AccountType, Matches(stored)',
         ca \subseteq ca', ca' \subseteq Keys, used' \subseteq Keys,
         budget' \in [lost : 0..MaxLost, faults : 0..MaxFaults,
                      crashes : 0..MaxCrashes],
         JobOK(j)'
  PROVE  AccountInv'
<1>1. job \in [Jobs -> JobType]
  BY DEF AccountInv, TypeOK, JobType, PCs
<1>2. job' \in [Jobs -> JobType]
  BY <1>1
<1>3. TypeOK'
  BY <1>2 DEF TypeOK, JobType, PCs
<1>4. ASSUME NEW i \in Jobs PROVE JobOK(i)'
  <2>1. CASE i = j
    BY <2>1
  <2>2. CASE i # j
    <3>1. job'[i] = job[i]
      BY <1>1, <2>2
    <3>2. JobOK(i)
      BY DEF AccountInv
    <3> QED BY <3>1, <3>2 DEF JobOK, At, Matches, IsRegistered
  <2> QED BY <2>1, <2>2
<1> QED
  BY <1>3, <1>4 DEF AccountInv

(* What is spent stays within its bound.                                   *)
LEMMA SpendType ==
  ASSUME AccountInv,
         \/ UNCHANGED budget
         \/ Spend("lost", MaxLost) \/ Spend("faults", MaxFaults)
         \/ Spend("crashes", MaxCrashes)
  PROVE  budget' \in [lost : 0..MaxLost, faults : 0..MaxFaults,
                      crashes : 0..MaxCrashes]
<1> DEFINE B == [lost : 0..MaxLost, faults : 0..MaxFaults, crashes : 0..MaxCrashes]
<1>1. budget \in B
  BY DEF AccountInv, TypeOK
<1>2. CASE UNCHANGED budget
  BY <1>1, <1>2
<1>3. CASE Spend("lost", MaxLost)
  <2>1. budget.lost + 1 \in 0..MaxLost
    BY <1>1, <1>3, AccountAssumption DEF Spend
  <2> QED BY <1>1, <1>3, <2>1 DEF Spend
<1>4. CASE Spend("faults", MaxFaults)
  <2>1. budget.faults + 1 \in 0..MaxFaults
    BY <1>1, <1>4, AccountAssumption DEF Spend
  <2> QED BY <1>1, <1>4, <2>1 DEF Spend
<1>5. CASE Spend("crashes", MaxCrashes)
  <2>1. budget.crashes + 1 \in 0..MaxCrashes
    BY <1>1, <1>5, AccountAssumption DEF Spend
  <2> QED BY <1>1, <1>5, <2>1 DEF Spend
<1> QED
  BY <1>2, <1>3, <1>4, <1>5

(***************************************************************************)
(* Every step of a job, and a restart, preserve the invariant.             *)
(***************************************************************************)
LEMMA AccountStep ==
  ASSUME AccountInv, [Next]_vars  PROVE AccountInv'
<1> USE AccountAssumption
<1>0. /\ job \in [Jobs -> JobType] /\ stored \in AccountType
      /\ ca \subseteq Keys /\ used \subseteq Keys /\ Matches(stored)
      /\ \A i \in Jobs : JobOK(i)
  BY DEF AccountInv, TypeOK, JobType, PCs
<1>1. ASSUME NEW j \in Jobs, ReadSettings(j) PROVE AccountInv'
  <2> DEFINE r == [pc |-> "build", key |-> stored.key, reg |-> stored.reg]
  <2>1. r \in JobType
    BY <1>0 DEF JobType, PCs, AccountType
  <2>2. job' = [job EXCEPT ![j] = r] /\ UNCHANGED <<stored, ca, used, budget>>
    BY <1>1 DEF ReadSettings
  <2>3. job'[j] = r
    BY <2>2, <1>0
  <2>4. JobOK(j)'
    BY <2>2, <2>3, <1>0 DEF JobOK, At, Matches
  <2>5. Matches(stored)'
    BY <2>2, <1>0 DEF Matches
  <2>6. budget' \in [lost : 0..MaxLost, faults : 0..MaxFaults,
                     crashes : 0..MaxCrashes]
    BY <2>2, SpendType
  <2> QED
    BY <2>1, <2>2, <2>4, <2>5, <2>6, <1>0, JobChanges
<1>2. ASSUME NEW j \in Jobs, Build(j) PROVE AccountInv'
  <2>1. UNCHANGED <<stored, ca, budget>> /\ At(j, "build")
    BY <1>2 DEF Build
  <2>2. Matches(stored)' /\ Matches(job[j])
    BY <2>1, <1>0 DEF Matches, JobOK
  <2>3. budget' \in [lost : 0..MaxLost, faults : 0..MaxFaults,
                     crashes : 0..MaxCrashes]
    BY <2>1, SpendType
  <2>4. CASE Damaged(job[j])
    <3>1. job' = [job EXCEPT ![j] = Idle] /\ UNCHANGED used
      BY <1>2, <2>4 DEF Build
    <3>2. Idle \in JobType
      BY DEF Idle, JobType, PCs
    <3>3. JobOK(j)'
      BY <3>1, <1>0 DEF JobOK, At, Idle
    <3> QED
      BY <2>1, <2>2, <2>3, <3>1, <3>2, <3>3, <1>0, JobChanges
  <2>5. CASE ~Damaged(job[j]) /\ ~NeedsRegistration(job[j])
    <3> DEFINE r == [job[j] EXCEPT !.pc = "use"]
    <3>1. job' = [job EXCEPT ![j] = r] /\ UNCHANGED used
      BY <1>2, <2>5, <1>0 DEF Build, Goto
    <3>2. job[j] \in JobType
      BY <1>0
    <3>3. r \in JobType /\ r.key = job[j].key /\ r.reg = job[j].reg /\ r.pc = "use"
      BY <3>2 DEF JobType, PCs
    <3>4. IsRegistered(job[j])
      BY <2>2, <2>5 DEF Damaged, NeedsRegistration, Matches, IsRegistered
    <3>5. job'[j] = r
      BY <3>1, <1>0
    <3>6. JobOK(j)'
      BY <3>3, <3>4, <3>5, <2>1 DEF JobOK, At, IsRegistered
    <3> HIDE DEF r
    <3> QED
      BY <2>1, <2>2, <2>3, <3>1, <3>3, <3>6, <1>0, JobChanges
  <2>6. CASE ~Damaged(job[j]) /\ NeedsRegistration(job[j])
    <3>1. PICK k \in IF job[j].key = NoKey THEN Keys \ used ELSE {job[j].key} :
            /\ job' = [job EXCEPT ![j] = [@ EXCEPT !.pc = "register", !.key = k]]
            /\ used' = used \cup {k}
      BY <1>2, <2>6 DEF Build, Damaged, NeedsRegistration
    <3>2. job[j] \in JobType
      BY <1>0
    <3>3. k \in Keys
      BY <3>1, <3>2 DEF JobType
    <3> DEFINE r == [job[j] EXCEPT !.pc = "register", !.key = k]
    <3>4. job' = [job EXCEPT ![j] = r]
      BY <3>1, <1>0
    <3>5. r \in JobType /\ r.key = k /\ r.pc = "register"
      BY <3>2, <3>3 DEF JobType, PCs
    <3>6. job'[j] = r
      BY <3>4, <1>0
    <3>7. JobOK(j)'
      BY <3>3, <3>5, <3>6 DEF JobOK, At
    <3>8. used' \subseteq Keys
      BY <3>1, <3>3, <1>0
    <3> HIDE DEF r
    <3> QED
      BY <2>1, <2>2, <2>3, <3>4, <3>5, <3>7, <3>8, <1>0, JobChanges
  <2> QED
    BY <2>4, <2>5, <2>6
<1>3. ASSUME NEW j \in Jobs, Register(j) PROVE AccountInv'
  <2> DEFINE k == job[j].key
  <2>1. UNCHANGED <<stored, used>> /\ k \in Keys
    BY <1>3, <1>0 DEF Register, JobOK
  <2>2. ca \subseteq ca' /\ ca' \subseteq Keys
    BY <1>3, <2>1, <1>0 DEF Register
  <2>3. Matches(stored)'
    BY <2>1, <2>2, <1>0 DEF Matches
  <2>4. budget' \in [lost : 0..MaxLost, faults : 0..MaxFaults,
                     crashes : 0..MaxCrashes]
    BY <1>3, SpendType DEF Register
  <2>5. CASE job' = [job EXCEPT ![j] = Idle]
    <3>1. Idle \in JobType
      BY DEF Idle, JobType, PCs
    <3>2. JobOK(j)'
      BY <2>5, <1>0 DEF JobOK, At, Idle
    <3> QED
      BY <2>1, <2>2, <2>3, <2>4, <2>5, <3>1, <3>2, <1>0, JobChanges
  <2>6. CASE /\ ca' = ca \cup {k}
             /\ job' = [job EXCEPT ![j] = [@ EXCEPT !.pc = "save", !.reg = k]]
    <3> DEFINE r == [job[j] EXCEPT !.pc = "save", !.reg = k]
    <3>1. job' = [job EXCEPT ![j] = r]
      BY <2>6, <1>0
    <3>2. job[j] \in JobType
      BY <1>0
    <3>3. r \in JobType /\ r.key = k /\ r.reg = k /\ r.pc = "save"
      BY <3>2, <2>1 DEF JobType, PCs
    <3>4. job'[j] = r
      BY <3>1, <1>0
    <3>5. JobOK(j)'
      BY <3>3, <3>4, <2>6 DEF JobOK, At, IsRegistered
    <3> HIDE DEF r
    <3> QED
      BY <2>1, <2>2, <2>3, <2>4, <3>1, <3>3, <3>5, <1>0, JobChanges
  <2> QED
    BY <1>3, <2>5, <2>6 DEF Register
<1>4. ASSUME NEW j \in Jobs, Save(j) PROVE AccountInv'
  <2> DEFINE r == [job[j] EXCEPT !.pc = "use"]
  <2>1. UNCHANGED <<ca, used>> /\ IsRegistered(job[j])
    BY <1>4, <1>0 DEF Save, JobOK
  <2>2. job' = [job EXCEPT ![j] = r]
    BY <1>4, <1>0 DEF Save, Goto
  <2>3. job[j] \in JobType
    BY <1>0
  <2>4. r \in JobType /\ r.key = job[j].key /\ r.reg = job[j].reg /\ r.pc = "use"
    BY <2>3 DEF JobType, PCs
  <2>5. job'[j] = r
    BY <2>2, <1>0
  <2>6. JobOK(j)'
    BY <2>1, <2>4, <2>5 DEF JobOK, At, IsRegistered
  <2>7. stored' \in AccountType /\ Matches(stored)'
    <3>1. CASE stored' = Saved(stored, job[j])
      BY <3>1, <2>1, <2>3 DEF Saved, AccountType, JobType, Matches, IsRegistered
    <3>2. CASE UNCHANGED stored
      BY <3>2, <2>1, <1>0 DEF Matches
    <3> QED BY <1>4, <3>1, <3>2 DEF Save
  <2>8. budget' \in [lost : 0..MaxLost, faults : 0..MaxFaults,
                     crashes : 0..MaxCrashes]
    BY <1>4, SpendType DEF Save
  <2> HIDE DEF r
  <2> QED
    BY <2>1, <2>2, <2>4, <2>6, <2>7, <2>8, <1>0, JobChanges
<1>5. ASSUME NEW j \in Jobs, Use(j) PROVE AccountInv'
  <2>1. job' = [job EXCEPT ![j] = Idle] /\ UNCHANGED <<stored, ca, used, budget>>
    BY <1>5 DEF Use
  <2>2. Idle \in JobType
    BY DEF Idle, JobType, PCs
  <2>3. JobOK(j)'
    BY <2>1, <1>0 DEF JobOK, At, Idle
  <2>4. Matches(stored)'
    BY <2>1, <1>0 DEF Matches
  <2>5. budget' \in [lost : 0..MaxLost, faults : 0..MaxFaults,
                     crashes : 0..MaxCrashes]
    BY <2>1, SpendType
  <2> QED
    BY <2>1, <2>2, <2>3, <2>4, <2>5, <1>0, JobChanges
<1>6. CASE Crash
  <2>1. job' = [j \in Jobs |-> Idle] /\ UNCHANGED <<stored, ca, used>>
    BY <1>6 DEF Crash
  <2>2. budget' \in [lost : 0..MaxLost, faults : 0..MaxFaults,
                     crashes : 0..MaxCrashes]
    BY <1>6, SpendType DEF Crash
  <2>3. job' \in [Jobs -> JobType]
    BY <2>1 DEF Idle, JobType, PCs
  <2>4. TypeOK'
    BY <2>1, <2>2, <2>3, <1>0 DEF TypeOK, JobType, PCs
  <2>5. ASSUME NEW i \in Jobs PROVE JobOK(i)'
    BY <2>1 DEF JobOK, At, Idle
  <2>6. Matches(stored)'
    BY <2>1, <1>0 DEF Matches
  <2> QED
    BY <2>4, <2>5, <2>6 DEF AccountInv
<1>7. CASE UNCHANGED vars
  BY <1>7 DEF vars, AccountInv, TypeOK, JobOK, Matches, IsRegistered, At,
              AccountType
<1> QED
  BY <1>1, <1>2, <1>3, <1>4, <1>5, <1>6, <1>7 DEF Next

(***************************************************************************)
(* The inductive invariant of ensureACMEAccount and EnsureAccount.         *)
(***************************************************************************)
THEOREM AccountInvariant == Spec => []AccountInv
  BY AccountInit, AccountStep, PTL DEF Spec

(***************************************************************************)
(* Whatever number of jobs read, register and overwrite each other, the    *)
(* two columns of the settings never hold the key of one account and the   *)
(* registration of another, nor one the CA does not know.                  *)
(***************************************************************************)
THEOREM StoredAccount == Spec => []StoredIsRegistered
<1>1. ASSUME AccountInv PROVE StoredIsRegistered
  BY <1>1 DEF AccountInv, Matches, StoredIsRegistered
<1> QED
  BY <1>1, AccountInvariant, PTL

(***************************************************************************)
(* No renewal starts with a key without an account, even when the settings *)
(* were changed or could not be saved after they were read.                *)
(***************************************************************************)
THEOREM UsedAccount == Spec => []UsedIsRegistered
<1>1. ASSUME AccountInv PROVE UsedIsRegistered
  BY <1>1 DEF AccountInv, JobOK, IsRegistered, UsedIsRegistered
<1> QED
  BY <1>1, AccountInvariant, PTL

(***************************************************************************)
(* The two columns, the keys and the records of the jobs have their types. *)
(***************************************************************************)
THEOREM AccountTyped == Spec => []TypeOK
<1>1. ASSUME AccountInv PROVE TypeOK
  BY <1>1 DEF AccountInv
<1> QED
  BY <1>1, AccountInvariant, PTL

-----------------------------------------------------------------------------
(***************************************************************************)
(* The accounts at the CA, charged to jobs and failures.  While nothing is *)
(* stored, every account was either made by a job that is about to save it *)
(* or is excused by a failure.  Once a registration is stored it stays,    *)
(* and only the jobs that read the settings before can make another: each  *)
(* of them will make at most one.                                          *)
(***************************************************************************)
\* A job in this state still registers unless something fails.
Open(a) == a.pc = "register" \/ (a.pc = "build" /\ a.reg = NoKey)

MayRegister == {j \in Jobs : Open(job[j])}
Saving == {j \in Jobs : At(j, "save")}

Failures == budget.lost + budget.faults + (budget.crashes * Cardinality(Jobs))

Charged ==
    IF stored.reg = NoKey
    THEN Cardinality(ca) <= Failures + Cardinality(Saving)
    ELSE Cardinality(ca) + Cardinality(MayRegister) <= Cardinality(Jobs) + Failures

Counted ==
    /\ IsFiniteSet(ca) /\ IsFiniteSet(MayRegister) /\ IsFiniteSet(Saving)
    /\ Cardinality(ca) \in Nat /\ Cardinality(Jobs) \in Nat
    /\ Cardinality(MayRegister) \in Nat /\ Cardinality(Saving) \in Nat
    /\ Cardinality(MayRegister) + Cardinality(Saving) <= Cardinality(Jobs)
    /\ Cardinality(Saving) <= Cardinality(Jobs)

(***************************************************************************)
(* Everything that is counted is finite, and a job that may still register *)
(* is not one that is saving.                                              *)
(***************************************************************************)
LEMMA AccountCounts ==
  ASSUME AccountInv  PROVE Counted
<1>1. ca \in SUBSET Keys /\ MayRegister \in SUBSET Jobs /\ Saving \in SUBSET Jobs
  BY DEF AccountInv, TypeOK, MayRegister, Saving
<1>2. IsFiniteSet(ca) /\ IsFiniteSet(MayRegister) /\ IsFiniteSet(Saving)
  BY <1>1, AccountAssumption, FS_Subset
<1>3. /\ Cardinality(ca) \in Nat /\ Cardinality(Jobs) \in Nat
      /\ Cardinality(MayRegister) \in Nat /\ Cardinality(Saving) \in Nat
  BY <1>2, AccountAssumption, FS_CardinalityType
<1>4. MayRegister \cap Saving = {}
  BY DEF MayRegister, Open, Saving, At
<1>5. ~(Cardinality(MayRegister) + Cardinality(Saving) > Cardinality(Jobs))
  BY <1>1, <1>4, AccountAssumption, FS_MajoritiesIntersect
<1> QED
  BY <1>2, <1>3, <1>5 DEF Counted

(* The same of the state after a step.                                     *)
LEMMA AccountCountsNext == AccountInv' => Counted'
<1>1. AccountInv => Counted
  BY AccountCounts
<1> QED
  BY <1>1, PTL

(***************************************************************************)
(* A failure is counted as one, a restart as one of every job.             *)
(***************************************************************************)
LEMMA FailuresCount ==
  ASSUME AccountInv
  PROVE  /\ Failures \in Nat
         /\ UNCHANGED budget => Failures' = Failures
         /\ Spend("lost", MaxLost) => Failures' = Failures + 1
         /\ Spend("faults", MaxFaults) => Failures' = Failures + 1
         /\ Spend("crashes", MaxCrashes) => Failures' = Failures + Cardinality(Jobs)
<1> DEFINE N == Cardinality(Jobs)
<1>1. N \in Nat
  BY AccountCounts DEF Counted
<1>2. budget \in [lost : 0..MaxLost, faults : 0..MaxFaults, crashes : 0..MaxCrashes]
  BY DEF AccountInv, TypeOK
<1>3. budget.lost \in Nat /\ budget.faults \in Nat /\ budget.crashes \in Nat
  BY <1>2, AccountAssumption
<1> HIDE DEF N
<1>4. budget.crashes * N \in Nat /\ (budget.crashes + 1) * N = budget.crashes * N + N
  BY <1>1, <1>3
<1>5. Failures = budget.lost + budget.faults + budget.crashes * N
  BY DEF Failures, N
<1>6. Failures' = budget'.lost + budget'.faults + budget'.crashes * N
  BY DEF Failures, N
<1>7. Failures \in Nat
  BY <1>3, <1>4, <1>5
<1>8. ASSUME UNCHANGED budget PROVE Failures' = Failures
  BY <1>5, <1>6, <1>8
<1>9. ASSUME Spend("lost", MaxLost) PROVE Failures' = Failures + 1
  <2>1. /\ budget'.lost = budget.lost + 1 /\ budget'.faults = budget.faults
        /\ budget'.crashes = budget.crashes
    BY <1>2, <1>9 DEF Spend
  <2>2. budget'.crashes * N = budget.crashes * N
    BY <2>1
  <2> QED BY <1>3, <1>4, <1>5, <1>6, <2>1, <2>2
<1>10. ASSUME Spend("faults", MaxFaults) PROVE Failures' = Failures + 1
  <2>1. /\ budget'.lost = budget.lost /\ budget'.faults = budget.faults + 1
        /\ budget'.crashes = budget.crashes
    BY <1>2, <1>10 DEF Spend
  <2>2. budget'.crashes * N = budget.crashes * N
    BY <2>1
  <2> QED BY <1>3, <1>4, <1>5, <1>6, <2>1, <2>2
<1>11. ASSUME Spend("crashes", MaxCrashes) PROVE Failures' = Failures + N
  <2>1. /\ budget'.lost = budget.lost /\ budget'.faults = budget.faults
        /\ budget'.crashes = budget.crashes + 1
    BY <1>2, <1>11 DEF Spend
  <2>2. budget'.crashes * N = budget.crashes * N + N
    BY <1>4, <2>1
  <2> QED BY <1>1, <1>3, <1>4, <1>5, <1>6, <2>1, <2>2
<1> QED
  BY <1>7, <1>8, <1>9, <1>10, <1>11 DEF N

(***************************************************************************)
(* What a step of one job does to the two sets of jobs.                    *)
(***************************************************************************)
LEMMA OneJobMoves ==
  ASSUME AccountInv, NEW j \in Jobs, NEW r \in JobType,
         job' = [job EXCEPT ![j] = r]
  PROVE  /\ (Open(r) <=> Open(job[j])) => MayRegister' = MayRegister
         /\ ~Open(r) => MayRegister' = MayRegister \ {j}
         /\ r.pc # "save" /\ ~At(j, "save") => Saving' = Saving
         /\ r.pc = "save" => Saving' = Saving \cup {j}
         /\ r.pc # "save" => Saving' = Saving \ {j}
<1>1. job \in [Jobs -> JobType]
  BY DEF AccountInv, TypeOK, JobType, PCs
<1>2. job'[j] = r /\ \A i \in Jobs \ {j} : job'[i] = job[i]
  BY <1>1
<1>3. \A i \in Jobs : i \in MayRegister' <=> IF i = j THEN Open(r) ELSE i \in MayRegister
  BY <1>2 DEF MayRegister
<1>4. \A i \in Jobs : i \in Saving' <=> IF i = j THEN r.pc = "save" ELSE i \in Saving
  BY <1>2 DEF Saving, At
<1>5. /\ MayRegister \subseteq Jobs /\ MayRegister' \subseteq Jobs
      /\ Saving \subseteq Jobs /\ Saving' \subseteq Jobs
  BY DEF MayRegister, Saving
<1>6. (j \in MayRegister <=> Open(job[j])) /\ (j \in Saving <=> At(j, "save"))
  BY DEF MayRegister, Saving
<1>7. (Open(r) <=> Open(job[j])) => MayRegister' = MayRegister
  BY <1>3, <1>5, <1>6 DEF Open
<1>8. ~Open(r) => MayRegister' = MayRegister \ {j}
  BY <1>3, <1>5
<1>9. r.pc # "save" /\ ~At(j, "save") => Saving' = Saving
  BY <1>4, <1>5, <1>6 DEF At
<1>10. r.pc = "save" => Saving' = Saving \cup {j}
  BY <1>4, <1>5
<1>11. r.pc # "save" => Saving' = Saving \ {j}
  BY <1>4, <1>5
<1> QED
  BY <1>7, <1>8, <1>9, <1>10, <1>11

(***************************************************************************)
(* The databases the service may start on hold one account at most.        *)
(***************************************************************************)
LEMMA ChargedInit ==
  ASSUME Init  PROVE Charged
<1>1. AccountInv
  BY AccountInit
<1>2. Failures = 0
  BY AccountCounts, <1>1 DEF Counted, Failures, Init
<1>3. MayRegister = {}
  BY DEF Init, Idle, MayRegister, Open
<1>4. Cardinality(MayRegister) = 0
  BY <1>3, FS_EmptySet
<1>5. ca = {stored.reg} \ {NoKey}
  BY DEF Init
<1>6. CASE stored.reg = NoKey
  <2>1. Cardinality(ca) = 0
    BY <1>5, <1>6, FS_EmptySet
  <2> QED BY <1>1, <1>2, <1>6, <2>1, AccountCounts DEF Charged, Counted
<1>7. CASE stored.reg # NoKey
  <2>1. Cardinality(ca) = 1
    BY <1>5, <1>7, FS_Singleton
  <2>2. Cardinality(Jobs) # 0
    BY AccountAssumption, FS_EmptySet
  <2> QED BY <1>1, <1>2, <1>4, <1>7, <2>1, <2>2, AccountCounts DEF Charged, Counted
<1> QED
  BY <1>6, <1>7

(***************************************************************************)
(* Every step keeps the account of the accounts: a registration is paid by *)
(* the job that makes it or by the failure it meets, and the update that   *)
(* first stores one leaves the other jobs one registration each.           *)
(***************************************************************************)
LEMMA ChargedStep ==
  ASSUME AccountInv, Charged, [Next]_vars  PROVE Charged'
<1> DEFINE A == Cardinality(ca)
           M == Cardinality(MayRegister)
           S == Cardinality(Saving)
           N == Cardinality(Jobs)
<1> USE AccountAssumption
<1>0. /\ job \in [Jobs -> JobType] /\ stored \in AccountType
      /\ ca \subseteq Keys /\ \A i \in Jobs : JobOK(i)
  BY DEF AccountInv, TypeOK, JobType, PCs
<1>1. AccountInv'
  BY AccountStep
<1>2. /\ IsFiniteSet(ca) /\ IsFiniteSet(MayRegister) /\ IsFiniteSet(Saving)
      /\ A \in Nat /\ M \in Nat /\ S \in Nat /\ N \in Nat
      /\ M + S <= N /\ S <= N
  BY AccountCounts DEF Counted
<1>3. A' \in Nat /\ M' \in Nat /\ S' \in Nat /\ M' + S' <= N
  BY <1>1, AccountCountsNext DEF Counted
<1>4. Failures \in Nat
  BY FailuresCount
<1>5. IF stored.reg = NoKey THEN A <= Failures + S ELSE A + M <= N + Failures
  BY DEF Charged
<1> SUFFICES IF stored'.reg = NoKey THEN A' <= Failures' + S'
             ELSE A' + M' <= N + Failures'
  BY DEF Charged
<1>6. ASSUME NEW j \in Jobs, ReadSettings(j)
      PROVE  IF stored'.reg = NoKey THEN A' <= Failures' + S'
             ELSE A' + M' <= N + Failures'
  <2> DEFINE r == [pc |-> "build", key |-> stored.key, reg |-> stored.reg]
  <2>1. /\ UNCHANGED <<stored, ca, budget>> /\ At(j, "idle")
        /\ job' = [job EXCEPT ![j] = r]
    BY <1>6 DEF ReadSettings
  <2>2. r \in JobType /\ r.pc = "build" /\ r.reg = stored.reg
    BY <1>0 DEF AccountType, JobType, PCs
  <2> HIDE DEF r
  <2>3. ~Open(job[j]) /\ ~At(j, "save") /\ (stored.reg # NoKey => ~Open(r))
    BY <2>1, <2>2 DEF Open, At
  <2>4. Saving' = Saving /\ (stored.reg # NoKey => MayRegister' = MayRegister)
    BY <2>1, <2>2, <2>3, OneJobMoves
  <2>5. Failures' = Failures
    BY <2>1, FailuresCount
  <2> QED
    BY <1>5, <2>1, <2>4, <2>5
<1>7. ASSUME NEW j \in Jobs, Build(j)
      PROVE  IF stored'.reg = NoKey THEN A' <= Failures' + S'
             ELSE A' + M' <= N + Failures'
  <2>1. UNCHANGED <<stored, ca, budget>> /\ At(j, "build")
    BY <1>7 DEF Build
  <2>2. ~At(j, "save") /\ (Open(job[j]) <=> job[j].reg = NoKey)
    BY <2>1 DEF At, Open
  <2>3. PICK r \in JobType :
          /\ job' = [job EXCEPT ![j] = r]
          /\ r.pc \in {"idle", "use"} \/ (r.pc = "register" /\ job[j].reg = NoKey)
    <3>1. job[j] \in JobType
      BY <1>0
    <3>2. CASE Damaged(job[j])
      <4>1. job' = [job EXCEPT ![j] = Idle]
        BY <1>7, <3>2 DEF Build
      <4>2. Idle \in JobType /\ Idle.pc = "idle"
        BY DEF Idle, JobType, PCs
      <4> QED BY <4>1, <4>2
    <3>3. CASE ~Damaged(job[j]) /\ ~NeedsRegistration(job[j])
      <4>1. job' = [job EXCEPT ![j] = [job[j] EXCEPT !.pc = "use"]]
        BY <1>7, <3>3, <1>0 DEF Build, Goto
      <4>2. /\ [job[j] EXCEPT !.pc = "use"] \in JobType
            /\ [job[j] EXCEPT !.pc = "use"].pc = "use"
        BY <3>1 DEF JobType, PCs
      <4> QED BY <4>1, <4>2
    <3>4. CASE ~Damaged(job[j]) /\ NeedsRegistration(job[j])
      <4>1. PICK k \in IF job[j].key = NoKey THEN Keys \ used ELSE {job[j].key} :
              job' = [job EXCEPT ![j] = [@ EXCEPT !.pc = "register", !.key = k]]
        BY <1>7, <3>4 DEF Build
      <4>2. job' = [job EXCEPT ![j] = [job[j] EXCEPT !.pc = "register", !.key = k]]
        BY <4>1, <1>0
      <4>3. k \in Keys \cup {NoKey}
        BY <4>1, <3>1 DEF JobType
      <4>4. /\ [job[j] EXCEPT !.pc = "register", !.key = k] \in JobType
            /\ [job[j] EXCEPT !.pc = "register", !.key = k].pc = "register"
        BY <3>1, <4>3 DEF JobType, PCs
      <4>5. job[j].reg = NoKey
        BY <3>4 DEF NeedsRegistration
      <4> QED BY <4>2, <4>4, <4>5
    <3> QED BY <3>2, <3>3, <3>4
  <2>4. r.pc # "save" /\ (Open(r) => Open(job[j]))
    BY <2>2, <2>3 DEF Open
  <2>5. Saving' = Saving /\ MayRegister' \in SUBSET MayRegister
    <3>1. Saving' = Saving
      BY <2>2, <2>3, <2>4, OneJobMoves
    <3>2. MayRegister' = MayRegister \/ MayRegister' = MayRegister \ {j}
      BY <2>3, <2>4, OneJobMoves
    <3> QED BY <3>1, <3>2
  <2>6. M' <= M
    BY <2>5, <1>2, FS_Subset
  <2>7. Failures' = Failures
    BY <2>1, FailuresCount
  <2> QED
    BY <1>2, <1>3, <1>4, <1>5, <2>1, <2>5, <2>6, <2>7
<1>8. ASSUME NEW j \in Jobs, Register(j)
      PROVE  IF stored'.reg = NoKey THEN A' <= Failures' + S'
             ELSE A' + M' <= N + Failures'
  <2>1. stored' = stored /\ At(j, "register")
    BY <1>8 DEF Register
  <2>2. j \in MayRegister /\ j \notin Saving /\ ~At(j, "save")
    BY <2>1 DEF MayRegister, Open, Saving, At
  <2>3. A' <= A + 1
    <3>1. ca' = ca \/ ca' = ca \cup {job[j].key}
      BY <1>8 DEF Register
    <3>2. \/ Cardinality(ca \cup {job[j].key}) = A
          \/ Cardinality(ca \cup {job[j].key}) = A + 1
      BY <1>2, FS_AddElement
    <3> QED BY <3>1, <3>2, <1>2
  <2>4. Cardinality(MayRegister \ {j}) = M - 1
    BY <1>2, <2>2, FS_RemoveElement
  <2>5. CASE Spend("lost", MaxLost) /\ job' = [job EXCEPT ![j] = Idle]
    <3>1. Idle \in JobType /\ Idle.pc = "idle"
      BY DEF Idle, JobType, PCs
    <3>2. Saving' = Saving /\ MayRegister' = MayRegister \ {j}
      BY <2>2, <2>5, <3>1, OneJobMoves DEF Open
    <3>3. Failures' = Failures + 1
      BY <2>5, FailuresCount
    <3>4. S' = S /\ M' = M - 1
      BY <3>2, <2>4
    <3> QED
      BY <1>2, <1>3, <1>4, <1>5, <2>1, <2>3, <3>3, <3>4
  <2>6. CASE /\ UNCHANGED budget
             /\ job' = [job EXCEPT ![j] = [@ EXCEPT !.pc = "save", !.reg = job[j].key]]
    <3> DEFINE r == [job[j] EXCEPT !.pc = "save", !.reg = job[j].key]
    <3>1. job' = [job EXCEPT ![j] = r]
      BY <2>6, <1>0
    <3>2. r \in JobType /\ r.pc = "save"
      BY <1>0 DEF JobType, PCs
    <3> HIDE DEF r
    <3>3. Saving' = Saving \cup {j} /\ MayRegister' = MayRegister \ {j}
      BY <3>1, <3>2, OneJobMoves DEF Open
    <3>4. S' = S + 1 /\ M' = M - 1
      BY <1>2, <2>2, <2>4, <3>3, FS_AddElement
    <3>5. Failures' = Failures
      BY <2>6, FailuresCount
    <3> QED
      BY <1>2, <1>3, <1>4, <1>5, <2>1, <2>3, <3>4, <3>5
  <2> QED
    BY <1>8, <2>5, <2>6 DEF Register
<1>9. ASSUME NEW j \in Jobs, Save(j)
      PROVE  IF stored'.reg = NoKey THEN A' <= Failures' + S'
             ELSE A' + M' <= N + Failures'
  <2> DEFINE r == [job[j] EXCEPT !.pc = "use"]
  <2>1. ca' = ca /\ At(j, "save") /\ job' = [job EXCEPT ![j] = r]
    BY <1>9, <1>0 DEF Save, Goto
  <2>2. r \in JobType /\ r.pc = "use"
    BY <1>0 DEF JobType, PCs
  <2> HIDE DEF r
  <2>3. j \in Saving /\ ~Open(job[j]) /\ ~Open(r)
    BY <2>1, <2>2 DEF Saving, Open, At
  <2>4. MayRegister' = MayRegister /\ Saving' = Saving \ {j}
    BY <2>1, <2>2, <2>3, OneJobMoves
  <2>5. A' = A /\ M' = M /\ S' = S - 1
    BY <1>2, <2>1, <2>3, <2>4, FS_RemoveElement
  <2>6. CASE UNCHANGED stored /\ Spend("faults", MaxFaults)
    <3>1. Failures' = Failures + 1
      BY <2>6, FailuresCount
    <3> QED
      BY <1>2, <1>3, <1>4, <1>5, <2>5, <2>6, <3>1
  <2>7. CASE stored' = Saved(stored, job[j]) /\ UNCHANGED budget
    <3>1. Failures' = Failures
      BY <2>7, FailuresCount
    <3>2. IsRegistered(job[j])
      BY <2>1, <1>0 DEF JobOK
    <3>3. stored'.reg # NoKey
      BY <2>7, <3>2, <1>0 DEF Saved, IsRegistered
    <3> QED
      BY <1>2, <1>3, <1>4, <1>5, <2>5, <3>1, <3>3
  <2> QED
    BY <1>9, <2>6, <2>7 DEF Save
<1>10. ASSUME NEW j \in Jobs, Use(j)
       PROVE  IF stored'.reg = NoKey THEN A' <= Failures' + S'
              ELSE A' + M' <= N + Failures'
  <2>1. /\ UNCHANGED <<stored, ca, budget>> /\ At(j, "use")
        /\ job' = [job EXCEPT ![j] = Idle]
    BY <1>10 DEF Use
  <2>2. Idle \in JobType /\ Idle.pc = "idle"
    BY DEF Idle, JobType, PCs
  <2>3. ~Open(job[j]) /\ ~At(j, "save") /\ ~Open(Idle)
    BY <2>1, <2>2 DEF Open, At
  <2>4. Saving' = Saving /\ MayRegister' = MayRegister
    BY <2>1, <2>2, <2>3, OneJobMoves
  <2>5. Failures' = Failures
    BY <2>1, FailuresCount
  <2> QED
    BY <1>5, <2>1, <2>4, <2>5
<1>11. CASE Crash
  <2>1. stored' = stored /\ ca' = ca /\ job' = [i \in Jobs |-> Idle]
    BY <1>11 DEF Crash
  <2>2. MayRegister' = {} /\ Saving' = {}
    BY <2>1 DEF MayRegister, Open, Saving, At, Idle
  <2>3. M' = 0 /\ S' = 0
    BY <2>2, FS_EmptySet
  <2>4. Failures' = Failures + N
    BY <1>11, FailuresCount DEF Crash
  <2> QED
    BY <1>2, <1>4, <1>5, <2>1, <2>3, <2>4
<1>12. CASE UNCHANGED vars
  <2>1. UNCHANGED <<stored, ca, budget, MayRegister, Saving>>
    BY <1>12 DEF vars, MayRegister, Open, Saving, At
  <2>2. Failures' = Failures
    BY <2>1, FailuresCount
  <2> QED
    BY <1>5, <2>1, <2>2
<1> QED
  BY <1>6, <1>7, <1>8, <1>9, <1>10, <1>11, <1>12 DEF Next

(***************************************************************************)
(* However many jobs, failures and restarts overlap, the service makes no  *)
(* more accounts than one for every job, one more for every failure and    *)
(* one more for every job that a restart cut off: EnsureAccount does not   *)
(* register in a loop, although no lock keeps two jobs from registering.   *)
(***************************************************************************)
THEOREM RegistrationsArePaidFor == Spec => []RegistrationsBounded
<1>1. Init => AccountInv /\ Charged
  BY AccountInit, ChargedInit
<1>2. AccountInv /\ Charged /\ [Next]_vars => (AccountInv /\ Charged)'
  BY AccountStep, ChargedStep
<1>3. ASSUME AccountInv, Charged PROVE RegistrationsBounded
  <2>1. /\ Cardinality(ca) \in Nat /\ Cardinality(Jobs) \in Nat
        /\ Cardinality(MayRegister) \in Nat /\ Cardinality(Saving) \in Nat
        /\ Cardinality(Saving) <= Cardinality(Jobs)
    BY <1>3, AccountCounts DEF Counted
  <2>2. Failures \in Nat
    BY <1>3, FailuresCount
  <2>3. Cardinality(ca) <= Cardinality(Jobs) + Failures
    BY <1>3, <2>1, <2>2 DEF Charged
  <2>4. /\ budget.lost \in Nat /\ budget.faults \in Nat
        /\ budget.crashes * Cardinality(Jobs) \in Nat
    BY <1>3, <2>1, AccountAssumption DEF AccountInv, TypeOK
  <2> QED
    BY <2>1, <2>3, <2>4 DEF RegistrationsBounded, Failures
<1> QED
  BY <1>1, <1>2, <1>3, PTL DEF Spec
=============================================================================
