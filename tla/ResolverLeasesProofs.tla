------------------------ MODULE ResolverLeasesProofs ------------------------
(***************************************************************************)
(* The resolver lease is exclusive between configurations, loses no        *)
(* wake-up, never closes a channel twice, and implements DnsClientLease,   *)
(* for any number of issues, configurations and channels.                  *)
(***************************************************************************)
EXTENDS ResolverLeases, FiniteSetTheorems, TLAPS

USE LeaseAssumption

(* The holders can be counted.                                             *)
LEMMA HoldersFinite == IsFiniteSet(Holders)
<1>1. Holders \subseteq Issues
  BY DEF Holders
<1> QED BY <1>1, FS_Subset

(* l.active == 0 says that nobody uses the client.                         *)
LEMMA NoneActive == LeaseInv => (active = 0 <=> Holders = {})
  BY HoldersFinite, FS_EmptySet DEF LeaseInv

(* Init establishes the invariant.                                         *)
LEMMA InitInv == Init => LeaseInv
<1> SUFFICES ASSUME Init PROVE LeaseInv
  OBVIOUS
<1>1. TypeOK
  BY DEF Init, TypeOK, IssueType, Resting
<1>2. Holders = {}
  BY DEF Init, Holders, Resting
<1>3. active = Cardinality(Holders)
  BY <1>2, FS_EmptySet DEF Init
<1>4. NoLostWakeup
  BY DEF Init, NoLostWakeup, Resting
<1>5. WantsAConfig
  BY DEF Init, WantsAConfig, Resting
<1> QED BY <1>1, <1>2, <1>3, <1>4, <1>5 DEF LeaseInv, ClientIsMine, NoDoubleClose

(* Every critical section of the lease preserves the invariant.            *)
LEMMA StepInv == LeaseInv /\ [Next]_vars => LeaseInv'
<1> SUFFICES ASSUME LeaseInv, [Next]_vars PROVE LeaseInv'
  OBVIOUS
<1> USE DEF LeaseInv
<1>w. WantsAConfig'
  <2>1. CASE UNCHANGED vars
    BY <2>1 DEF vars, WantsAConfig
  <2>2. ASSUME NEW i \in Issues, NEW c \in Configs, Start(i, c) PROVE WantsAConfig'
    BY <2>2 DEF Start, WantsAConfig, TypeOK
  <2>3. ASSUME NEW i \in Issues, Grant(i) \/ Park(i) \/ Wake(i) PROVE WantsAConfig'
    <3> SUFFICES ASSUME NEW j \in Issues, issue'[j].pc # "rest"
                 PROVE  issue'[j].want \in Configs
      BY DEF WantsAConfig
    <3>1. issue[i].pc # "rest" /\ issue[i].want \in Configs
      BY <2>3 DEF Grant, Park, Wake, WantsAConfig
    <3>2. issue'[i].want = issue[i].want
      <4>1. CASE Grant(i)
        BY <4>1 DEF Grant, TypeOK, IssueType
      <4>2. CASE Park(i)
        BY <4>2 DEF Park, TypeOK, IssueType
      <4>3. CASE Wake(i)
        BY <4>3 DEF Wake, TypeOK, IssueType
      <4> QED BY <2>3, <4>1, <4>2, <4>3
    <3>3. j # i => issue'[j] = issue[j]
      BY <2>3 DEF Grant, Park, Wake, TypeOK
    <3> QED BY <3>1, <3>2, <3>3 DEF WantsAConfig
  <2>4. ASSUME NEW i \in Issues, Cancel(i) \/ Release(i) PROVE WantsAConfig'
    BY <2>4 DEF Cancel, Release, Resting, WantsAConfig, TypeOK
  <2> QED BY <2>1, <2>2, <2>3, <2>4 DEF Next
<1>1. ASSUME NEW i \in Issues, NEW c \in Configs, Start(i, c) PROVE LeaseInv'
  <2>1. TypeOK'
    <3>1. [issue[i] EXCEPT !.pc = "acquire", !.want = c] \in IssueType
      BY DEF TypeOK, IssueType
    <3> QED BY <1>1, <3>1 DEF TypeOK, Start
  <2>2. Holders' = Holders
    BY <1>1 DEF TypeOK, Holders, Start
  <2>3. ClientIsMine'
    BY <1>1, <2>2 DEF TypeOK, Start, ClientIsMine, Holders
  <2>4. NoDoubleClose'
    BY <1>1, <2>2 DEF Start, NoDoubleClose
  <2>5. NoLostWakeup'
    BY <1>1, <2>2 DEF TypeOK, Start, NoLostWakeup
  <2> QED BY <1>1, <2>1, <2>2, <2>3, <2>4, <2>5, <1>w DEF Start
<1>2. ASSUME NEW i \in Issues, Grant(i) PROVE LeaseInv'
  <2>1. TypeOK'
    BY <1>2 DEF TypeOK, IssueType, Grant
  <2>2. i \notin Holders /\ Holders' = Holders \cup {i}
    BY <1>2 DEF TypeOK, Holders, Grant
  <2>3. active' = Cardinality(Holders')
    BY <1>2, <2>2, HoldersFinite, FS_AddElement DEF Grant
  <2>4. ClientIsMine'
    <3>1. \A j \in Holders : issue[j].want = issue[i].want
      BY <1>2, NoneActive DEF Grant, MayShare, ClientIsMine
    <3> QED BY <1>2, <2>2, <3>1, NoneActive
         DEF Grant, MayShare, ClientIsMine, TypeOK, Holders
  <2>5. NoDoubleClose'
    BY <1>2, NoneActive DEF Grant, NoDoubleClose, TypeOK
  <2>6. NoLostWakeup'
    <3> SUFFICES ASSUME NEW j \in Issues, issue'[j].pc = "wait"
                 PROVE  (issue[j].on \in closed' \/ issue[j].on = idle')
                        /\ issue'[j] = issue[j]
      BY <2>2 DEF NoLostWakeup
    <3>1. j # i /\ issue'[j] = issue[j] /\ issue[j].pc = "wait"
      BY <1>2 DEF Grant, TypeOK
    <3>2. CASE active = 0
      <4>1. issue[j].on \in closed
        BY <3>1, <3>2, NoneActive DEF NoLostWakeup
      <4> QED BY <1>2, <3>1, <3>2, <4>1 DEF Grant, Unreferenced
    <3>3. CASE active # 0
      BY <1>2, <3>1, <3>3 DEF Grant, NoLostWakeup
    <3> QED BY <3>2, <3>3
  <2> QED BY <2>1, <2>3, <2>4, <2>5, <2>6, <1>w
<1>3. ASSUME NEW i \in Issues, Park(i) PROVE LeaseInv'
  <2>1. TypeOK'
    <3>1. issue' \in [Issues -> IssueType]
      BY <1>3 DEF TypeOK, IssueType, Park
    <3> QED BY <1>3, <3>1 DEF TypeOK, Park
  <2>2. Holders' = Holders
    BY <1>3 DEF TypeOK, Holders, Park
  <2>3. ClientIsMine' /\ NoDoubleClose'
    BY <1>3, <2>2 DEF TypeOK, Park, ClientIsMine, NoDoubleClose, Holders
  <2>4. Holders # {}
    BY <1>3, NoneActive DEF Park, MayShare
  <2>5. NoLostWakeup'
    BY <1>3, <2>2, <2>4 DEF TypeOK, Park, NoLostWakeup
  <2> QED BY <1>3, <2>1, <2>2, <2>3, <2>5, <1>w DEF Park
<1>4. ASSUME NEW i \in Issues, Wake(i) PROVE LeaseInv'
  <2>1. TypeOK'
    <3>1. issue' \in [Issues -> IssueType]
      BY <1>4 DEF TypeOK, IssueType, Wake
    <3> QED BY <1>4, <3>1 DEF TypeOK, Wake
  <2>2. Holders' = Holders
    BY <1>4 DEF TypeOK, Holders, Wake
  <2>3. ClientIsMine'
    BY <1>4, <2>2 DEF TypeOK, Wake, ClientIsMine, Holders
  <2>4. NoDoubleClose'
    BY <1>4, <2>2 DEF Wake, NoDoubleClose
  <2>5. NoLostWakeup'
    BY <1>4, <2>2 DEF TypeOK, Wake, NoLostWakeup
  <2> QED BY <1>4, <2>1, <2>2, <2>3, <2>4, <2>5, <1>w DEF Wake
<1>5. ASSUME NEW i \in Issues, Cancel(i) PROVE LeaseInv'
  <2>1. TypeOK'
    BY <1>5 DEF TypeOK, IssueType, Cancel, Resting
  <2>2. Holders' = Holders
    BY <1>5 DEF TypeOK, Holders, Cancel, Resting
  <2>3. ClientIsMine'
    BY <1>5, <2>2 DEF TypeOK, Cancel, Resting, ClientIsMine, Holders
  <2>4. NoDoubleClose'
    BY <1>5, <2>2 DEF Cancel, NoDoubleClose
  <2>5. NoLostWakeup'
    BY <1>5, <2>2 DEF TypeOK, Cancel, Resting, NoLostWakeup
  <2> QED BY <1>5, <2>1, <2>2, <2>3, <2>4, <2>5, <1>w DEF Cancel
<1>6. ASSUME NEW i \in Issues, Release(i) PROVE LeaseInv'
  <2>1. TypeOK'
    BY <1>6 DEF TypeOK, IssueType, Release, Resting, LastOut
  <2>2. i \in Holders /\ Holders' = Holders \ {i}
    BY <1>6 DEF TypeOK, Holders, Release, Resting
  <2>3. active' = Cardinality(Holders')
    BY <1>6, <2>2, HoldersFinite, FS_RemoveElement DEF Release
  <2>4. active' = 0 <=> Holders' = {}
    BY <2>2, <2>3, HoldersFinite, FS_EmptySet, FS_Subset
  <2>5. ClientIsMine' /\ NoDoubleClose'
    BY <1>6, <2>2, <2>4 DEF TypeOK, Release, Resting, LastOut, ClientIsMine, NoDoubleClose, Holders
  <2>6. NoLostWakeup'
    BY <1>6, <2>4 DEF TypeOK, Release, Resting, LastOut, NoLostWakeup
  <2> QED BY <2>1, <2>3, <2>5, <2>6, <1>w
<1>7. CASE UNCHANGED vars
  BY <1>7, <1>w DEF vars, TypeOK, Holders, ClientIsMine, NoDoubleClose, NoLostWakeup
<1> QED BY <1>1, <1>2, <1>3, <1>4, <1>5, <1>6, <1>7 DEF Next

(* Every issue in progress has the global DNS client for its resolvers.    *)
THEOREM ClientTheorem == Spec => []ClientIsMine
<1>1. LeaseInv => ClientIsMine
  BY DEF LeaseInv
<1> QED BY <1>1, InitInv, StepInv, PTL DEF Spec

(* release never closes a closed or a nil channel.                         *)
THEOREM CloseTheorem == Spec => []NoDoubleClose
<1>1. LeaseInv => NoDoubleClose
  BY DEF LeaseInv
<1> QED BY <1>1, InitInv, StepInv, PTL DEF Spec

(* A waiter's channel is closed, or will be by one of the holders.         *)
THEOREM WakeupTheorem == Spec => []NoLostWakeup
<1>1. LeaseInv => NoLostWakeup
  BY DEF LeaseInv
<1> QED BY <1>1, InitInv, StepInv, PTL DEF Spec

-----------------------------------------------------------------------------
(* Refinement.                                                             *)

(* The unconfigured lease is the initial state of the abstract one.        *)
LEMMA InitRefines == Init => Lease!Init
  BY DEF Init, Lease!Init, Resting

(* A grant is an acquisition, a release a release, all else a stutter.     *)
LEMMA StepRefines == LeaseInv /\ [Next]_vars => [Lease!Next]_(Lease!leaseVars)
<1> DEFINE users == [j \in Issues |->
                       IF issue[j].pc = "hold" THEN issue[j].want ELSE NoConfig]
<1> SUFFICES ASSUME LeaseInv, [Next]_vars
             PROVE  Lease!Next \/ (users' = users /\ resolvers' = resolvers)
  BY DEF Lease!leaseVars
<1> USE DEF LeaseInv
<1>1. ASSUME NEW i \in Issues, NEW c \in Configs, Start(i, c)
      PROVE  users' = users /\ resolvers' = resolvers
  BY <1>1 DEF Start, TypeOK
<1>2. ASSUME NEW i \in Issues, Park(i) \/ Wake(i) \/ Cancel(i)
      PROVE  users' = users /\ resolvers' = resolvers
  <2>1. \A j \in Issues : issue'[j].pc = "hold" <=> issue[j].pc = "hold"
    <3>1. CASE Park(i)
      BY <3>1 DEF Park, TypeOK
    <3>2. CASE Wake(i)
      BY <3>2 DEF Wake, TypeOK
    <3>3. CASE Cancel(i)
      BY <3>3 DEF Cancel, Resting, TypeOK
    <3> QED BY <1>2, <3>1, <3>2, <3>3
  <2>2. \A j \in Issues : issue'[j].pc = "hold" => issue'[j] = issue[j]
    <3>1. issue'[i].pc # "hold"
      <4>1. CASE Park(i)
        BY <4>1 DEF Park, TypeOK
      <4>2. CASE Wake(i)
        BY <4>2 DEF Wake, TypeOK
      <4>3. CASE Cancel(i)
        BY <4>3 DEF Cancel, Resting, TypeOK
      <4> QED BY <1>2, <4>1, <4>2, <4>3
    <3>2. \A j \in Issues : j # i => issue'[j] = issue[j]
      BY <1>2 DEF Park, Wake, Cancel, TypeOK
    <3> QED BY <3>1, <3>2
  <2>3. users' = users
    BY <2>1, <2>2
  <2> QED BY <1>2, <2>3 DEF Park, Wake, Cancel
<1>3. ASSUME NEW i \in Issues, Grant(i), NEW c \in Configs, c = issue[i].want
      PROVE  Lease!Acquire(i, c)
  <2>0. users[i] = NoConfig
    BY <1>3 DEF Grant
  <2>1. \A j \in Issues : users[j] \in {NoConfig, c}
    BY <1>3, NoneActive DEF Grant, MayShare, ClientIsMine, Holders
  <2>2. resolvers' = c
    BY <1>3 DEF Grant, MayShare
  <2>3. users' = [users EXCEPT ![i] = c]
    <3>1. issue'[i].pc = "hold" /\ issue'[i].want = c
      BY <1>3 DEF Grant, TypeOK, IssueType
    <3>2. \A j \in Issues : j # i => issue'[j] = issue[j]
      BY <1>3 DEF Grant, TypeOK
    <3> QED BY <3>1, <3>2
  <2> QED BY <2>0, <2>1, <2>2, <2>3 DEF Lease!Acquire
<1>4. ASSUME NEW i \in Issues, Release(i)
      PROVE  Lease!Release(i)
  <2>0. users[i] # NoConfig
    BY <1>4 DEF Release, WantsAConfig
  <2>1. users' = [users EXCEPT ![i] = NoConfig]
    BY <1>4 DEF Release, Resting, TypeOK
  <2> QED BY <1>4, <2>0, <2>1 DEF Lease!Release, Release
<1>5. CASE UNCHANGED vars
  BY <1>5 DEF vars
<1> QED
  <2>1. CASE Next
    <3>1. PICK i \in Issues :
            \/ \E c \in Configs : Start(i, c)
            \/ Grant(i) \/ Park(i) \/ Wake(i) \/ Cancel(i) \/ Release(i)
      BY <2>1 DEF Next
    <3>2. ASSUME Grant(i) PROVE Lease!Next
      <4>1. PICK c \in Configs : c = issue[i].want
        BY <3>2 DEF Grant, WantsAConfig
      <4>2. Lease!Acquire(i, c)
        BY <1>3, <3>2, <4>1
      <4> QED BY <4>2 DEF Lease!Next
    <3>3. Release(i) => Lease!Next
      BY <1>4 DEF Lease!Next
    <3> QED BY <3>1, <3>2, <3>3, <1>1, <1>2
  <2> QED BY <1>5, <2>1

(* acquire and release implement the shared lease of DnsClientLease.       *)
THEOREM RefinementTheorem == Spec => ImplementsLease
BY InitInv, StepInv, InitRefines, StepRefines, PTL
   DEF Spec, ImplementsLease, Lease!Spec
=============================================================================
