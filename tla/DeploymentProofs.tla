-------------------------- MODULE DeploymentProofs --------------------------
EXTENDS Deployment, TLAPS

(***************************************************************************)
(* A usable observation names the place where the domain is, as long as it *)
(* did not move.                                                           *)
(***************************************************************************)
Locates(info) ==
    /\ DeployTarget(info) = "cdn" => cdnAt = info.account
    /\ DeployTarget(info) = "oss" => ossAt = info.account /\ cdnAt = 0

Sound(o) == o \in Observation /\ o.stayed => Locates(o.info)

(* What a writer that may write has in hand.                               *)
WriterOK(w) ==
    /\ Sound(writer[w].obs)
    /\ writer[w].cert <= issued
    /\ writer[w].pc \in {"preflight", "recheck", "rows", "check", "write", "clean"}
       => writer[w].obs \in Observation
    /\ writer[w].pc \in {"write", "clean"} /\ writer[w].checked
       => Accepts(writer[w].obs.info)
    /\ writer[w].pc = "clean" => CleansUp(writer[w].obs.info)

(* What the executor deploys is in the row, and nothing newer is.          *)
ExecutorOK ==
    /\ X.pc \notin {"rows", "check"}
    /\ X.pc = "save" => X.cert >= stored
    /\ X.pc \in {"confirm", "recheck", "write", "clean"} => X.cert = stored /\ stored > 0

(* The redeployer has a row that was current when its cycle read it.       *)
RedeployerOK ==
    /\ R.pc \in {"idle", "rows", "check", "preflight", "write", "clean"}
    /\ R.cert <= stored

DeploymentInv ==
    /\ TypeOK
    /\ Sound(cached)
    /\ \A w \in Writers : WriterOK(w)
    /\ ExecutorOK /\ RedeployerOK
    /\ SavedBeforeDeployed

-----------------------------------------------------------------------------
(* A usable observation differs from the two others.                       *)
LEMMA UnusableIsNone ==
  /\ Absent \notin Info
  /\ Unusable \notin Observation
  /\ Nothing \notin Observation
  /\ Nothing # Unusable
<1>1. Absent \notin Info
  BY DEF Absent, Info
<1>2. Unusable \notin Observation
  BY <1>1 DEF Unusable, Observation
<1>3. "stayed" \notin DOMAIN Nothing
  BY DEF Nothing
<1>4. \A o \in Observation \cup {Unusable} : "stayed" \in DOMAIN o
  BY DEF Observation, Unusable
<1> QED
  BY <1>1, <1>2, <1>3, <1>4

(* The only bucket of an account is the first of its hits.                 *)
LEMMA OnlyBucket == Min({1}) = 1 /\ Max({1}) = 1 /\ 1 \in Buckets
<1>1. Min({1}) = 1
  BY DEF Min
<1>2. Max({1}) = 1
  BY DEF Max
<1> QED
  BY <1>1, <1>2, InventoryAssumption DEF Buckets

(***************************************************************************)
(* What a scan says of the domain: it is usable only if it names the place *)
(* where the domain is.  A domain in a bucket is on no CDN then, because   *)
(* the CDN of every account was read.                                      *)
(***************************************************************************)
LEMMA ScanSoundness ==
  ASSUME ossAt \in Accounts \cup {0}, cdnAt \in Accounts \cup {0},
         NEW oss \in SUBSET Accounts, NEW cdn \in SUBSET Accounts,
         NEW known \in BOOLEAN
  PROVE  /\ Scanned(oss, cdn, known) \in Observation \cup {Unusable}
         /\ Sound(Scanned(oss, cdn, known))
<1> DEFINE InBucket(info) == IF ossAt \in oss
                             THEN MergeOSS(info, ossAt, {1}, known) ELSE info
           OnCDN(info) == IF cdnAt \in cdn THEN MergeCDN(info, cdnAt, known) ELSE info
           info == IF cdnAt < ossAt THEN InBucket(OnCDN(Absent))
                                    ELSE OnCDN(InBucket(Absent))
           bucket == [origin |-> "oss", account |-> ossAt,
                      oss |-> [account |-> ossAt, bucket |-> 1],
                      certKnown |-> known, ambiguous |-> FALSE]
           domain == [origin |-> "cdn", account |-> cdnAt, oss |-> NoBinding,
                      certKnown |-> known, ambiguous |-> FALSE]
           behind == [origin |-> "both", account |-> cdnAt,
                      oss |-> [account |-> ossAt, bucket |-> 1],
                      certKnown |-> known, ambiguous |-> FALSE]
<1>1. bucket \in Info \/ ossAt \notin oss
  BY OnlyBucket DEF Info, Binding
<1>2. domain \in Info \/ cdnAt \notin cdn
  BY DEF Info
<1>3. behind \in Info \/ ossAt \notin oss \/ cdnAt \notin cdn
  BY OnlyBucket DEF Info, Binding
<1>4. /\ MergeOSS(Absent, ossAt, {1}, known) = bucket
      /\ MergeCDN(Absent, cdnAt, known) = domain
  BY OnlyBucket DEF MergeOSS, MergeCDN
<1>5. bucket # Absent /\ domain # Absent
  BY DEF Absent
<1>6. MergeCDN(bucket, cdnAt, known) = behind
  BY <1>5 DEF MergeCDN, DeployTarget
<1>7. MergeOSS(domain, ossAt, {1}, known) = behind
  BY <1>5, OnlyBucket DEF MergeOSS, DeployTarget
<1>8. info = IF ossAt \in oss /\ cdnAt \in cdn THEN behind
             ELSE IF ossAt \in oss THEN bucket
             ELSE IF cdnAt \in cdn THEN domain ELSE Absent
  BY <1>4, <1>5, <1>6, <1>7
<1>9. Scanned(oss, cdn, known) =
        IF info # Absent /\ Deployable(info, Accounts \subseteq cdn) /\ info.certKnown
        THEN [info |-> info, stayed |-> TRUE] ELSE Unusable
  BY DEF Scanned
<1>10. CASE info = Absent
  BY <1>9, <1>10, UnusableIsNone DEF Sound
<1>11. CASE info # Absent
  <2>1. info \in Info
    BY <1>1, <1>2, <1>3, <1>8, <1>11
  <2>2. Deployable(info, Accounts \subseteq cdn) => Locates(info)
    BY <1>8, <1>11, <2>1 DEF Deployable, DeployTarget, Locates, Absent
  <2> QED
    <3> HIDE DEF info
    <3> QED
      BY <1>9, <2>1, <2>2, UnusableIsNone DEF Sound, Observation
<1> QED
  BY <1>10, <1>11

(* The faults stay within their bound.                                     *)
LEMMA FaultType ==
  ASSUME TypeOK, Fault \/ NoFault  PROVE faults' \in 0..MaxFaults
<1>1. MaxFaults \in Nat /\ faults \in 0..MaxFaults
  BY DeploymentAssumption DEF TypeOK
<1> QED
  BY <1>1 DEF Fault, NoFault

(* So is every new observation, and the one in memory after a look at it.  *)
LEMMA ObserveSoundness ==
  ASSUME TypeOK, Observe
  PROVE  /\ cached' \in Observation \cup {Unusable}
         /\ UNCHANGED <<ossAt, cdnAt>> => Sound(cached)'
         /\ faults' \in 0..MaxFaults
<1>1. PICK oss \in SUBSET Accounts, cdn \in SUBSET Accounts, known \in BOOLEAN :
        cached' = Scanned(oss, cdn, known)
  BY DEF Observe
<1>2. cached' \in Observation \cup {Unusable} /\ Sound(cached')
  BY <1>1, ScanSoundness DEF TypeOK
<1>3. faults' \in 0..MaxFaults
  BY FaultType DEF Observe
<1> QED
  BY <1>2, <1>3 DEF Sound, Locates

-----------------------------------------------------------------------------
(***************************************************************************)
(* A step of one writer.                                                   *)
(***************************************************************************)

(* The invariant holds of every domain the daemon may start with.          *)
LEMMA DeploymentInit ==
  ASSUME Init  PROVE DeploymentInv
<1>1. Resting \in Writer
  BY DeploymentAssumption DEF Resting, Writer, Versions
<1>2. TypeOK
  BY <1>1, DeploymentAssumption DEF Init, TypeOK, Versions
<1>3. Sound(cached) /\ Sound(Unusable)
  BY UnusableIsNone DEF Init, Sound
<1>4. \A w \in Writers : WriterOK(w)
  BY <1>3 DEF Init, WriterOK, Resting
<1>5. ExecutorOK /\ RedeployerOK
  BY <1>2 DEF Init, ExecutorOK, RedeployerOK, X, R, Resting, Writers, TypeOK
<1>6. SavedBeforeDeployed
  BY DEF Init, SavedBeforeDeployed
<1> QED
  BY <1>2, <1>3, <1>4, <1>5, <1>6 DEF DeploymentInv

(***************************************************************************)
(* While the domain stays where it is, a writer leaves the other one in    *)
(* order; it has to account for itself and for what it shares with it.     *)
(***************************************************************************)
LEMMA OneWriterSteps ==
  ASSUME DeploymentInv, NEW w \in Writers, NEW r \in Writer,
         writer' = [writer EXCEPT ![w] = r],
         UNCHANGED <<place, due, lapsed>>,
         ossCert' \in Versions, cdnCert' \in Versions,
         issued' \in issued..MaxCert, stored' \in stored..issued',
         cached' \in Observation \cup {Unusable, Nothing}, Sound(cached)',
         faults' \in 0..MaxFaults,
         WriterOK(w)',
         w = "executor" => ExecutorOK',
         w = "redeployer" => RedeployerOK' /\ stored' = stored,
         SavedBeforeDeployed'
  PROVE  DeploymentInv'
<1>1. writer'[w] = r /\ \A v \in Writers \ {w} : writer'[v] = writer[v]
  BY DEF DeploymentInv, TypeOK
<1>2. TypeOK'
  <2>1. writer' \in [Writers -> Writer]
    BY DEF DeploymentInv, TypeOK
  <2>2. issued \in Nat /\ MaxCert \in Nat /\ due \in Nat /\ stored \in Nat
    BY DeploymentAssumption DEF DeploymentInv, TypeOK
  <2>3. issued' \in 0..MaxCert /\ due' \in 0..issued' /\ lapsed' \in 0..due'
    BY <2>2 DEF DeploymentInv, TypeOK
  <2>4. stored' \in 0..issued'
    BY <2>2, <2>3
  <2> QED
    BY <2>1, <2>3, <2>4 DEF DeploymentInv, TypeOK, place
<1>3. ASSUME NEW v \in Writers \ {w} PROVE WriterOK(v)'
  <2>1. WriterOK(v) /\ writer'[v] = writer[v]
    BY <1>1 DEF DeploymentInv
  <2>2. writer[v].cert <= issued'
    <3>1. writer[v].cert \in Nat /\ issued \in Nat /\ MaxCert \in Nat
      BY DeploymentAssumption DEF DeploymentInv, TypeOK, Writer, Versions
    <3> QED
      BY <2>1, <3>1 DEF WriterOK
  <2> QED
    BY <2>1, <2>2 DEF WriterOK, Sound, Locates, Accepts, place
<1>4. ExecutorOK'
  <2>1. CASE w = "executor"
    BY <2>1
  <2>2. CASE w = "redeployer"
    BY <1>1, <2>2 DEF DeploymentInv, ExecutorOK, X, Writers
  <2> QED
    BY <2>1, <2>2 DEF Writers
<1>5. RedeployerOK'
  <2>1. CASE w = "executor"
    <3>1. R' = R
      BY <1>1, <2>1 DEF R, Writers
    <3>2. R.cert \in Nat /\ stored \in Nat /\ issued' \in Int
      BY DeploymentAssumption DEF DeploymentInv, TypeOK, Writer, Versions, R, Writers
    <3> QED
      BY <3>1, <3>2 DEF DeploymentInv, RedeployerOK
  <2>2. CASE w = "redeployer"
    BY <2>2
  <2> QED
    BY <2>1, <2>2 DEF Writers
<1> QED
  BY <1>2, <1>3, <1>4, <1>5 DEF DeploymentInv

(* A writer that stops has nothing to account for.                         *)
LEMMA WriterStops ==
  ASSUME DeploymentInv, NEW w \in Writers, Stop(w),
         UNCHANGED <<place, age, stored>>,
         ossCert' \in Versions, cdnCert' \in Versions,
         cached' \in Observation \cup {Unusable, Nothing}, Sound(cached)',
         faults' \in 0..MaxFaults,
         SavedBeforeDeployed'
  PROVE  DeploymentInv'
<1>1. Resting \in Writer
  BY DeploymentAssumption DEF Resting, Writer, Versions
<1>2. writer'[w] = Resting
  BY DEF DeploymentInv, TypeOK, Stop
<1>3. issued \in Nat /\ stored \in 0..issued /\ issued \in issued..MaxCert
      /\ stored \in stored..issued
  BY DeploymentAssumption DEF DeploymentInv, TypeOK
<1>4. WriterOK(w)'
  BY <1>2, <1>3, UnusableIsNone DEF WriterOK, Sound, Resting, age
<1>5. w = "executor" => ExecutorOK'
  BY <1>2 DEF ExecutorOK, X, Resting
<1>6. w = "redeployer" => RedeployerOK' /\ stored' = stored
  BY <1>2, <1>3 DEF RedeployerOK, R, Resting
<1> QED
  BY <1>1, <1>3, <1>4, <1>5, <1>6, OneWriterSteps DEF Stop, age

(* What the type and the invariant say of one writer.                      *)
LEMMA OneWriter ==
  ASSUME DeploymentInv, NEW w \in Writers
  PROVE  /\ writer[w] \in Writer /\ WriterOK(w)
         /\ w \in {"executor", "redeployer"}
         /\ ossCert \in Versions /\ cdnCert \in Versions
         /\ cached \in Observation \cup {Unusable, Nothing} /\ Sound(cached)
         /\ faults \in 0..MaxFaults /\ SavedBeforeDeployed
         /\ issued \in Nat /\ MaxCert \in Nat /\ issued <= MaxCert
         /\ stored \in 0..issued /\ lapsed \in Nat /\ due \in Nat
BY DeploymentAssumption DEF DeploymentInv, TypeOK, Writers

(* A step of a writer that orders and saves nothing.                       *)
LEMMA WriterGoesOn ==
  ASSUME DeploymentInv, NEW w \in Writers, NEW r \in Writer,
         writer' = [writer EXCEPT ![w] = r],
         UNCHANGED <<place, age, stored>>,
         ossCert' \in Versions, cdnCert' \in Versions,
         cached' \in Observation \cup {Unusable, Nothing}, Sound(cached)',
         faults' \in 0..MaxFaults,
         WriterOK(w)',
         w = "executor" => ExecutorOK',
         w = "redeployer" => RedeployerOK',
         SavedBeforeDeployed'
  PROVE  DeploymentInv'
<1>1. issued \in issued..MaxCert /\ stored \in stored..issued
  BY OneWriter
<1> QED
  BY <1>1, OneWriterSteps DEF age

(* The target takes the certificate, or the writer stops.                  *)
LEMMA PreflightSteps ==
  ASSUME DeploymentInv, NEW w \in Writers, Preflight(w)
  PROVE  DeploymentInv'
<1>1. faults' \in 0..MaxFaults
  BY FaultType DEF Preflight, DeploymentInv
<1>2. CASE Stop(w)
  <2>1. Sound(cached)' /\ SavedBeforeDeployed'
    BY OneWriter DEF Preflight, Sound, Locates, SavedBeforeDeployed, place, certs
  <2> QED
    BY <1>1, <1>2, <2>1, OneWriter, WriterStops DEF Preflight, certs
<1>3. CASE ~Stop(w)
  <2> DEFINE r == [writer[w] EXCEPT
                     !.checked = TRUE,
                     !.pc = IF w = "executor" /\ @ = "preflight" THEN "ensure" ELSE "write"]
  <2>1. writer' = [writer EXCEPT ![w] = r] /\ Accepts(writer[w].obs.info)
    BY <1>3, OneWriter DEF Preflight, DeploymentInv, TypeOK, Writer
  <2>2. r \in Writer
    BY OneWriter DEF Writer
  <2>3. writer'[w] = r
    BY <2>1 DEF DeploymentInv, TypeOK
  <2>4. /\ r.obs = writer[w].obs /\ r.cert = writer[w].cert
        /\ r.pc \in {"ensure", "write"}
        /\ w = "redeployer" => r.pc = "write"
    BY OneWriter DEF Writer
  <2>5. UNCHANGED <<place, certs, age, stored, cached>>
    BY DEF Preflight
  <2>6. writer[w].pc \in {"preflight", "recheck"}
    BY DEF Preflight
  <2>7. WriterOK(w)'
    BY <2>1, <2>3, <2>4, <2>5, <2>6, OneWriter
    DEF WriterOK, Sound, Locates, Accepts, place, age
  <2>8. w = "executor" => ExecutorOK'
    <3>1. CASE writer[w].pc = "preflight" /\ w = "executor"
      <4>1. r.pc = "ensure"
        BY <3>1, OneWriter DEF Writer
      <4> QED BY <2>3, <4>1, <3>1 DEF ExecutorOK, X
    <3>2. CASE writer[w].pc = "recheck" /\ w = "executor"
      <4>1. ExecutorOK
        BY DEF DeploymentInv
      <4> QED BY <2>3, <2>4, <2>5, <3>2, <4>1 DEF ExecutorOK, X
    <3> QED BY <2>6, <3>1, <3>2
  <2>9. w = "redeployer" => RedeployerOK'
    <3>1. RedeployerOK
      BY DEF DeploymentInv
    <3> QED BY <2>3, <2>4, <2>5, <3>1 DEF RedeployerOK, R
  <2>10. Sound(cached)' /\ SavedBeforeDeployed'
    BY <2>5, OneWriter DEF Sound, Locates, SavedBeforeDeployed, place, certs
  <2> HIDE DEF r
  <2> QED
    BY <1>1, <2>1, <2>2, <2>5, <2>7, <2>8, <2>9, <2>10, OneWriter, WriterGoesOn
    DEF certs
<1> QED
  BY <1>2, <1>3

(* A writer moves on without a change of what it has in hand.              *)
LEMMA GotoSteps ==
  ASSUME DeploymentInv, NEW w \in Writers, NEW pc, Goto(w, pc),
         [writer[w] EXCEPT !.pc = pc] \in Writer
  PROVE  /\ writer' = [writer EXCEPT ![w] = [writer[w] EXCEPT !.pc = pc]]
         /\ writer'[w] = [writer[w] EXCEPT !.pc = pc]
         /\ writer'[w].pc = pc /\ writer'[w].obs = writer[w].obs
         /\ writer'[w].cert = writer[w].cert
         /\ writer'[w].checked = writer[w].checked
<1>1. writer \in [Writers -> Writer] /\ writer[w] \in Writer
  BY OneWriter DEF DeploymentInv, TypeOK
<1>2. /\ writer' = [writer EXCEPT ![w] = [writer[w] EXCEPT !.pc = pc]]
      /\ writer'[w] = [writer[w] EXCEPT !.pc = pc]
  BY <1>1 DEF Goto
<1> QED
  BY <1>1, <1>2 DEF Writer

(* What reaches the cloud is in the row, whoever writes it.                *)
LEMMA ApplySteps ==
  ASSUME DeploymentInv, NEW w \in Writers, writer[w].pc = "write", Apply(w),
         UNCHANGED stored
  PROVE  ossCert' \in Versions /\ cdnCert' \in Versions /\ SavedBeforeDeployed'
<1>1. writer[w].cert \in Nat /\ writer[w].cert \in Versions /\ stored \in Nat
  BY OneWriter DEF Writer, Versions
<1>2. writer[w].cert <= stored
  <2>1. CASE w = "executor"
    BY <1>1, <2>1 DEF DeploymentInv, ExecutorOK, X
  <2>2. CASE w = "redeployer"
    BY <1>1, <2>2 DEF DeploymentInv, RedeployerOK, R
  <2> QED
    BY <2>1, <2>2, OneWriter
<1>3. /\ ossCert' \in {ossCert, writer[w].cert}
      /\ cdnCert' \in {cdnCert, writer[w].cert}
  BY DEF Apply
<1> QED
  BY <1>1, <1>2, <1>3, OneWriter DEF SavedBeforeDeployed

(* The certificate is written, or not, and the answer comes back, or not.  *)
LEMMA DeploySteps ==
  ASSUME DeploymentInv, NEW w \in Writers, Deploy(w)
  PROVE  DeploymentInv'
<1>1. faults' \in 0..MaxFaults
  BY FaultType DEF Deploy, DeploymentInv
<1>2. writer[w].pc = "write" /\ UNCHANGED <<place, age, stored, cached>>
  BY DEF Deploy
<1>3. ossCert' \in Versions /\ cdnCert' \in Versions /\ SavedBeforeDeployed'
  <2>1. CASE Apply(w)
    BY <1>2, <2>1, ApplySteps
  <2>2. CASE UNCHANGED certs
    BY <1>2, <2>2, OneWriter DEF SavedBeforeDeployed, certs
  <2> QED
    BY <2>1, <2>2 DEF Deploy
<1>4. Sound(cached)' /\ cached' \in Observation \cup {Unusable, Nothing}
  BY <1>2, OneWriter DEF Sound, Locates, place
<1>5. CASE Stop(w)
  BY <1>1, <1>2, <1>3, <1>4, <1>5, WriterStops
<1>6. CASE CleansUp(writer[w].obs.info) /\ Goto(w, "clean")
  <2> DEFINE r == [writer[w] EXCEPT !.pc = "clean"]
  <2>1. r \in Writer
    BY OneWriter DEF Writer
  <2>2. /\ writer' = [writer EXCEPT ![w] = r]
        /\ writer'[w].pc = "clean" /\ writer'[w].obs = writer[w].obs
        /\ writer'[w].cert = writer[w].cert
        /\ writer'[w].checked = writer[w].checked
    BY <1>6, <2>1, GotoSteps
  <2>3. WriterOK(w)'
    BY <1>2, <1>6, <2>2, OneWriter DEF WriterOK, Sound, Locates, Accepts, place, age
  <2>4. w = "executor" => ExecutorOK'
    BY <1>2, <2>2 DEF DeploymentInv, ExecutorOK, X
  <2>5. w = "redeployer" => RedeployerOK'
    BY <1>2, <2>2 DEF DeploymentInv, RedeployerOK, R
  <2> HIDE DEF r
  <2> QED
    BY <1>1, <1>2, <1>3, <1>4, <2>1, <2>2, <2>3, <2>4, <2>5, WriterGoesOn
<1> QED
  BY <1>5, <1>6 DEF Deploy

(* The certificate of the bucket goes, or the failure is logged.           *)
LEMMA CleanSteps ==
  ASSUME DeploymentInv, NEW w \in Writers, Clean(w)
  PROVE  DeploymentInv'
<1>1. faults' \in 0..MaxFaults
  BY FaultType DEF Clean, DeploymentInv
<1>2. UNCHANGED <<place, cdnCert, age, stored, cached>> /\ Stop(w)
  BY DEF Clean
<1>3. ossCert' \in {0, ossCert} /\ 0 \in Versions
  BY DeploymentAssumption DEF Clean, Versions
<1>4. ossCert' \in Versions /\ cdnCert' \in Versions /\ SavedBeforeDeployed'
  BY <1>2, <1>3, OneWriter DEF SavedBeforeDeployed
<1>5. Sound(cached)' /\ cached' \in Observation \cup {Unusable, Nothing}
  BY <1>2, OneWriter DEF Sound, Locates, place
<1> QED
  BY <1>1, <1>2, <1>4, <1>5, WriterStops

-----------------------------------------------------------------------------
(***************************************************************************)
(* The steps of the executor.                                              *)
(***************************************************************************)

LEMMA BeginSteps ==
  ASSUME DeploymentInv, Begin  PROVE DeploymentInv'
<1> DEFINE w == "executor"
           r == [writer[w] EXCEPT !.pc = "resolve"]
<1>1. w \in Writers
  BY DEF Writers
<1>2. r \in Writer
  BY <1>1, OneWriter DEF Writer
<1>3. UNCHANGED <<place, certs, age, stored, cached, faults>>
  BY DEF Begin
<1>4. /\ writer' = [writer EXCEPT ![w] = r]
      /\ writer'[w].pc = "resolve" /\ writer'[w].obs = writer[w].obs
      /\ writer'[w].cert = writer[w].cert
  BY <1>1, <1>2, GotoSteps DEF Begin
<1>5. WriterOK(w)'
  BY <1>1, <1>3, <1>4, OneWriter DEF WriterOK, Sound, Locates, place, age
<1>6. ExecutorOK'
  BY <1>4 DEF ExecutorOK, X
<1>7. Sound(cached)' /\ SavedBeforeDeployed'
  BY <1>1, <1>3, OneWriter DEF Sound, Locates, SavedBeforeDeployed, place, certs
<1> HIDE DEF r
<1> QED
  BY <1>1, <1>2, <1>3, <1>4, <1>5, <1>6, <1>7, OneWriter, WriterGoesOn DEF certs

(* The target is looked up: from memory, or with a scan.                   *)
LEMMA ResolveSoundness ==
  ASSUME DeploymentInv, NEW force \in BOOLEAN, Resolve(force),
         UNCHANGED <<ossAt, cdnAt>>
  PROVE  /\ cached' \in Observation \cup {Unusable} /\ Sound(cached)'
         /\ faults' \in 0..MaxFaults
<1>1. CASE UNCHANGED <<cached, faults>> /\ cached # Nothing
  BY <1>1 DEF DeploymentInv, TypeOK, Sound, Locates
<1>2. CASE Observe
  BY <1>2, ObserveSoundness DEF DeploymentInv
<1> QED
  BY <1>1, <1>2 DEF Resolve

(***************************************************************************)
(* The executor looks for its target, before the order and again after it: *)
(* what it finds is sound, whether the observation is cached, new or       *)
(* missing.                                                                *)
(***************************************************************************)
LEMMA ResolveTargetSteps ==
  ASSUME DeploymentInv, ResolveTarget  PROVE DeploymentInv'
<1> DEFINE w == "executor"
<1>1. w \in Writers
  BY DEF Writers
<1>2. UNCHANGED <<place, certs, age, stored>> /\ X.pc \in {"resolve", "confirm"}
  BY DEF ResolveTarget
<1>3. /\ cached' \in Observation \cup {Unusable} /\ Sound(cached)'
      /\ faults' \in 0..MaxFaults
  <2>1. (X.pc = "confirm" /\ X.issued) \in BOOLEAN
    OBVIOUS
  <2> QED
    BY <1>2, <2>1, ResolveSoundness DEF ResolveTarget, place
<1>4. SavedBeforeDeployed'
  BY <1>1, <1>2, OneWriter DEF SavedBeforeDeployed, certs
<1>5. CASE cached' = Unusable
  BY <1>1, <1>2, <1>3, <1>4, <1>5, OneWriter, WriterStops DEF ResolveTarget, certs
<1>6. CASE cached' # Unusable
  <2> DEFINE r == [writer[w] EXCEPT
                     !.obs = cached', !.issued = FALSE,
                     !.pc = IF @ = "resolve" THEN "preflight" ELSE "recheck"]
  <2>1. writer' = [writer EXCEPT ![w] = r]
    BY <1>1, <1>6, OneWriter DEF ResolveTarget, DeploymentInv, TypeOK, Writer
  <2>2. r \in Writer
    <3>1. writer[w] \in Writer
      BY <1>1, OneWriter
    <3>2. ASSUME NEW x \in Writer, NEW o \in Observation \cup {Unusable},
                 NEW pc \in {"preflight", "recheck"}
          PROVE  [x EXCEPT !.obs = o, !.issued = FALSE, !.pc = pc] \in Writer
      BY DEF Writer
    <3> QED BY <1>3, <3>1, <3>2
  <2>3. writer'[w] = r
    BY <1>1, <2>1 DEF DeploymentInv, TypeOK
  <2>4. /\ r.obs = cached' /\ r.cert = writer[w].cert
        /\ r.pc = IF writer[w].pc = "resolve" THEN "preflight" ELSE "recheck"
    BY <1>1, OneWriter DEF Writer
  <2> HIDE DEF r
  <2>5. WriterOK(w)'
    <3>1. writer[w].cert <= issued'
      BY <1>1, <1>2, OneWriter DEF WriterOK, age
    <3> QED
      BY <1>3, <1>6, <2>3, <2>4, <3>1 DEF WriterOK, Sound, Locates
  <2>6. ExecutorOK'
    BY <1>2, <2>3, <2>4 DEF DeploymentInv, ExecutorOK, X
  <2> QED
    BY <1>1, <1>2, <1>3, <1>4, <2>1, <2>2, <2>5, <2>6, OneWriter, WriterGoesOn
    DEF certs
<1> QED
  BY <1>5, <1>6

(* A writer about to save.                                                 *)
LEMMA SavingType ==
  ASSUME NEW c \in Versions, NEW new \in BOOLEAN
  PROVE  /\ Saving(c, new) \in Writer
         /\ Saving(c, new).pc = "save" /\ Saving(c, new).cert = c
         /\ Saving(c, new).obs = Unusable
<1>1. Resting \in Writer /\ Resting.obs = Unusable
  BY DeploymentAssumption DEF Resting, Writer, Versions
<1> QED
  BY <1>1 DEF Saving, Writer

(***************************************************************************)
(* What the executor is about to save is the stored certificate, or newer  *)
(* than all there are.                                                     *)
(***************************************************************************)
LEMMA EnsureCertSteps ==
  ASSUME DeploymentInv, EnsureCert  PROVE DeploymentInv'
<1> DEFINE w == "executor"
<1>1. w \in Writers
  BY DEF Writers
<1>2. UNCHANGED <<place, certs, due, lapsed, stored, cached, faults>>
  BY DEF EnsureCert
<1>3. Sound(cached)' /\ SavedBeforeDeployed'
  BY <1>1, <1>2, OneWriter DEF Sound, Locates, SavedBeforeDeployed, place, certs
<1>4. CASE Stop(w) /\ UNCHANGED issued
  BY <1>1, <1>2, <1>3, <1>4, OneWriter, WriterStops DEF certs, age
<1>5. ASSUME NEW c \in stored..issued', NEW new \in BOOLEAN,
             issued' \in issued..MaxCert,
             writer' = [writer EXCEPT ![w] = Saving(c, new)]
      PROVE  DeploymentInv'
  <2>1. c \in Versions
    BY <1>1, <1>5, OneWriter DEF Versions
  <2>2. /\ Saving(c, new) \in Writer
        /\ Saving(c, new).pc = "save" /\ Saving(c, new).cert = c
        /\ Saving(c, new).obs = Unusable
    BY <1>5, <2>1, SavingType
  <2>3. writer'[w] = Saving(c, new)
    BY <1>1, <1>5 DEF DeploymentInv, TypeOK
  <2>4. stored' \in stored..issued'
    BY <1>1, <1>2, <1>5, OneWriter
  <2>5. WriterOK(w)' /\ ExecutorOK'
    BY <1>1, <1>2, <1>5, <2>2, <2>3, OneWriter, UnusableIsNone
    DEF WriterOK, Sound, ExecutorOK, X
  <2> QED
    BY <1>1, <1>2, <1>3, <1>5, <2>2, <2>4, <2>5, OneWriter, OneWriterSteps DEF certs
<1>6. CASE UNCHANGED issued /\ writer' = [writer EXCEPT ![w] = Saving(stored, FALSE)]
  <2>1. stored \in stored..issued' /\ issued' \in issued..MaxCert
    BY <1>1, <1>6, OneWriter
  <2> QED
    BY <1>5, <1>6, <2>1
<1>7. CASE /\ issued < MaxCert /\ issued' = issued + 1
           /\ writer' = [writer EXCEPT ![w] = Saving(issued', TRUE)]
  <2>1. issued' \in stored..issued' /\ issued' \in issued..MaxCert
    BY <1>1, <1>7, OneWriter
  <2> QED
    BY <1>5, <1>7, <2>1
<1> QED
  BY <1>4, <1>6, <1>7 DEF EnsureCert

(* The certificate is written to the row, which only gets newer ones.      *)
LEMMA SaveCertificateSteps ==
  ASSUME DeploymentInv, SaveCertificate  PROVE DeploymentInv'
<1> DEFINE w == "executor"
<1>1. w \in Writers
  BY DEF Writers
<1>2. UNCHANGED <<place, certs, age, cached>> /\ X.pc = "save"
  BY DEF SaveCertificate
<1>3. faults' \in 0..MaxFaults
  BY FaultType DEF SaveCertificate, DeploymentInv
<1>4. Sound(cached)'
  BY <1>1, <1>2, OneWriter DEF Sound, Locates, place
<1>5. CASE Stop(w) /\ UNCHANGED stored
  <2>1. SavedBeforeDeployed'
    BY <1>1, <1>2, <1>5, OneWriter DEF SavedBeforeDeployed, certs
  <2> QED
    BY <1>1, <1>2, <1>3, <1>4, <1>5, <2>1, OneWriter, WriterStops DEF certs
<1>6. CASE Reusable(X.cert, lapsed) /\ stored' = X.cert /\ Goto(w, "confirm")
  <2> DEFINE r == [writer[w] EXCEPT !.pc = "confirm"]
  <2>1. r \in Writer
    BY <1>1, OneWriter DEF Writer
  <2>2. /\ writer' = [writer EXCEPT ![w] = r]
        /\ writer'[w].pc = "confirm" /\ writer'[w].obs = writer[w].obs
        /\ writer'[w].cert = writer[w].cert
    BY <1>1, <1>6, <2>1, GotoSteps
  <2>3. X.cert \in Nat /\ X.cert >= stored /\ X.cert <= issued /\ X.cert > 0
    BY <1>1, <1>2, <1>6, OneWriter
    DEF X, Writer, Versions, WriterOK, DeploymentInv, ExecutorOK, Reusable
  <2>4. stored' \in stored..issued' /\ issued' \in issued..MaxCert
    BY <1>1, <1>2, <1>6, <2>3, OneWriter DEF age
  <2>5. WriterOK(w)' /\ ExecutorOK'
    BY <1>1, <1>2, <1>6, <2>2, <2>3, OneWriter
    DEF WriterOK, Sound, Locates, ExecutorOK, X, place, age
  <2>6. SavedBeforeDeployed'
    BY <1>1, <1>2, <1>6, <2>3, OneWriter DEF SavedBeforeDeployed, certs, Versions
  <2> HIDE DEF r
  <2> QED
    BY <1>1, <1>2, <1>3, <1>4, <2>1, <2>2, <2>4, <2>5, <2>6, OneWriter,
       OneWriterSteps DEF certs, age
<1> QED
  BY <1>5, <1>6 DEF SaveCertificate, SaveFails

-----------------------------------------------------------------------------
(***************************************************************************)
(* The steps of the redeployer.                                            *)
(***************************************************************************)

LEMMA CycleSteps ==
  ASSUME DeploymentInv, Cycle  PROVE DeploymentInv'
<1> DEFINE w == "redeployer"
<1>1. w \in Writers
  BY DEF Writers
<1>2. UNCHANGED <<place, certs, age, stored>> /\ Observe /\ R.pc = "idle"
  BY DEF Cycle
<1>3. /\ cached' \in Observation \cup {Unusable} /\ Sound(cached)'
      /\ faults' \in 0..MaxFaults
  BY <1>2, ObserveSoundness DEF DeploymentInv, place
<1>4. SavedBeforeDeployed'
  BY <1>1, <1>2, OneWriter DEF SavedBeforeDeployed, certs
<1>5. CASE cached' = Unusable
  <2>1. writer' = [writer EXCEPT ![w] = writer[w]] /\ writer'[w] = writer[w]
    BY <1>1, <1>5 DEF Cycle, DeploymentInv, TypeOK
  <2>2. WriterOK(w)' /\ RedeployerOK'
    BY <1>1, <1>2, <2>1, OneWriter
    DEF WriterOK, RedeployerOK, R, Sound, Locates, Accepts, place, age, DeploymentInv
  <2> QED
    BY <1>1, <1>2, <1>3, <1>4, <2>1, <2>2, OneWriter, WriterGoesOn DEF certs
<1>6. CASE cached' # Unusable
  <2> DEFINE seen == CertAt(cached'.info)
             r == [Resting EXCEPT !.pc = "rows", !.obs = cached', !.seen = seen]
  <2>1. writer' = [writer EXCEPT ![w] = r]
    BY <1>6 DEF Cycle
  <2>2. seen \in Versions
    BY <1>1, OneWriter DEF CertAt
  <2>3. /\ r \in Writer
        /\ r.pc = "rows" /\ r.obs = cached' /\ r.cert = 0
    <3>1. Resting \in Writer /\ Resting.cert = 0
      BY DeploymentAssumption DEF Resting, Writer, Versions
    <3> HIDE DEF seen
    <3> QED BY <1>3, <2>2, <3>1 DEF Writer
  <2>4. writer'[w] = r
    BY <1>1, <2>1 DEF DeploymentInv, TypeOK
  <2> HIDE DEF r, seen
  <2>5. WriterOK(w)' /\ RedeployerOK'
    BY <1>1, <1>2, <1>3, <1>6, <2>3, <2>4, OneWriter
    DEF WriterOK, RedeployerOK, R, Sound, Locates, age
  <2> QED
    BY <1>1, <1>2, <1>3, <1>4, <2>1, <2>3, <2>5, OneWriter, WriterGoesOn DEF certs
<1> QED
  BY <1>5, <1>6

(* Its rows are those of the moment it reads them.                         *)
LEMMA LoadRowsSteps ==
  ASSUME DeploymentInv, LoadRows  PROVE DeploymentInv'
<1> DEFINE w == "redeployer"
<1>1. w \in Writers
  BY DEF Writers
<1>2. UNCHANGED <<place, certs, age, stored, cached>> /\ R.pc = "rows"
  BY DEF LoadRows
<1>3. faults' \in 0..MaxFaults
  BY FaultType DEF LoadRows, DeploymentInv
<1>4. Sound(cached)' /\ SavedBeforeDeployed'
  BY <1>1, <1>2, OneWriter DEF Sound, Locates, SavedBeforeDeployed, place, certs
<1>5. CASE Stop(w)
  BY <1>1, <1>2, <1>3, <1>4, <1>5, OneWriter, WriterStops DEF certs
<1>6. CASE ~Stop(w)
  <2> DEFINE r == [writer[w] EXCEPT !.pc = "check", !.cert = stored]
  <2>1. writer' = [writer EXCEPT ![w] = r]
    BY <1>1, <1>6, OneWriter DEF LoadRows, DeploymentInv, TypeOK, Writer
  <2>2. /\ r \in Writer
        /\ r.pc = "check" /\ r.obs = writer[w].obs /\ r.cert = stored
    <3>1. writer[w] \in Writer /\ stored \in Versions
      BY <1>1, OneWriter DEF Versions
    <3> QED BY <3>1 DEF Writer
  <2>3. writer'[w] = r
    BY <1>1, <2>1 DEF DeploymentInv, TypeOK
  <2> HIDE DEF r
  <2>4. WriterOK(w)' /\ RedeployerOK'
    BY <1>1, <1>2, <2>2, <2>3, OneWriter
    DEF WriterOK, RedeployerOK, R, Sound, Locates, place, age, DeploymentInv
  <2> QED
    BY <1>1, <1>2, <1>3, <1>4, <2>1, <2>2, <2>4, OneWriter, WriterGoesOn DEF certs
<1> QED
  BY <1>5, <1>6

(***************************************************************************)
(* The redeployer asks the cloud which certificate is served, and stops    *)
(* unless an older one is.                                                 *)
(***************************************************************************)
LEMMA CheckSteps ==
  ASSUME DeploymentInv, Check  PROVE DeploymentInv'
<1> DEFINE w == "redeployer"
<1>1. w \in Writers
  BY DEF Writers
<1>2. UNCHANGED <<place, certs, age, stored, cached, faults>> /\ R.pc = "check"
  BY DEF Check
<1>3. Sound(cached)' /\ SavedBeforeDeployed'
  BY <1>1, <1>2, OneWriter DEF Sound, Locates, SavedBeforeDeployed, place, certs
<1>4. CASE Stop(w)
  BY <1>1, <1>2, <1>3, <1>4, OneWriter, WriterStops DEF certs
<1>5. CASE ~Stop(w)
  <2> DEFINE r == [writer[w] EXCEPT !.pc = "preflight", !.seen = 0]
  <2>1. writer' = [writer EXCEPT ![w] = r]
    BY <1>1, <1>5, OneWriter DEF Check, DeploymentInv, TypeOK, Writer
  <2>2. /\ r \in Writer
        /\ r.pc = "preflight" /\ r.obs = writer[w].obs /\ r.cert = writer[w].cert
    <3>1. writer[w] \in Writer /\ 0 \in Versions
      BY <1>1, OneWriter DEF Versions
    <3> QED BY <3>1 DEF Writer
  <2>3. writer'[w] = r
    BY <1>1, <2>1 DEF DeploymentInv, TypeOK
  <2> HIDE DEF r
  <2>4. WriterOK(w)' /\ RedeployerOK'
    BY <1>1, <1>2, <2>2, <2>3, OneWriter
    DEF WriterOK, RedeployerOK, R, Sound, Locates, place, age, DeploymentInv
  <2> QED
    BY <1>1, <1>2, <1>3, <2>1, <2>2, <2>4, OneWriter, WriterGoesOn DEF certs
<1> QED
  BY <1>4, <1>5

-----------------------------------------------------------------------------
(***************************************************************************)
(* What happens around the writers.                                        *)
(***************************************************************************)

(* Nothing the writers know changes when a counter of age moves, or the    *)
(* observation is no longer fresh.                                         *)
LEMMA WritersUntouched ==
  ASSUME DeploymentInv,
         UNCHANGED <<place, certs, issued, stored, writer, faults>>,
         due' \in 0..issued, lapsed' \in 0..due',
         cached' \in {cached, Nothing}
  PROVE  DeploymentInv'
<1>1. TypeOK'
  BY DEF DeploymentInv, TypeOK, place, certs
<1>2. Sound(cached)'
  BY UnusableIsNone DEF DeploymentInv, Sound, Locates, place
<1>3. \A w \in Writers : WriterOK(w)'
  BY DEF DeploymentInv, WriterOK, Sound, Locates, Accepts, place
<1>4. ExecutorOK' /\ RedeployerOK' /\ SavedBeforeDeployed'
  BY DEF DeploymentInv, ExecutorOK, RedeployerOK, SavedBeforeDeployed, X, R, certs
<1> QED
  BY <1>1, <1>2, <1>3, <1>4 DEF DeploymentInv

(* Certificates come near their end: no writer notices.                    *)
LEMMA AgeSteps ==
  ASSUME DeploymentInv, Age  PROVE DeploymentInv'
<1>1. issued \in Nat /\ due \in 0..issued /\ lapsed \in 0..due
  BY DeploymentAssumption DEF DeploymentInv, TypeOK
<1>2. due' \in 0..issued /\ lapsed' \in 0..due'
  BY <1>1 DEF Age
<1> QED
  BY <1>2, WritersUntouched DEF Age

(* Certificates end: no writer notices.                                    *)
LEMMA LapseSteps ==
  ASSUME DeploymentInv, Lapse  PROVE DeploymentInv'
<1>1. due' \in 0..issued /\ lapsed' \in 0..due'
  BY DEF DeploymentInv, TypeOK, Lapse, age
<1> QED
  BY <1>1, WritersUntouched DEF Lapse, age

(***************************************************************************)
(* After a move no observation claims to be up to date, and no writer to   *)
(* have checked.                                                           *)
(***************************************************************************)
LEMMA OutdatedIsSound ==
  ASSUME NEW o \in Observation \cup {Unusable, Nothing}
  PROVE  /\ Outdated(o) \in Observation \cup {Unusable, Nothing}
         /\ o \in Observation <=> Outdated(o) \in Observation
         /\ o \in Observation \cup {Unusable}
            => Outdated(o) \in Observation \cup {Unusable}
         /\ Outdated(o) \in Observation
            => Outdated(o).info = o.info /\ ~Outdated(o).stayed
<1>1. CASE o \in Observation
  BY <1>1, UnusableIsNone DEF Outdated, Observation
<1>2. CASE o \in {Unusable, Nothing}
  BY <1>2, UnusableIsNone DEF Outdated
<1> QED
  BY <1>1, <1>2

(***************************************************************************)
(* The domain moves to another account, or on or off its CDN, under the    *)
(* feet of both writers.                                                   *)
(***************************************************************************)
LEMMA MoveSteps ==
  ASSUME DeploymentInv, Move  PROVE DeploymentInv'
<1>1. /\ cached' = Outdated(cached) /\ UNCHANGED <<age, stored, faults>>
      /\ writer' = [w \in Writers |-> [writer[w] EXCEPT !.obs = Outdated(@),
                                                      !.checked = FALSE]]
  BY DEF Move
<1>2. ASSUME NEW w \in Writers
      PROVE  /\ writer'[w] \in Writer
             /\ writer'[w].obs = Outdated(writer[w].obs)
             /\ writer'[w].pc = writer[w].pc /\ writer'[w].cert = writer[w].cert
             /\ ~writer'[w].checked
  <2>1. writer[w] \in Writer
    BY OneWriter
  <2>2. writer[w].obs \in Observation \cup {Unusable}
    BY <2>1 DEF Writer
  <2>3. Outdated(writer[w].obs) \in Observation \cup {Unusable}
    BY <2>2, OutdatedIsSound
  <2>4. writer'[w] = [writer[w] EXCEPT !.obs = Outdated(@), !.checked = FALSE]
    BY <1>1
  <2> DEFINE o == Outdated(writer[w].obs)
  <2> HIDE DEF o
  <2>5. writer'[w] = [writer[w] EXCEPT !.obs = o, !.checked = FALSE]
    BY <2>4 DEF o
  <2>6. o \in Observation \cup {Unusable}
    BY <2>3 DEF o
  <2>7. /\ writer'[w] \in Writer /\ writer'[w].obs = o
        /\ writer'[w].pc = writer[w].pc /\ writer'[w].cert = writer[w].cert
        /\ ~writer'[w].checked
    BY <2>1, <2>5, <2>6 DEF Writer
  <2> QED
    BY <2>7 DEF o
<1>3. TypeOK'
  <2>1. writer' \in [Writers -> Writer]
    BY <1>1, <1>2
  <2>2. cached' \in Observation \cup {Unusable, Nothing}
    BY <1>1, OutdatedIsSound DEF DeploymentInv, TypeOK
  <2>3. 0 \in Versions
    BY DeploymentAssumption DEF Versions
  <2>4. moves' \in 0..MaxMoves
    <3>1. moves \in 0..MaxMoves /\ MaxMoves \in Nat
      BY DeploymentAssumption DEF DeploymentInv, TypeOK
    <3>2. moves < MaxMoves /\ moves' = moves + 1
      BY DEF Move
    <3> QED BY <3>1, <3>2
  <2> QED
    BY <1>1, <2>1, <2>2, <2>3, <2>4 DEF Move, DeploymentInv, TypeOK, age
<1>4. Sound(cached)'
  BY <1>1, OutdatedIsSound DEF DeploymentInv, TypeOK, Sound
<1>5. ASSUME NEW w \in Writers PROVE WriterOK(w)'
  <2>1. writer[w].obs \in Observation \cup {Unusable}
    BY OneWriter DEF Writer
  <2>2. Sound(writer[w].obs)'
    BY <1>2, <2>1, OutdatedIsSound DEF Sound
  <2>3. writer'[w].pc \in {"preflight", "recheck", "rows", "check", "write", "clean"}
        => writer'[w].obs \in Observation
    BY <1>2, <2>1, OneWriter, OutdatedIsSound DEF WriterOK
  <2>4. writer'[w].pc = "clean" => CleansUp(writer'[w].obs.info)
    BY <1>2, <2>1, <2>3, OneWriter, OutdatedIsSound DEF WriterOK, CleansUp
  <2> QED
    BY <1>1, <1>2, <2>2, <2>3, <2>4, OneWriter DEF WriterOK, age
<1>6. ExecutorOK' /\ RedeployerOK'
  BY <1>1, <1>2 DEF DeploymentInv, ExecutorOK, RedeployerOK, X, R, Writers
<1>7. SavedBeforeDeployed'
  <2>1. {ossCert', cdnCert'} \subseteq {ossCert, cdnCert, 0}
    BY DEF Move
  <2>2. stored' = stored
    BY DEF Move
  <2>3. SavedBeforeDeployed
    BY DEF DeploymentInv
  <2>4. ~(0 > 1)
    OBVIOUS
  <2> QED
    BY <2>1, <2>2, <2>3, <2>4 DEF SavedBeforeDeployed
<1> QED
  BY <1>3, <1>4, <1>5, <1>6, <1>7 DEF DeploymentInv

(* A process that starts has no writers and remembers no observation.      *)
LEMMA RestartSteps ==
  ASSUME DeploymentInv, Restart  PROVE DeploymentInv'
<1>1. /\ UNCHANGED <<place, certs, age, stored>> /\ cached' = Nothing
      /\ writer' = [w \in Writers |-> Resting]
  BY DEF Restart
<1>2. Resting \in Writer /\ issued \in Nat /\ stored \in Nat
  BY DeploymentAssumption DEF Resting, Writer, Versions, DeploymentInv, TypeOK
<1>3. faults' \in 0..MaxFaults
  BY FaultType DEF Restart, DeploymentInv
<1>4. TypeOK'
  BY <1>1, <1>2, <1>3 DEF DeploymentInv, TypeOK, place, certs, age
<1>5. Sound(cached)' /\ Sound(Unusable)'
  BY <1>1, UnusableIsNone DEF Sound
<1>6. \A w \in Writers : WriterOK(w)'
  BY <1>1, <1>2, <1>5 DEF WriterOK, Resting, age
<1>7. ExecutorOK' /\ RedeployerOK'
  BY <1>1, <1>2 DEF ExecutorOK, RedeployerOK, X, R, Resting, Writers
<1>8. SavedBeforeDeployed'
  BY <1>1 DEF DeploymentInv, SavedBeforeDeployed, certs
<1> QED
  BY <1>4, <1>5, <1>6, <1>7, <1>8 DEF DeploymentInv

-----------------------------------------------------------------------------
(***************************************************************************)
(* The results.                                                            *)
(***************************************************************************)

(* Every step keeps the invariant.                                         *)
LEMMA DeploymentStep == DeploymentInv /\ [Next]_vars => DeploymentInv'
<1> SUFFICES ASSUME DeploymentInv, [Next]_vars PROVE DeploymentInv'
  OBVIOUS
<1>1. ASSUME NEW w \in Writers, Write(w) PROVE DeploymentInv'
  BY <1>1, PreflightSteps, DeploySteps, CleanSteps DEF Write
<1>2. CASE Execute
  <2>1. "executor" \in Writers
    BY DEF Writers
  <2> QED
    BY <1>1, <1>2, <2>1, BeginSteps, ResolveTargetSteps, EnsureCertSteps,
       SaveCertificateSteps DEF Execute
<1>3. CASE Redeploy
  <2>1. "redeployer" \in Writers
    BY DEF Writers
  <2> QED
    BY <1>1, <1>3, <2>1, CycleSteps, LoadRowsSteps, CheckSteps DEF Redeploy
<1>4. CASE Lapse
  BY <1>4, LapseSteps
<1>5. CASE Move
  BY <1>5, MoveSteps
<1>6. CASE Age
  BY <1>6, AgeSteps
<1>7. CASE Restart
  BY <1>7, RestartSteps
<1>8. CASE UNCHANGED vars
  <2>1. due \in 0..issued /\ lapsed \in 0..due
    BY DEF DeploymentInv, TypeOK
  <2> QED
    BY <1>8, <2>1, WritersUntouched DEF vars, age
<1> QED
  BY <1>2, <1>3, <1>4, <1>5, <1>6, <1>7, <1>8 DEF Next

(***************************************************************************)
(* DeploymentInv is inductive: the executor, the redeployer and a domain   *)
(* that moves while they work preserve it, in any order.                   *)
(***************************************************************************)
THEOREM DeploymentInvariance == Spec => []DeploymentInv
BY DeploymentInit, DeploymentStep, PTL DEF Spec

(***************************************************************************)
(* The state of the two writers and of the cloud keeps its type.           *)
(***************************************************************************)
THEOREM DeploymentTypes == Spec => []TypeOK
<1>1. DeploymentInv => TypeOK
  BY DEF DeploymentInv
<1> QED
  BY <1>1, DeploymentInvariance, PTL

(***************************************************************************)
(* Neither writer sends a certificate to a place that does not serve the   *)
(* domain once its preflight has passed, but for a bucket whose domain     *)
(* went on the CDN of another account since it was observed.               *)
(***************************************************************************)
THEOREM WritesReachTheDomain == Spec => []WritesWhereServed
<1>1. ASSUME DeploymentInv PROVE WritesWhereServed
  <2> SUFFICES ASSUME NEW w \in Writers, writer[w].pc = "write", writer[w].checked
               PROVE  LET o == writer[w].obs
                      IN IF DeployTarget(o.info) = "cdn" THEN cdnAt = o.info.account
                         ELSE /\ ossAt = o.info.account
                              /\ cdnAt # o.info.account
                              /\ o.stayed => cdnAt = 0
    BY DEF WritesWhereServed
  <2>1. WriterOK(w)
    BY <1>1 DEF DeploymentInv
  <2>2. DeployTarget(writer[w].obs.info) \in {"cdn", "oss"}
    BY DEF DeployTarget
  <2> QED
    BY <2>1, <2>2 DEF WriterOK, Sound, Locates, Accepts
<1> QED
  BY <1>1, DeploymentInvariance, PTL

(***************************************************************************)
(* No certificate is in the cloud that the row of its domain has not had:  *)
(* a stop of the process after the write loses no key.                     *)
(***************************************************************************)
THEOREM DeployedIsStored == Spec => []SavedBeforeDeployed
<1>1. DeploymentInv => SavedBeforeDeployed
  BY DEF DeploymentInv
<1> QED
  BY <1>1, DeploymentInvariance, PTL

(***************************************************************************)
(* The executor never replaces what visitors get with something older, and *)
(* its clean-up never takes from them what they get, unless the domain     *)
(* moved after the preflight.                                              *)
(***************************************************************************)
LEMMA ExecutorWrites ==
  ASSUME DeploymentInv, Write("executor"), X.checked
  PROVE  Served' >= Served
<1>1. /\ X \in Writer /\ WriterOK("executor") /\ ossCert \in Nat /\ cdnCert \in Nat
      /\ stored \in Nat /\ SavedBeforeDeployed
  BY OneWriter DEF Writers, X, Versions
<1>2. CASE Preflight("executor")
  BY <1>1, <1>2 DEF Preflight, Served, place, certs
<1>3. CASE Clean("executor")
  <2>1. cdnAt = X.obs.info.account /\ X.obs.info.origin = "both" /\ X.obs \in Observation
    BY <1>1, <1>3 DEF Clean, WriterOK, X, Accepts, CleansUp, DeployTarget
  <2>2. cdnAt # 0
    BY <2>1 DEF Observation, Info, Accounts
  <2> QED
    BY <1>1, <1>3, <2>2 DEF Clean, Served, place
<1>4. CASE Deploy("executor")
  <2>1. X.pc = "write" /\ UNCHANGED place
    BY <1>4 DEF Deploy, X
  <2>2. CASE UNCHANGED certs
    BY <1>1, <2>1, <2>2 DEF Served, place, certs
  <2>3. CASE Apply("executor")
    <3>1. X.cert = stored /\ stored > 0
      BY <2>1 DEF DeploymentInv, ExecutorOK
    <3>2. ossCert <= X.cert /\ cdnCert <= X.cert
      BY <1>1, <3>1 DEF SavedBeforeDeployed
    <3>3. /\ ossCert' \in {ossCert, X.cert}
          /\ cdnCert' \in {cdnCert, X.cert}
      BY <2>3 DEF Apply, X
    <3> QED
      BY <1>1, <2>1, <3>1, <3>2, <3>3 DEF Served, place
  <2> QED
    BY <1>4, <2>2, <2>3 DEF Deploy
<1> QED
  BY <1>2, <1>3, <1>4 DEF Write

(***************************************************************************)
(* executeTask never takes a newer certificate from the visitors of a      *)
(* domain: whatever both writers and the clean-up do, as long as the place *)
(* checked by the preflight is still the place of the domain.              *)
(***************************************************************************)
THEOREM ExecutorMonotonicity == Spec => ExecutorNeverDowngrades
<1>1. DeploymentInv /\ [Next]_vars
      => [Write("executor") /\ X.checked => Served' >= Served]_vars
  BY ExecutorWrites
<1> QED
  BY <1>1, DeploymentInvariance, PTL DEF Spec, ExecutorNeverDowngrades

=============================================================================
