----------------------------- MODULE Deployment -----------------------------
(***************************************************************************)
(* One domain on its way to the cloud: the executor of its renewal task    *)
(* (daemon.executeTask; the inflight map admits one per domain) and the    *)
(* redeployer of the scan cycle (checkAndRedeploy, which does not ask that *)
(* map) observe where the domain is, ask the cloud once more, and write a  *)
(* certificate there.  The domain moves, certificates age, requests fail   *)
(* and the process stops between any two of their steps.                   *)
(*                                                                         *)
(* Certificates are numbered in the order of issue, 0 is none.  Those up   *)
(* to lapsed have expired, those up to due are to be renewed (they expire  *)
(* within RenewBeforeDays).  Certificate 1 is the one the domain came with. *)
(* A domain is in at most one bucket and on at most one CDN; an account    *)
(* has one bucket.  Discovery has the scan that takes time and meets more. *)
(* The managed flag, tasks and retries are in Renewal.                     *)
(***************************************************************************)
EXTENDS CloudInventory

CONSTANTS
    MaxCert,       \* bound: certificates issued
    MaxMoves,      \* bound: changes of place of the domain
    MaxFaults      \* bound: failed requests and stops of the process

ASSUME DeploymentAssumption ==
    MaxCert \in Nat \ {0} /\ MaxMoves \in Nat /\ MaxFaults \in Nat

VARIABLES
    ossAt, cdnAt,      \* the account of its bucket and of its CDN, or 0
    ossCert, cdnCert,  \* the certificate there
    issued, due, lapsed,
    stored,            \* CertPem and KeyPem of the domain's row
    cached,            \* the observation in memory, while it is fresh (30 s)
    writer,            \* the executor and the redeployer
    moves, faults

place == <<ossAt, cdnAt, moves>>
certs == <<ossCert, cdnCert>>
age == <<issued, due, lapsed>>
vars == <<place, certs, age, stored, cached, writer, faults>>

Writers == {"executor", "redeployer"}
Versions == 0..MaxCert

(***************************************************************************)
(* What one scan says of the domain: where it may be deployed to, if it    *)
(* says that.  stayed, a ghost, says that it still is where it was then.   *)
(***************************************************************************)
Observation == [info : Info, stayed : BOOLEAN]
Unusable == [info |-> Absent, stayed |-> TRUE]

Nothing == [info |-> "nothing in memory"]

(***************************************************************************)
(* cert is what the writer means to deploy, issued whether the executor    *)
(* just ordered it, seen the certificate the redeployer saw at the target; *)
(* checked, a ghost, says that the domain did not move since the last      *)
(* preflight.                                                              *)
(***************************************************************************)
Writer == [pc      : {"idle", "resolve", "preflight", "ensure", "save", "confirm",
                      "recheck", "rows", "check", "write", "clean"},
           obs     : Observation \cup {Unusable},
           cert    : Versions,
           seen    : Versions,
           issued  : BOOLEAN,
           checked : BOOLEAN]
Resting == [pc |-> "idle", obs |-> Unusable, cert |-> 0, seen |-> 0,
            issued |-> FALSE, checked |-> FALSE]

TypeOK ==
    /\ ossAt \in Accounts \cup {0} /\ cdnAt \in Accounts \cup {0}
    /\ ossCert \in Versions /\ cdnCert \in Versions
    /\ issued \in 0..MaxCert /\ due \in 0..issued /\ lapsed \in 0..due
    /\ stored \in 0..issued
    /\ cached \in Observation \cup {Unusable, Nothing}
    /\ writer \in [Writers -> Writer]
    /\ moves \in 0..MaxMoves /\ faults \in 0..MaxFaults

Init ==
    /\ ossAt \in Accounts /\ cdnAt \in Accounts \cup {0}
    /\ ossCert = 1 /\ cdnCert = (IF cdnAt = 0 THEN 0 ELSE 1)
    /\ issued = 1 /\ due = 0 /\ lapsed = 0
    /\ stored \in {0, 1}
    /\ cached = Nothing
    /\ writer = [w \in Writers |-> Resting]
    /\ moves = 0 /\ faults = 0

-----------------------------------------------------------------------------
(***************************************************************************)
(* Observing.                                                              *)
(***************************************************************************)
Fault == faults < MaxFaults /\ faults' = faults + 1
NoFault == UNCHANGED faults

\* A scan that reads the sides oss and cdn of the accounts in these sets, in the
\* order of the accounts and of each account the buckets first.
Scanned(oss, cdn, known) ==
    LET InBucket(info) == IF ossAt \in oss THEN MergeOSS(info, ossAt, {1}, known) ELSE info
        OnCDN(info) == IF cdnAt \in cdn THEN MergeCDN(info, cdnAt, known) ELSE info
        info == IF cdnAt < ossAt THEN InBucket(OnCDN(Absent)) ELSE OnCDN(InBucket(Absent))
    IN IF info # Absent /\ Deployable(info, Accounts \subseteq cdn) /\ info.certKnown
       THEN [info |-> info, stayed |-> TRUE]
       ELSE Unusable

\* A new observation replaces the one in memory; a scan without a fault sees all.
Observe ==
    \/ NoFault /\ cached' = Scanned(Accounts, Accounts, TRUE)
    \/ Fault /\ \E oss, cdn \in SUBSET Accounts, known \in BOOLEAN :
                  cached' = Scanned(oss, cdn, known)

\* 30 seconds pass.
Lapse ==
    /\ cached # Nothing
    /\ cached' = Nothing
    /\ UNCHANGED <<place, certs, age, stored, writer, faults>>

\* cloudstate.Resolve: the observation in memory, if there is one and not forced.
Resolve(force) ==
    IF cached # Nothing /\ ~force THEN UNCHANGED <<cached, faults>> ELSE Observe

-----------------------------------------------------------------------------
(***************************************************************************)
(* The steps of a writer.                                                  *)
(***************************************************************************)
Goto(w, pc) == writer' = [writer EXCEPT ![w].pc = pc]
Stop(w) == writer' = [writer EXCEPT ![w] = Resting]

\* preflight: the target still takes the domain.  Of the CDNs it asks the one
\* of the account of the target.
Accepts_Unasked(info) == TRUE
Accepts(info) ==
    /\ DeployTarget(info) = "cdn" <=> cdnAt = info.account
    /\ DeployTarget(info) = "oss" => ossAt = info.account

Preflight(w) ==
    /\ writer[w].pc \in {"preflight", "recheck"}
    /\ \/ /\ NoFault
          /\ IF Accepts(writer[w].obs.info)
             THEN writer' = [writer EXCEPT
                    ![w].checked = TRUE,
                    ![w].pc = IF w = "executor" /\ @ = "preflight" THEN "ensure" ELSE "write"]
             ELSE Stop(w)
       \/ Fault /\ Stop(w)
    /\ UNCHANGED <<place, certs, age, stored, cached>>

\* The cloud takes the certificate of w, if the domain is there.
Takes(info) ==
    IF DeployTarget(info) = "cdn" THEN cdnAt = info.account ELSE ossAt = info.account

Apply(w) ==
    /\ Takes(writer[w].obs.info)
    /\ IF DeployTarget(writer[w].obs.info) = "cdn"
       THEN cdnCert' = writer[w].cert /\ UNCHANGED ossCert
       ELSE ossCert' = writer[w].cert /\ UNCHANGED cdnCert

\* Behind a CDN, the certificate of the bucket goes.
CleansUp_Always(info) == TRUE
CleansUp(info) == info.origin = "both"

Deploy(w) ==
    /\ writer[w].pc = "write"
    /\ \/ Apply(w) /\ NoFault
          /\ IF CleansUp(writer[w].obs.info) THEN Goto(w, "clean") ELSE Stop(w)
       \/ ~Takes(writer[w].obs.info) /\ NoFault /\ Stop(w) /\ UNCHANGED certs
       \/ Apply(w) /\ Fault /\ Stop(w)                \* the answer is lost
       \/ Fault /\ Stop(w) /\ UNCHANGED certs
    /\ UNCHANGED <<place, age, stored, cached>>

\* The certificate of the bucket behind the CDN is deleted; failures are logged.
Clean(w) ==
    /\ writer[w].pc = "clean"
    /\ \/ NoFault /\ ossCert' = IF ossAt = writer[w].obs.info.oss.account THEN 0 ELSE ossCert
       \/ Fault /\ UNCHANGED ossCert
    /\ Stop(w)
    /\ UNCHANGED <<place, cdnCert, age, stored, cached>>

-----------------------------------------------------------------------------
(***************************************************************************)
(* The executor.                                                           *)
(***************************************************************************)
X == writer["executor"]

Begin ==
    /\ X.pc = "idle"
    /\ Goto("executor", "resolve")
    /\ UNCHANGED <<place, certs, age, stored, cached, faults>>

\* Before the order, and again before the write: then anew if one was placed.
ResolveTarget ==
    /\ X.pc \in {"resolve", "confirm"}
    /\ Resolve(X.pc = "confirm" /\ X.issued)
    /\ IF cached' # Unusable
       THEN writer' = [writer EXCEPT
              !["executor"].obs = cached', !["executor"].issued = FALSE,
              !["executor"].pc = IF @ = "resolve" THEN "preflight" ELSE "recheck"]
       ELSE Stop("executor")
    /\ UNCHANGED <<place, certs, age, stored>>

\* reusableCertificate: valid beyond the threshold.
Reusable_Later(cert, threshold) == cert > threshold + 1
Reusable(cert, threshold) == cert > threshold

\* ensureCert: the stored certificate, if it is not due, or a new one.
Saving(cert, new) == [Resting EXCEPT !.pc = "save", !.cert = cert, !.issued = new]

EnsureCert ==
    /\ X.pc = "ensure"
    /\ \/ /\ Reusable(stored, due)
          /\ writer' = [writer EXCEPT !["executor"] = Saving(stored, FALSE)]
          /\ UNCHANGED issued
       \/ /\ ~Reusable(stored, due) /\ issued < MaxCert
          /\ issued' = issued + 1
          /\ writer' = [writer EXCEPT !["executor"] = Saving(issued', TRUE)]
       \/ ~Reusable(stored, due) /\ Stop("executor") /\ UNCHANGED issued
    /\ UNCHANGED <<place, certs, due, lapsed, stored, cached, faults>>

\* saveCertificate: an expired certificate is refused, a failure stops the task.
SaveFails_Unnoticed == Goto("executor", "confirm")
SaveFails == Stop("executor")

SaveCertificate ==
    /\ X.pc = "save"
    /\ \/ /\ NoFault
          /\ IF Reusable(X.cert, lapsed)
             THEN stored' = X.cert /\ Goto("executor", "confirm")
             ELSE SaveFails /\ UNCHANGED stored
       \/ Fault /\ SaveFails /\ UNCHANGED stored
    /\ UNCHANGED <<place, certs, age, cached>>

-----------------------------------------------------------------------------
(***************************************************************************)
(* The redeployer.  The rows are read after the observation, the check     *)
(* comes when the loop over all domains reaches this one.                  *)
(***************************************************************************)
R == writer["redeployer"]

CertAt(info) == IF DeployTarget(info) = "cdn" THEN cdnCert ELSE ossCert

Cycle ==
    /\ R.pc = "idle"
    /\ Observe
    /\ IF cached' # Unusable
       THEN writer' = [writer EXCEPT !["redeployer"] =
                         [Resting EXCEPT !.pc = "rows", !.obs = cached',
                                         !.seen = CertAt(cached'.info)]]
       ELSE UNCHANGED writer
    /\ UNCHANGED <<place, certs, age, stored>>

\* management.Load: its failure ends the cycle.
LoadRows ==
    /\ R.pc = "rows"
    /\ \/ /\ NoFault
          /\ writer' = [writer EXCEPT !["redeployer"].pc = "check",
                                      !["redeployer"].cert = stored]
       \/ Fault /\ Stop("redeployer")
    /\ UNCHANGED <<place, certs, age, stored, cached>>

\* The target had no certificate, or one that has expired.
NeedsRepair_Expired(seen) == seen > 0 /\ seen <= lapsed
NeedsRepair(seen) == seen <= lapsed

Check ==
    /\ R.pc = "check"
    /\ IF NeedsRepair(R.seen) /\ Reusable(R.cert, lapsed)
       THEN writer' = [writer EXCEPT !["redeployer"].pc = "preflight",
                                     !["redeployer"].seen = 0]
       ELSE Stop("redeployer")
    /\ UNCHANGED <<place, certs, age, stored, cached, faults>>

-----------------------------------------------------------------------------
(***************************************************************************)
(* Around them.                                                            *)
(***************************************************************************)

Outdated(o) == IF o \in {Unusable, Nothing} THEN o ELSE [o EXCEPT !.stayed = FALSE]

\* The domain is bound, unbound, put on a CDN or taken off it.  The new place
\* has no certificate.
Move ==
    /\ moves < MaxMoves
    /\ moves' = moves + 1
    /\ \/ /\ ossAt' \in (Accounts \cup {0}) \ {ossAt}
          /\ ossCert' = 0
          /\ UNCHANGED <<cdnAt, cdnCert>>
       \/ /\ cdnAt' \in (Accounts \cup {0}) \ {cdnAt}
          /\ cdnCert' = 0
          /\ UNCHANGED <<ossAt, ossCert>>
    /\ cached' = Outdated(cached)
    /\ writer' = [w \in Writers |-> [writer[w] EXCEPT !.obs = Outdated(@), !.checked = FALSE]]
    /\ UNCHANGED <<age, stored, faults>>

\* Time passes: the next certificate is to be renewed, or expires.
Age ==
    /\ \/ due < issued /\ due' = due + 1 /\ UNCHANGED lapsed
       \/ lapsed < due /\ lapsed' = lapsed + 1 /\ UNCHANGED due
    /\ UNCHANGED <<place, certs, issued, stored, cached, writer, faults>>

\* The process stops and starts again.
Restart ==
    /\ Fault
    /\ writer' = [w \in Writers |-> Resting]
    /\ cached' = Nothing
    /\ UNCHANGED <<place, certs, age, stored>>

Write(w) == Preflight(w) \/ Deploy(w) \/ Clean(w)
Execute == Begin \/ ResolveTarget \/ EnsureCert \/ SaveCertificate \/ Write("executor")
Redeploy == Cycle \/ LoadRows \/ Check \/ Write("redeployer")

Next == Execute \/ Redeploy \/ Lapse \/ Move \/ Age \/ Restart

(***************************************************************************)
(* The ticker starts cycles for ever, and a cycle creates a task for a     *)
(* domain whose certificate is due (Renewal shows that it is executed); a  *)
(* writer that started goes on, and time passes.                           *)
(***************************************************************************)
Fairness == WF_vars(Execute) /\ WF_vars(Redeploy) /\ WF_vars(Lapse)

Spec == Init /\ [][Next]_vars /\ Fairness

-----------------------------------------------------------------------------
\* What a visitor of the domain gets.
Served == IF cdnAt # 0 THEN cdnCert ELSE ossCert
IsServed == cdnAt # 0 \/ ossAt # 0

(***************************************************************************)
(* A certificate is written to where the domain is served.  A place that   *)
(* changed is found out by the preflight, with one exception: a domain     *)
(* observed in a bucket that went on the CDN of another account since.     *)
(***************************************************************************)
WritesWhereServed ==
    \A w \in Writers : writer[w].pc = "write" /\ writer[w].checked =>
        LET o == writer[w].obs
        IN IF DeployTarget(o.info) = "cdn" THEN cdnAt = o.info.account
           ELSE /\ ossAt = o.info.account
                /\ cdnAt # o.info.account
                /\ o.stayed => cdnAt = 0

(***************************************************************************)
(* A certificate that reached the cloud is in the database: a stop after   *)
(* the write does not lose its key, and a retry does not order another.    *)
(***************************************************************************)
SavedBeforeDeployed == \A c \in {ossCert, cdnCert} : c > 1 => c <= stored

(***************************************************************************)
(* The executor never gives visitors an older certificate than they had,   *)
(* nor takes theirs away when it cleans a bucket, unless the domain moved  *)
(* after its preflight.  (The redeployer may: it deploys the row it read   *)
(* when the cycle began.)                                                  *)
(***************************************************************************)
ExecutorNeverDowngrades ==
    [][Write("executor") /\ X.checked => Served' >= Served]_vars

(***************************************************************************)
(* A domain without a valid certificate gets the stored one while that is  *)
(* valid, whatever failed before (checkAndRedeploy).                       *)
(***************************************************************************)
LapsedIsRepaired ==
    (IsServed /\ Served <= lapsed /\ stored > lapsed)
        ~> (~IsServed \/ Served > lapsed \/ stored <= lapsed)

(***************************************************************************)
(* A certificate that is due gives way to a stored one that is not: also   *)
(* when the redeployer put it back over the new one, and when the answer   *)
(* to the deployment was lost.                                             *)
(***************************************************************************)
NewestIsDeployed ==
    (IsServed /\ Served <= due /\ stored > due)
        ~> (~IsServed \/ Served > due \/ stored <= due)

-----------------------------------------------------------------------------
(***************************************************************************)
(* What the comments say and the code does not do.  "Writes additionally   *)
(* verify the target immediately before deployment" (state.go:52), among   *)
(* others that an OSS domain did not move to a CDN (daemon.go:509).        *)
(***************************************************************************)
VerifiedBeforeWrite ==
    \A w \in Writers : writer[w].pc = "write" /\ writer[w].checked =>
        (DeployTarget(writer[w].obs.info) = "oss" => cdnAt = 0)

=============================================================================
