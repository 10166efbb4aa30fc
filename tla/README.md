# certship in TLA+

certship renews the Let's Encrypt certificates of custom domains on Alibaba Cloud
OSS and CDN. One Go process runs two things side by side: a daemon that scans the
cloud on a ticker, and an API that a web frontend calls. This directory models the
parts in which the program can go wrong in ways its tests do not reach: executors
that race for a domain, rows written from copies that are out of date, restarts in
the middle of an issue, waits and reminders over weeks, and the process-wide
resources (DNS client, ACME account, cloud observation) that goroutines share.

Paths below are relative to `src/backend/` unless they say otherwise.

## Inventory

| Part | State it keeps | Operations | Talks to | What is hard |
|---|---|---|---|---|
| Renewal engine (`internal/daemon`) | `Daemon.inflight`; everything else in the tables | `Run`, `cycle`, `checkAndRedeploy`, `createRenewTasks`, `executePendingTasks`, `executeTask`, `failTask`, `recordFailure`, `ExecuteTaskByID` | tables, observation cache, CA, cloud, notification | races between API and daemon on a domain, stale copies of rows, restarts, lost updates |
| Renew task API (`pkg/logic/renewtask`) | none | `CreateRenewTask` (check, reset, create, goroutine), `ListRenewTasks` | tables, engine | check-then-act against the daemon |
| Certificate API (`pkg/logic/certificate`) | none | `SetCertificateManaged`, `ListCertificates` | `t_domain`, cache | pauses while a task is open; a list sorted anew for each page |
| Tables (`pkg/entschema`, `pkg/database`) | `t_domain`, `t_renew_task`, `t_app_settings`, `t_cloud_account`, channels, users | reads and updates of single rows, no transactions | - | no constraint ties tasks to domains |
| Retry policy (`internal/renewerr`) | none | `Classify`, `Backoff`, `Exhausted` | - | boundaries of the ladder of waits |
| Alert rule (`internal/alert`), delivery (`pkg/database/notification.go`, `internal/notify`) | `notified_state`, `last_notified_at` of `t_domain` | `ShouldNotify`, `SendToAllFeishuChannels` | Feishu | lost messages, reminders that never come |
| Resolver leases (`internal/acme/dns_resolvers.go`) | holders, resolvers, a channel for waiters | `acquire`, `release` | lego's global DNS client | mutual exclusion of configurations, wake-ups, double close |
| ACME account (`internal/acme/manager.go`, `ensureACMEAccount`) | key and registration in `t_app_settings` | `EnsureAccount`, `SaveACMEAccount` | CA | two registrations at once |
| Observation cache (`internal/cloudstate`) | one observation and its key, a gate | `Refresh`, `RefreshAccounts`, `Resolve` | discovery | stale or foreign observations, cancelled loads |
| Discovery and join (`internal/discovery`, `internal/management`, scanners) | none beyond a scan; `Load` creates rows of `t_domain` | `Run`, `Lookup`, `Deployable`, `Complete`, `Load` | cloud SDKs, tables | partial scans, a cloud that changes under them, domains in several places, rows created twice |
| Deployment (`preflight`, `deploy`, `internal/oss/certbinder.go`, `internal/cdn/cdn.go`) | none | check, bind, clean up | cloud SDKs | domains that move, lost answers, an executor beside the redeployer |
| Zone finder (`internal/alidns`) | none | `FindAccountForDomain` | DNS, cloud | pure walk over answers |
| Settings, channel and login API, JWT, passwords | their rows | CRUD | tables | little |
| Server and process (`cmd/certship`, `internal/apiserver`, `pkg/server`) | none | start, stop, routing | all | a stop does not wait for the daemon |
| Frontend (`src/frontend`) | page state | views, auto refresh | API | answers out of order |

What makes them correct, in short: one executor per domain and no lock left behind;
no order at the CA for a domain whose stored certificate is good; nothing deployed
that is not stored; every failing domain either scheduled or blocked; a task claimed
and ended once, and ended at all; every due domain attempted; owners told, but not
the same again without news; one DNS configuration in use at a time and nobody waiting for ever; an
account whose two columns belong together; observations that are the caller's own,
whole and new enough; nothing taken for absent that could not be read; certificates
written where the domain is served, and the newest one served in the end; a list that
is whole or an error.

## Modules

| Module | Models | Kind |
|---|---|---|
| `RetryPolicy` | `Classify`, `Backoff`, `Exhausted`, `withJitter`, `ShouldNotify` | operators |
| `Renewal` | engine, `CreateRenewTask`, `SetCertificateManaged`, the two tables | state machine, over `RetryPolicy`, implements `CertificateCustody` |
| `CertificateCustody` | what the engine promises of certificates: when one is replaced, by whom, and what is bound | abstract specification |
| `RenewalProofs` | theorems about `Renewal`, the refinement of `CertificateCustody` included | proofs |
| `FailureLadder` | one failing domain over weeks, with real durations and the delivery of messages | state machine, over `RetryPolicy` |
| `FailureLadderProofs` | theorems about it, the recursive ladder of waits included | proofs |
| `DnsClientLease` | what a lease promises: any number of holders of one configuration | abstract specification |
| `ResolverLeases` | `acquire`, `release` and the waiters | state machine, implements `DnsClientLease` |
| `ResolverLeasesProofs` | theorems about it, the refinement included | proofs |
| `AcmeAccount` | `ensureACMEAccount` and its concurrent callers | state machine |
| `AcmeAccountProofs` | theorems about it | proofs |
| `ObservationCache` | the cache and its gate | state machine |
| `ObservationCacheProofs` | theorems about it | proofs |
| `CloudInventory` | what is remembered of a domain, the merge of both sides, `Deployable` | operators |
| `Discovery` | one scan of all accounts, over a cloud that changes | state machine, over `CloudInventory` |
| `DiscoveryProofs` | theorems about it | proofs |
| `Deployment` | `Resolve`, preflight, save, write and clean-up of one domain, executor and redeployer | state machine, over `CloudInventory` |
| `DeploymentProofs` | theorems about it | proofs |
| `CertificateList` | `ListCertificates`, `management.Load`, the page's refreshes and a reader of pages | state machine |
| `CertificateListProofs` | theorems about it | proofs |
| `MC*` | constants and symmetry for TLC | instances |

### Renewal

`row[d]` is the `t_domain` row, `task[t]` a `t_renew_task` record, `cloud[d]` the
certificate bound in the cloud, `inflight` the `sync.Map`. `ex[<<t, s>>]` is the
goroutine that runs task `t` for starter `s`: `"api"` is `ExecuteTaskByID`, `"daemon"` a
worker of the pool, so both may exist for one task. `dm` is the goroutine in `cycle`
with the copies it holds, `req[c]` a request in `CreateRenewTask`.

A step ends where the code leaves the process: a query or an update of the database,
a cloud call, an order. Between steps everything interleaves, and the copies a
goroutine took earlier (`ex[e].retry`, `dm.copy`, `dm.snap`, `dm.busy`) are kept, since
writing back what was read too early is what this code is exposed to.

| Code | Action |
|---|---|
| `ExecuteTaskByID` | `Lookup` |
| `executeTask`: `LoadOrStore`, claim, load, preflight, order, save, re-check, deploy, update, close | `Enter`, `Claim`, `Load`, `Prepare`, `Order`, `Save`, `Recheck`, `Deploy`, `Finish`, `Close` |
| deferred `inflight.Delete` | `Leave`, part of every last step |
| `failTask`, `recordFailure` | `Fail`, `Record` |
| `cycle`, `checkAndRedeploy` | `Scan`, `LoadStates`, `Redeploy`, `RedeployDone` |
| `createRenewTasks` | `Select`, `QueryBusy`, `Create`, `CreateDone` |
| `executePendingTasks` | `QueryPending`, `Spawn`, `CycleDone` |
| `CreateRenewTask` | `Request`, `CheckBusy`, `ResetRetry`, `CreateManual` |
| `SetCertificateManaged` | `SetManaged` |
| a stop of the process, ordered or not (`cmd/certship/main.go:67` does not wait) | `Crash` |

Abstractions. Time is counted down: a certificate is the number of ticks it has left,
`next_retry_at` the ticks still to wait, and `Tick` ages the rows, the cloud and every copy
together. `retry_count` stops at `MaxAttempts`, above which no decision depends on it.
`recordFailure` and the update of `notified_state` that follows it are one step with three
outcomes (both saved, or either one lost); the message itself is followed step by step in
`FailureLadder`. Errors are a kind, chosen freely: whatever `Classify` may answer. The
preflight and the deployment are one step each, which `Deployment` takes apart. A finished
task record may be reused as a new one, which is how the table is kept finite. `Scan` takes
any subset of the domains as usable, which stands for what discovery and `Resolve` may say.
`Request` is possible for a domain of `Requested` while it is managed and seen; whoever is
refused changes nothing, and a client that has its answer asks again only with "insist" in
`Interference`.

### FailureLadder

Durations are in units of ten minutes with the code's proportions (30 minutes, 24
hours, 48 hours, a week, eight attempts), and jitter is every value of a tenth around
the nominal wait. `told` is what a channel really delivered, `row.notified` what the
table remembers. The code jitters with random nanoseconds; a tenth of a wait, rounded
down to the unit, is what the properties can tell apart. The domain's certificate is
due throughout, so that each scan that may attempt it does. There is one attempt at a time,
and a user's reset comes between two of them; a reset during an attempt and a second open
task of the domain are in `Renewal`, which has no durations.

A failure is of a kind that `Classify` returns for some error. `Errors` are the classes
its checks tell apart (an ended context, the mark of `Permanent`, whose answer it was,
the meaning of its code, its status), and the order of the checks is that of the code.
The ghost `passing` is what is to be expected of the error whatever it is called
(`MayPass`): `GivesUpSlowly` speaks of that, so that it fails when an error that may pass
is classified as permanent.

### ResolverLeases

A step is a critical section of `l.mu` or one leg of the select in `acquire`. Channels
are identities that `make` takes from a pool once nobody refers to them. The abstract
lease knows only who holds which configuration.

### AcmeAccount

A job is one call of `ensureACMEAccount` with the settings read before it. An account
is identified by its key, a registration by the key it was made with. The call that
fails at the CA may have made the account all the same. A column that cannot be parsed ends
the call as a registration without a key does, and is not told from it.

### ObservationCache

An observation is the key of the accounts it was made for and the times its load
began and ended. A rescan of one account and a refresh of all of them go through the
same single entry, with different keys; each change of the accounts is a new key, since
`updated_at` is part of what is hashed. A context may end at any time, and the select
at the gate may take either leg if both are ready.

### CloudInventory and Discovery

`oss` and `cdn` are the cloud: which domains are bound to which bucket, and the list of
domains of the CDN of each account, where those that are offline take a place too. A step
of the scan is one answer: a `ListCname` of a bucket (`ListBucket`), the end of the OSS
side of an account (`AddOSS`, `ScanFails`), the next page of its CDN list (`ListPage`,
`ListCDNFails`), the certificates of the domains on it (`AddCDN`). `found` is `byDomain`,
`coverage` what was seen completely. Accounts are numbers in the order of the scan; the
code identifies them by their names, which `t_cloud_account` keeps unique. A certificate
is only known or not. The buckets of an account come in one answer, since `ListBuckets`
goes on from the last name it gave.

`Move` changes the cloud between any two steps. The code asks for the CDN list page by
page, by number (`internal/cdn/scanner.go:45`), so that a domain which enters or leaves the
list shifts those behind it: one that is shifted from a page still to come to a page
already read is missed, one that is shifted the other way is read twice, and the scan
notices neither. The ghost `moved` keeps the domains that changed themselves, `slipped`
those that were shifted across the border between read and unread pages, and `Steady` are
the others. **`ScanIsSound`, `TargetIsServed`, `CompleteIsExact` and `AmbiguousIsDisputed`, and
the theorems about them, speak of steady domains only.** Of the others a scan promises
nothing, and the code keeps nothing: a domain that was missed is deployed to its bucket
although a CDN serves it, or is absent from a result that says it is complete; one that was
read twice is refused as ambiguous with a single place (Findings). What remains for them is
that preflight asks again before a write, as far as `WritesWhereServed` of `Deployment`
says. A change behind the pages already read shifts nobody across the border, and
excuses nobody but the domain that changed.

`TargetIsServed` and `CompleteIsExact` are what the rest of the program takes a scan for:
the place to write to, and the truth. `AmbiguousIsDisputed` is about the merge, which sets
and forgets `Ambiguous` as the hits come in.

### Deployment

One domain, in at most one bucket and on at most one CDN of any of the accounts. The
`executor` is `executeTask` from `Resolve` to `deploy`, the `redeployer` is
`checkAndRedeploy` for this domain; the first holds the domain in `inflight`, the second
does not ask. Certificates are numbers in order of issue, so that an older one can be
told from a newer one; `due` and `lapsed` separate the fresh, the due and the expired.
`cached` is the observation in memory, which the executor may share and the cycle
replaces; `Scanned` applies the merges of `CloudInventory` to the two places the domain has
in the order of the accounts, and the OSS side of an account before its CDN side, as
`run` meets them.

| Code | Action |
|---|---|
| `executeTask`: `Resolve`, preflight, `ensureCert`, `saveCertificate`, `Resolve`, preflight, `deploy` | `ResolveTarget`, `Preflight`, `EnsureCert`, `SaveCertificate`, `ResolveTarget`, `Preflight`, `Deploy`, `Clean` |
| `cycle`, `management.Load`, `checkAndRedeploy` | `Cycle`, `LoadRows`, `Check`, `Preflight`, `Deploy`, `Clean` |
| freshness of 30 seconds | `Lapse` |
| a failed request, a lost answer, a stop of the process | the disjuncts with `Fault`, `Restart` |
| the user's changes in the cloud, the clock | `Move`, `Age` |

The write and the clean-up behind a CDN are two steps, since the process may stop between
them. The rows are read after the observation they are compared with. The two questions of a
preflight, for the CDN and for the bucket, are one step. Left out: that preflight compares
the keys of the account with its row, and everything `Renewal` has (tasks, retries, the
managed flag).

### CertificateList

Three requests of `ListCertificates` run at once: two refreshes of the web page and one of a
reader that follows the cursors. A request observes the cloud, reads the rows of what it saw
in one query, creates those that are missing one by one (a constraint error makes it read
the row of the other), sorts, and answers; each of these queries may fail. Ids are taken in
any order, as UUIDs are. The sort is not a sequence: a page is what follows the cursor in
the order, up to an item with `Limit` of them at or before it. The web page keeps the last
answer; `Started`, `Succeeded` and `Failed` are its three state changes, and refreshes
overlap as `useAutoRefresh` lets them. `UnchangedIsReadOnce` excepts a reader one of whose
cursors moved between two pages: the next page then starts at its new place, which keeps and
skips what it will. The code answers with an error only when the cursor has left the list.

## Runs

| Run | Question | Bounds |
|---|---|---|
| `renewal_users` | Are exclusion, quota, stored material and the life of a task kept when the daemon and a user work on one domain and the process may restart or the database fail at any point? | 1 domain, 2 tasks, 1 request, 2 attempts, 1 fault, 1 crash |
| `renewal_scheduled` | Does the engine keep its promise about certificates (`CertificateCustody`), the rows consistent and the inductive invariant of the proofs, for the daemon alone, with every kind of error, pauses, new bindings, and time that passes inside every step? | 2 tasks, 2 faults, 1 crash |
| `live_pool` | Do tasks end, and is every due domain attempted, when two domains share a pool of one and a user renews one of them beside the daemon? | 2 domains, 2 tasks, 1 request for one of the domains, 1 attempt |
| `ladder` | Are reminders sent, and nothing told again that is not news; is a domain given up too fast; is a rate limit respected? | 8 attempts, real durations, a scan every 6 hours, 1 mishap |
| `leases` | Do the leases implement `DnsClientLease`, wake and serve everybody? | 3 issues, 2 configurations, 5 calls |
| `account` | Do overlapping calls keep key and registration together, and how many accounts do they make? | 3 jobs, 6 keys, 1 loss, 1 fault, 1 crash |
| `cache` | Whose observation is a caller given, how old is it, and does every call return? | 2 callers, 1 change of the accounts, 2 ticks |
| `discovery` | Is a scan the truth about what it covered, whatever fails and moves, and is the inductive invariant of the proofs kept? | 2 accounts of 2 buckets, 2 domains in up to 3 places, CDN pages of 1, 1 move |
| `deployment` | Where do certificates go, is one ever lost, and is the newest valid one served in the end? | 2 accounts, 2 certificates, 1 move, 1 fault |
| `list` | Does every item have its row, is a page after page reading whole, is an empty page true? | 3 domains, 2 refreshes, pages of 1, 1 change, 1 failure |
| `doc_running`, `doc_reminder` | Statements of docs and comments that the code does not keep (see Findings) | as small as shows it |

Why the bounds are enough to meet the hard cases. One domain and two tasks give two open
tasks of a domain, two executors of the same task and an executor of each starter; all state
is per domain but the pool, which `live_pool` shares between two. Two attempts tell a first
failure from the last one. `CertLife = 2` with `RenewBefore = 1` distinguishes fresh, due
and lapsed certificates; `renewal_scheduled` has a life of three, so that a certificate
which is not yet due can be told from a new one. In `live_pool` the user and the daemon may
both create a task for the domain he asks for: one of the two finds the domain in `inflight`
and stays open, for the next cycle to execute. The request is answered once, its goroutine
(`ExecuteTaskByID`) holds the domain while the pool of one works on the other. What this
instance gives up is the retry by time: a certificate lives for one tick and is due when
that is over, and one failure blocks a domain, since `MaxAttempts` is 1 and every error
transient. Retries after a wait are in the safety runs only. `ladder` scans every six hours:
often enough that the short waits of the ladder differ, and seldom enough that several pass
between attempts. Three issues with two configurations give a holder, a waiter with the same
and one with the other configuration; five calls let some come back. Three jobs on six keys
leave keys over in every behaviour that keeps the bound of `RegistrationsBounded` without a
mishap. For the cache, a freshness of one tick in a life of two lets an observation be
shared, lapse and be replaced. Two accounts of two buckets put a domain in two buckets of
one account, in two accounts, on two CDNs, and behind a CDN that is met before or after its
bucket, three places being what a CDN with two buckets needs. Domains interact in a scan
through the pages of a CDN list: two of them on pages of one let either shift the other, out
of the list or into one twice, and one change is enough for that. With `Steady` weakened to
`Domains \ moved` the run fails, so that the case does occur. In `deployment` two
certificates are the old and the new one, and one move and one fault at any step leave the
other writer and the retry to answer them. Three domains in pages of one give a cursor that
moves past both others, and two refreshes create one row at once. What the proofs cover does
not rest on these bounds.

`MaxFaults`, `MaxCrashes`, `MaxLost`, `MaxMishaps`, `MaxStarts`, `MaxUpdates`, `MaxTime`,
`MaxMoves`, `MaxCert`, `MaxChanges` and `MaxExpiry` bound
how often the environment acts, `MaxPlaces` how many places hold a domain when it starts;
`Requested` are the domains that clients ask to renew, `TickWhenBusy` says whether time may
pass while executors run, `Interference` what users do besides renewing once ("insist":
they ask again). Deadlock is off only in
`leases`, where all the calls may have been made.

### Fairness

The liveness of the engine assumes that goroutines are scheduled and the ticker
fires (weak fairness of every step of the cycle and of each executor), and that the
observation of the cloud and the preparation of the account do not fail for ever
(strong fairness of a full `Scan` and of a `QueryPending` that finds an account).
Nothing is assumed of orders, deployments, time or users. There are no faults or
crashes in these runs because the properties are false with them: a task whose last
update is lost, or whose process stopped, stays in `running` (finding `doc_running`).
The leases assume that an issue ends and that the mutex and the scheduler are fair.
The cache assumes that a load ends (its requests time out) and strong fairness of
the gate: senders on a Go channel are served in order of arrival. `Deployment` assumes
weak fairness of the executor, the redeployer and the lapse of an observation: the
ticker starts cycles for ever, a cycle creates a task for a domain that is due, and
`Renewal` shows that it is executed. That holds of a domain that is neither paused nor
blocked. Its faults are bounded, so that what must happen in the end may be delayed by
any one of them.

## Proofs

`RenewalProofs` proves for all values of the constants, from `PolicyAssumption` and
`EngineAssumption` (delays and bounds are natural numbers, there is a domain, a new
certificate lives longer than `RenewBefore`):

- `InvTheorem`: `Spec => []RenewalInv`, from which `TypeTheorem`, `ExclusionTheorem`
  (`OneExecutorPerDomain`), `OrderTheorem` (`NoWastedOrder`), `StoredTheorem`
  (`DeployedIsStored`) and `ScheduleTheorem` (`FailureIsScheduledOrBlocked`) follow;
- `TaskTheorem`: `Spec => TaskEndsOnce`;
- `CustodyTheorem`: `Spec => ImplementsCustody`, the refinement of `CertificateCustody`.

None is inductive alone. Exclusion needs `DaemonPool`: a worker that has yet to be
spawned does not run already. `NoWastedOrder` needs `CopyIsStored`: between the load
and the end the material an executor decided on is still what the row holds. That
needs exclusion, for only the holder of the domain writes its material.
`TaskEndsOnce` needs `ClaimedIsRunning`: who is past the claim finds its task running.
The consistency of rows holds by itself, given that what `failTask` records is a kind
(`RecordsAKind`) and what `Backoff` returns (lemmas `BackoffType`, `FailedRows`). The
proof of preservation has one lemma per group of actions and a step for each action.

The refinement maps what is `held` to `inflight`, what is `stored` to the material of the
rows, what is `bound` to the cloud, and the `spare` certificates to the copies that
`checkAndRedeploy` read and has yet to look at. Every step of the engine is then one step of
the promise or none: `LoadOrStore` holds, each return releases, a save of a new certificate
replaces, a deployment binds what is stored, a round of the redeploy loop uses up what was
read. The save is what makes it hard: that it replaces only what is due, and only by what
lasts longer, is decided at the load and at the order, while time goes on and both
certificates age. `SaveIsRenewal` carries it from there (lemma `RenewsAged` over a tick),
and exclusion keeps the row as it was. The promise lets the daemon bind a certificate that
has been replaced since it was read, once per loop and domain, because the code does
(hazard `daemon.go:183`); that the newest is bound in the end is `NewestIsDeployed` of
`Deployment`.

`ResolverLeasesProofs` proves, from `LeaseAssumption`, that `LeaseInv` (the count is the
number of holders, a holder's configuration is the installed one, the channel in use
is open while somebody holds) is invariant, hence `ClientIsMine`, `NoDoubleClose` and
`NoLostWakeup`, and that the leases implement `DnsClientLease`.

`DiscoveryProofs` proves, from `InventoryAssumption` and `DiscoveryAssumption`,
`TypeCorrect` and `ScanSoundness` (`ScanIsSound`), and from it `TargetSoundness`
(`TargetIsServed`), `CompleteExactness` (`CompleteIsExact`) and `AmbiguityExactness`
(`AmbiguousIsDisputed`), all four of steady domains, for any number of domains and any size
of a page. The three properties speak of the end of a scan, and none of them is inductive:
`ScanIsSound` says the same halfway, of the accounts covered so far. Its parts say that
coverage only has accounts the scan has passed, that the hits of the current account are
real and, up to a bucket that failed, all there are, that the names taken from its CDN list
are the online domains on the pages read, each met once (`PagesAreReal`), and what a
remembered domain and an absent one show of the covered accounts. A domain that moves or
slips during the scan falls out of all of them at once, and with the last page, the first
that is not full, the first pages are the list (`PagesOfAList`). Two lemmas say what a merge
of either side does to them, and one for each action carries them on.

`AcmeAccountProofs` proves, from `AccountAssumption` (bounds, finite sets, and at least
the job of the cycle), `StoredAccount` (`StoredIsRegistered`) and `UsedAccount`
(`UsedIsRegistered`). The strengthening adds that the copy of the settings a job holds was
a pair that belonged together, and that what a job is about to save is registered.
`RegistrationsArePaidFor` (`RegistrationsBounded`) counts: `Charged` says who pays for the
accounts at the CA. While no registration is stored, each is paid for by a job that is
about to save it or by a failure; once one is stored it stays, and what can still be added
is one for every job that read the settings before. `RegistrationsBounded` alone is not
inductive, since it does not tell these jobs from those that have registered already.

`ObservationCacheProofs` proves `ResultOfKey`,
`ForcedObservation`, `SharedObservation` and `WholeObservation` (`ResultIsMine`, `ForcedIsNew`,
`SharedIsFresh`, `NoPartialResult`) and that the gate has one holder (`GateExclusion`).
They need what is known before anybody takes the cached entry: that it is whole, and
fresh for no longer than `Freshness` after its load ended.

`DeploymentProofs` proves, from `InventoryAssumption` and `DeploymentAssumption`,
`DeploymentTypes` (`TypeOK`, which the others rest on and no run lists), `WritesReachTheDomain`
(`WritesWhereServed`), `DeployedIsStored` (`SavedBeforeDeployed`) and `ExecutorMonotonicity`
(`ExecutorNeverDowngrades`). `DeploymentInv` adds what makes them inductive: an observation
that the domain did not outlive names the place where it is (`Sound`; lemma `ScanSoundness`
shows it of `Scanned`, for any subset of the answers of a scan), a writer past its
preflight holds one, what the executor has in hand is what the row holds between the save
and the end, and what the redeployer has is no newer than the row. The redeployer is why
`SavedBeforeDeployed` says nothing of the order of its writes: it may put an older
certificate in place, and only the executor never does.

`FailureLadderProofs` proves, from `PolicyAssumption` and `LadderAssumption`:

- `OwnerIsReminded` (`FailingIsReminded`): the silence is no longer than the time since the
  last message the row remembers, and what lost messages cost (`RemindedOK`);
- `PatienceWithErrors` (`GivesUpSlowly`): a domain that has failed `n` times with errors that
  may pass has been failing for at least the sum of the `n - 1` waits before, jitter
  subtracted (`LadderOK`). The sum is the recursive function `Ladder`; that it is what its
  definition says for every `n` is `LadderClimbs`, by induction in the form that a set of
  counterexamples has a least member (`LeastNumber`, from the well-foundedness of `<`);
- `OwnerHearsOnlyNews` (`OnlyNewsIsTold`), an action property, from the same invariant: a
  delivered fault is another one than was delivered last or comes `RepeatInterval` after it,
  and a delivered "ok" follows a fault. Every change of state is news, as `alert.go:35` has
  it: a domain that fails, recovers and fails again within a day makes three messages, of
  which the last is like the first. No bound on the number of messages is claimed;
- `RateLimitIsRespected`: `LimitOutlastsScan /\ Spec => RateLimitOutlastsScan`. The hypothesis,
  that a scan interval is shorter than the shortest wait after a rate limit, is what
  `renewerr.go:28` asks for and nothing in the code enforces (see Findings).

`LadderAssumption` holds for the constants of `renewerr.go` and `alert.go`: `MaxDelay` (24 hours)
is no longer than `RateLimitedDelay` (48 hours), and the waits of `MaxAttempts - 1` (7)
failures fit in one `RepeatInterval` (a week). Without the first the bound of
`FailingIsReminded`, which speaks of one wait after a rate limit, would be too short; the
second keeps the ladder below the horizon at which the clock `failing` stops.

`CertificateListProofs` proves, from `ListAssumption`, `ItemsHaveRows`
(`EveryItemHasItsRow`), `PagesAreComplete` (`UnchangedIsReadOnce`) and `EmptyMeansNone`
(`EmptyIsTrue`). The invariant has a part for each. Rows: what a request knows of a row is
true or not known yet, since a row is never replaced, and an id has one domain. Reader:
between two pages, the cursor has a place in the observation of the last one, and of the
domains that did not change exactly those at or before it were given (`ReadUpTo`). It is
measured in that observation, not in the cloud as it is: the cursor's own certificate may
change any time, and only a change found by the next request disturbs. Lemma
`RestIsUnread` carries it over an answer. Page: `Accounted` holds of every answer on its own, which
is why no order of answers can break it.

Each inductive invariant was checked by TLC on the instance of its run before it was
proved. Only model-checked: liveness (`TasksEnd`, `DueIsAttempted`, `EveryoneIsServed`,
`EveryCallReturns`, `LapsedIsRepaired`, `NewestIsDeployed`), which rests on fairness and
`ENABLED`, out of this prover's reach. That `AnswerReader` always finds the last item of a
page, without which `PagesAreComplete` would speak of fewer behaviours than there are, is
a fact about finite orders that is not proved either; TLC meets every page of the
instances, and with the list sorted as a sequence it finds the same states.

## Findings

Statements of the repository that its code does not keep. The first two are runs that
end in a counterexample; `PROJECT.json` quotes the lines.

- `doc_running`: a process that stops after the claim leaves a task in `running` for ever;
  the domain is then refused by daemon and API alike. An ordinary stop does it too.
- `doc_reminder`: a blocked domain is never reported again.

The others are stated in the modules as well, and each is violated when it is added to a
configuration. They are not runs of their own, to keep the list of runs to one for each
question:

- `FailuresAreConsecutive` (`Renewal`; `pkg/entschema/domain.go:51`): `retry_count` is
  written from an old copy and undoes a reset (`daemon.go:644`). One domain, two tasks,
  three attempts, one request for that domain, `Interference = {"pause", "rebind"}`,
  `TickWhenBusy = TRUE`, transient errors only, no faults.
- `RegistersOnce` (`AcmeAccount`; `internal/acme/manager.go:66`): the daemon and the API
  each register an account on a fresh database (`daemon.go:101`). Two jobs, three keys,
  no faults.
- `VerifiedBeforeWrite` (`Deployment`; `internal/cloudstate/state.go:52-54` says that writes
  verify the target): of a domain observed in a bucket, preflight asks only the CDN of
  the account of that bucket (`daemon.go:509`), so one that went on the CDN of another
  account is not found out, and its certificate is written to the bucket alone. The
  constants of `deployment.cfg`. `WritesWhereServed` is what does hold.
- `FailureIsNotAbsence` (`Discovery`; `internal/discovery/discovery.go:74-75` says that a
  failed query is never evidence of absence): a domain whose bucket could not be listed
  is simply missing from `Domains`, and `Deployable` does not ask for the OSS side, so that
  a domain seen in one bucket is deployed to although another one, in an account that
  failed, competes for it. The constants of `discovery.cfg`.
- `CompleteIsExact` and `TargetIsServed` without "did not slip" (`Discovery`, `Steady` replaced by
  `Domains \ moved`; `internal/discovery/discovery.go:116` says that a complete result
  includes all pages): CDN pages are asked for by number (`internal/cdn/scanner.go:45`), so
  that a deletion between two of them hides a domain that stayed. No request fails, and the
  result is complete. The constants of `discovery.cfg`.
- `OneActiveTaskPerDomain`, `NoTaskBeforeRetry`, `OnlyExhaustedIsBlocked` (`Renewal`, with the
  constants of `FailuresAreConsecutive`): the daemon and the API both create a task; a task
  is created in spite of a failure recorded after the query; a row is scheduled and
  blocked at once. `RememberedWasSent` (`FailureLadder`, `doc_reminder.cfg` with
  `MaxMishaps = 1`): a lost message is remembered as sent; and `RateLimitOutlastsScan` for a
  scan interval of sixty hours (`ScanInterval = 360`).

Two more were met in reading and need no model. `renew_task.go:63` says the list of tasks
is ordered by `(created_at DESC, id DESC)`, but the query orders by `created_at` alone
(`renew_task.go:48`), so tasks of one instant may be skipped at the border of a page.
`renewerr.go:102` says a cancelled context should not count as a failure of the domain;
`Classify` makes it a transient error, which `recordFailure` counts (`daemon.go:644`).

## Not modelled

The zone finder, the paging of `ListRenewTasks`, the settings, channel and login API, the
parser of times, the other pages of the frontend and generated code; `PROJECT.json` gives
the reason for each. Generated code is two thirds of the repository's lines (`pkg/ent`,
`pkg/api`): a client of the tables and stubs of the protocol, which the models use through
the handlers that call them; the hand-written backend has some 3,800 lines. Two hazards
need no model: the panic of `time.NewTicker` for an interval that is not positive
(`daemon.go:59`), and issues that starve behind a stream of others with the old resolvers
(`dns_resolvers.go:30`), which a bounded number of calls excludes.

## Plan

What is left, in this order.

1. Refinement: that `Deployment` implements the step `Deploy` of `Renewal`; an abstract
   account of the observation cache.
2. The paging of `ListRenewTasks` while tasks are added.
3. `ZoneFinder`: the walk against a reference. `Settings`: `UpdateAppSettings` beside
   `SaveACMEAccount` and a running cycle.
