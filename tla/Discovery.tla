----------------------------- MODULE Discovery ------------------------------
(***************************************************************************)
(* discovery.Run: one scan of the enabled accounts, in order, the OSS side *)
(* of an account before its CDN side.  Each request may fail, which makes  *)
(* the coverage smaller and never ends the scan, and the cloud may change  *)
(* between any two requests.                                               *)
(*                                                                         *)
(* A step is one answer of the cloud.  The CDN domains of an account are   *)
(* asked for by page number, whatever their status, and only those that    *)
(* are online are taken; a page is the part of the list as it is when that *)
(* page is asked for.  The list of an account is kept in the order of the  *)
(* numbers of its domains.  The buckets of an account come in one answer:  *)
(* ListBuckets goes on from the last name it gave, so that a change does   *)
(* not shift what is still to come.  The certificates of the domains of a  *)
(* CDN list are asked for after its last page: of them only "could not be  *)
(* read" matters here.                                                     *)
(***************************************************************************)
EXTENDS CloudInventory

CONSTANTS
    NumDomains,    \* domains that may be bound anywhere
    PageSize,      \* domains on a page of a CDN list
    MaxPlaces,     \* bound: places where domains are to begin with
    MaxMoves       \* bound: changes in the cloud

ASSUME DiscoveryAssumption ==
    /\ NumDomains \in Nat \ {0}
    /\ PageSize \in Nat \ {0}
    /\ MaxPlaces \in Nat
    /\ MaxMoves \in Nat

Domains == 1..NumDomains

\* A domain of a CDN list that is not online takes a place in the list.
CDNStatus == {"none", "offline", "online"}

VARIABLES
    oss,           \* custom domains of buckets that are Enabled
    cdn,           \* the status of a domain on the CDN of an account
    moves,         \* changes of the cloud so far
    moved,         \* ghost: the domains that changed since the scan began
    slipped,       \* ghost: those that changed pages while a list was read
    scan,          \* where the scan is, and what it has seen of the account
    found,         \* byDomain
    coverage       \* the accounts of which all of a side was seen

vars == <<oss, cdn, moves, moved, slipped, scan, found, coverage>>

At(pc, a) == [pc |-> pc, account |-> a, bucket |-> 1, hits |-> {}, missed |-> FALSE,
              pages |-> 0, names |-> {}, twice |-> {}]
Idle == At("idle", 1)

Scan == [pc      : {"idle", "oss", "cdn", "certs", "done"},
         account : Accounts,
         bucket  : 1..(NumBuckets + 1),
         hits    : SUBSET (Buckets \X Domains),
         missed  : BOOLEAN,
         pages   : Nat,               \* pages of the CDN list read so far
         names   : SUBSET Domains,    \* the online domains on them
         twice   : SUBSET Domains]    \* those of names met on two pages

TypeOK ==
    /\ oss \subseteq Accounts \X Buckets \X Domains
    /\ cdn \in [Accounts -> [Domains -> CDNStatus]]
    /\ moves \in 0..MaxMoves
    /\ moved \subseteq Domains
    /\ slipped \subseteq Domains
    /\ scan \in Scan
    /\ found \in [Domains -> Info \cup {Absent}]
    /\ coverage \in [oss : SUBSET Accounts, cdn : SUBSET Accounts]

Init ==
    /\ oss \in SUBSET (Accounts \X Buckets \X Domains)
    /\ cdn \in [Accounts -> [Domains -> CDNStatus]]
    /\ Cardinality(oss) + Cardinality({p \in Accounts \X Domains : cdn[p[1]][p[2]] # "none"})
         =< MaxPlaces
    /\ moves = 0
    /\ moved = {}
    /\ slipped = {}
    /\ scan = Idle
    /\ found = [d \in Domains |-> Absent]
    /\ coverage = [oss |-> {}, cdn |-> {}]

-----------------------------------------------------------------------------
(***************************************************************************)
(* The scan.                                                               *)
(***************************************************************************)

cloud == <<oss, cdn, moves, moved, slipped>>

Start ==
    /\ scan.pc \in {"idle", "done"}
    /\ scan' = At("oss", 1)
    /\ found' = [d \in Domains |-> Absent]
    /\ coverage' = [oss |-> {}, cdn |-> {}]
    /\ moved' = {}
    /\ slipped' = {}
    /\ UNCHANGED <<oss, cdn, moves>>

\* ListCname of the next bucket answers, or fails: then the bucket is not covered.
ListBucket ==
    /\ scan.pc = "oss"
    /\ scan.bucket \in Buckets
    /\ \/ scan' = [scan EXCEPT
                     !.bucket = @ + 1,
                     !.hits = @ \cup {<<scan.bucket, d>> : d \in
                          {x \in Domains : <<scan.account, scan.bucket, x>> \in oss}}]
       \/ scan' = [scan EXCEPT !.bucket = @ + 1, !.missed = TRUE]
    /\ UNCHANGED <<found, coverage, cloud>>

\* The buckets of the account cannot be listed: what was seen of them is dropped.
ScanFails ==
    /\ scan.pc = "oss"
    /\ scan' = At("cdn", scan.account)
    /\ UNCHANGED <<found, coverage, cloud>>

SawAll_Anyway(missed) == TRUE
SawAll(missed) == ~missed

\* All buckets were tried: their domains enter the result, unread ones of them
\* with a certificate that cannot be parsed.
AddOSS ==
    /\ scan.pc = "oss"
    /\ scan.bucket = NumBuckets + 1
    /\ LET of(d) == {b \in Buckets : <<b, d>> \in scan.hits}
       IN \E unread \in SUBSET {d \in Domains : of(d) # {}} :
            found' = [d \in Domains |->
                        IF of(d) = {} THEN found[d]
                        ELSE MergeOSS(found[d], scan.account, of(d), d \notin unread)]
    /\ coverage' = IF SawAll(scan.missed)
                   THEN [coverage EXCEPT !.oss = @ \cup {scan.account}]
                   ELSE coverage
    /\ scan' = At("cdn", scan.account)
    /\ UNCHANGED cloud

IsLast_Beyond(a) == a > NumAccounts
IsLast(a) == a = NumAccounts

NextAccount ==
    scan' = IF IsLast(scan.account)
            THEN At("done", scan.account)
            ELSE At("oss", scan.account + 1)

(***************************************************************************)
(* The CDN list of account a: the place of a domain in it, what its first  *)
(* k pages hold, and whether page k is the last, the first not to be full. *)
(***************************************************************************)
Listed(a) == {d \in Domains : cdn[a][d] # "none"}
Position(a, d) == Cardinality({e \in Listed(a) : e =< d})
FirstPages(a, k) == {d \in Listed(a) : Position(a, d) =< k * PageSize}

LastPage_OnlineOnly(a, k) ==
    Cardinality({d \in FirstPages(a, k) \ FirstPages(a, k - 1) : cdn[a][d] = "online"})
        < PageSize
LastPage(a, k) == Cardinality(Listed(a)) < k * PageSize

\* DescribeUserDomains answers the next page.
ListPage ==
    /\ scan.pc = "cdn"
    /\ LET a == scan.account
           k == scan.pages
           online == {d \in FirstPages(a, k + 1) \ FirstPages(a, k) : cdn[a][d] = "online"}
           last == LastPage(a, k + 1)
       IN scan' = [scan EXCEPT !.pc = IF last THEN "certs" ELSE "cdn",
                               !.pages = IF last THEN 0 ELSE k + 1,
                               !.names = @ \cup online,
                               !.twice = @ \cup (scan.names \cap online)]
    /\ UNCHANGED <<found, coverage, cloud>>

\* Any page fails: the pages before it are dropped with it.
ListCDNFails ==
    /\ scan.pc = "cdn"
    /\ NextAccount
    /\ UNCHANGED <<found, coverage, cloud>>

\* The domains of the list enter the result, DescribeCert fails for unread ones
\* of them.  A domain that is in the list twice is merged with itself.
AddCDN ==
    /\ scan.pc = "certs"
    /\ \E unread \in SUBSET scan.names :
         LET merge(info, d) == MergeCDN(info, scan.account, d \notin unread)
         IN found' = [d \in Domains |->
                        IF d \notin scan.names THEN found[d]
                        ELSE IF d \in scan.twice THEN merge(merge(found[d], d), d)
                        ELSE merge(found[d], d)]
    /\ coverage' = [coverage EXCEPT !.cdn = @ \cup {scan.account}]
    /\ NextAccount
    /\ UNCHANGED cloud

\* The context ends: RefreshAccounts returns its error and no result.
Cancel ==
    /\ scan.pc \in {"oss", "cdn", "certs"}
    /\ scan' = Idle
    /\ UNCHANGED <<found, coverage, cloud>>

-----------------------------------------------------------------------------
(***************************************************************************)
(* The cloud changes: a domain is bound, unbound, put on a CDN, taken off  *)
(* it, or its status there changes.                                        *)
(*                                                                         *)
(* A domain that enters or leaves a list shifts the ones behind it.  One   *)
(* that is shifted from a page to come to a page already read is missed,   *)
(* one that is shifted the other way is read twice: it slips.  The cloud   *)
(* does not tell, and neither does the code notice.                        *)
(***************************************************************************)
Toggle(s, x) == IF x \in s THEN s \ {x} ELSE s \cup {x}

PageIsRead(d) == scan.pc = "cdn" /\ d \in FirstPages(scan.account, scan.pages)

Move(d) ==
    /\ moves < MaxMoves
    /\ moves' = moves + 1
    /\ \/ \E a \in Accounts, b \in Buckets :
            oss' = Toggle(oss, <<a, b, d>>) /\ UNCHANGED cdn
       \/ \E a \in Accounts, s \in CDNStatus :
            s # cdn[a][d] /\ cdn' = [cdn EXCEPT ![a][d] = s] /\ UNCHANGED oss
    /\ UNCHANGED <<scan, found, coverage>>
    /\ moved' = moved \cup {d}
    /\ slipped' = slipped \cup {x \in Domains : PageIsRead(x) # PageIsRead(x)'}

Next ==
    \/ Start
    \/ ListBucket
    \/ ScanFails
    \/ AddOSS
    \/ ListPage
    \/ ListCDNFails
    \/ AddCDN
    \/ Cancel
    \/ \E d \in Domains : Move(d)

Spec == Init /\ [][Next]_vars

-----------------------------------------------------------------------------
(***************************************************************************)
(* The result, once the scan is done.                                      *)
(***************************************************************************)
CDNComplete == Accounts \subseteq coverage.cdn

MayDeploy(d) == found[d] # Absent /\ Deployable(found[d], CDNComplete)

Complete ==
    /\ CDNComplete
    /\ Accounts \subseteq coverage.oss
    /\ \A d \in Domains :
         found[d] # Absent => MayDeploy(d) /\ found[d].certKnown

\* Where the domain really is.
OnCDN(d) == {a \in Accounts : cdn[a][d] = "online"}
InBuckets(d) == {b \in Binding : <<b.account, b.bucket, d>> \in oss}

\* Two places compete for its certificate.
Disputed(d) ==
    \/ \E a, b \in OnCDN(d) : a # b
    \/ OnCDN(d) = {} /\ \E b, c \in InBuckets(d) : b # c

\* The domains a scan can be right about: those that did not change since it
\* began and did not slip from one page of a list to another while it was read.
Steady == Domains \ (moved \cup slipped)

-----------------------------------------------------------------------------
(***************************************************************************)
(* Whatever requests failed and whatever else changed, a steady domain is  *)
(* written to only where it is served: on a CDN that has it online, or in  *)
(* a bucket that has it when no CDN does (Deployable needs CDNComplete for *)
(* that).                                                                  *)
(***************************************************************************)
TargetIsServed ==
    \A d \in Steady : scan.pc = "done" /\ MayDeploy(d) =>
        IF DeployTarget(found[d]) = "cdn"
        THEN found[d].account \in OnCDN(d)
        ELSE /\ found[d].oss \in InBuckets(d)
             /\ found[d].oss.account = found[d].account
             /\ OnCDN(d) = {}

(***************************************************************************)
(* A complete result (Complete) is the truth about every steady domain,    *)
(* while others come, go and change pages: one that is absent is bound     *)
(* nowhere, one that is present is at its only place, and the bucket       *)
(* behind a CDN is one of its buckets.  Without "did not slip" this is     *)
(* false of the code: a deletion between two pages hides a domain that     *)
(* stayed, and the result is Complete all the same.                        *)
(***************************************************************************)
CompleteIsExact ==
    scan.pc = "done" /\ Complete =>
        \A d \in Steady :
            /\ found[d] = Absent <=> OnCDN(d) = {} /\ InBuckets(d) = {}
            /\ ~Disputed(d)
            /\ found[d] # Absent =>
                 found[d].oss \in IF InBuckets(d) = {} THEN {NoBinding} ELSE InBuckets(d)

(***************************************************************************)
(* With everything seen, a steady domain is refused as ambiguous exactly   *)
(* when two places compete for it, whatever the order in which the scan    *)
(* met them: the merge forgets an ambiguity of buckets when a CDN turns up *)
(* later.  A domain that slipped may be refused with a single place,       *)
(* because it was read twice.                                              *)
(***************************************************************************)
AmbiguousIsDisputed ==
    scan.pc = "done" /\ CDNComplete /\ Accounts \subseteq coverage.oss =>
        \A d \in Steady :
            found[d] # Absent => (found[d].ambiguous <=> Disputed(d))

-----------------------------------------------------------------------------
(***************************************************************************)
(* The inductive invariant of the proofs: halfway through a scan the       *)
(* result is the truth about the accounts that were covered so far, and    *)
(* what was read of the current account is the truth about its buckets and *)
(* about the pages that were read.                                         *)
(***************************************************************************)
PassedCDN(a) == scan.pc = "done" \/ a < scan.account
PassedOSS(a) == PassedCDN(a) \/ (scan.pc \in {"cdn", "certs"} /\ a = scan.account)

CoverageIsPassed ==
    /\ \A a \in coverage.oss : PassedOSS(a)
    /\ \A a \in coverage.cdn : PassedCDN(a)

HitsAreReal(d) ==
    scan.pc = "oss" => \A b \in Buckets :
        /\ <<b, d>> \in scan.hits => <<scan.account, b, d>> \in oss
        /\ <<scan.account, b, d>> \in oss /\ b < scan.bucket /\ ~scan.missed
             => <<b, d>> \in scan.hits

PagesAreReal(d) ==
    scan.pc \in {"cdn", "certs"} =>
        /\ d \in scan.names <=> /\ cdn[scan.account][d] = "online"
                                /\ scan.pc = "certs" \/ PageIsRead(d)
        /\ d \notin scan.twice

SeenCDN(d) == OnCDN(d) \cap coverage.cdn
SeenOSS(d) == {b \in InBuckets(d) : b.account \in coverage.oss}

AbsentIsUnseen(d) == found[d] = Absent => SeenCDN(d) = {} /\ SeenOSS(d) = {}

OSSIsSeen(d) ==
    found[d] # Absent /\ DeployTarget(found[d]) = "oss" =>
        /\ SeenCDN(d) = {}
        /\ found[d].oss \in InBuckets(d)
        /\ found[d].oss.account = found[d].account
        /\ PassedOSS(found[d].account)
        /\ IF found[d].ambiguous
           THEN \E b, c \in InBuckets(d) : b # c
           ELSE SeenOSS(d) \subseteq {found[d].oss}

CDNIsSeen(d) ==
    found[d] # Absent /\ DeployTarget(found[d]) = "cdn" =>
        /\ found[d].account \in SeenCDN(d)
        /\ IF found[d].ambiguous
           THEN \E a, b \in OnCDN(d) : a # b
           ELSE SeenCDN(d) \subseteq {found[d].account}
        /\ IF found[d].oss = NoBinding
           THEN SeenOSS(d) = {}
           ELSE found[d].oss \in InBuckets(d)

ScanIsSound ==
    scan.pc # "idle" =>
        /\ CoverageIsPassed
        /\ \A d \in Steady :
             /\ HitsAreReal(d) /\ PagesAreReal(d)
             /\ AbsentIsUnseen(d) /\ OSSIsSeen(d) /\ CDNIsSeen(d)

-----------------------------------------------------------------------------
(***************************************************************************)
(* What a comment says and the code does not do.  "Query failure is        *)
(* unknown, never evidence that a resource or certificate is absent."      *)
(* (discovery.go:74): a domain two places compete for is never deployable. *)
(* The other bucket may be on an account whose OSS scan failed, which      *)
(* Deployable does not ask about.                                          *)
(***************************************************************************)
FailureIsNotAbsence ==
    \A d \in Steady : scan.pc = "done" /\ MayDeploy(d) => ~Disputed(d)

=============================================================================
