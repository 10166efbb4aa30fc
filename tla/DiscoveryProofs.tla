-------------------------- MODULE DiscoveryProofs ---------------------------
EXTENDS Discovery, FiniteSetTheorems, TLAPS

(***************************************************************************)
(* The first bucket of a non-empty set of hits is one of the hits, and so  *)
(* is the last one.  Sets of hits up to a bucket are well ordered by       *)
(* inclusion, and so are those from a bucket on.                           *)
(***************************************************************************)
LEMMA MinIsHit ==
  ASSUME NEW n \in Nat, NEW S \in SUBSET (1..n), S # {}
  PROVE  Min(S) \in S
<1> DEFINE W == 1..n
           R == StrictSubsetOrdering(W)
           F == {{y \in S : y =< u} : u \in S}
<1>1. IsFiniteSet(W)
  BY FS_Interval
<1>2. IsWellFoundedOn(R, SUBSET W)
  BY <1>1, FS_StrictSubsetOrderingWellFounded, FS_FiniteSubsetsOfFinite
<1>3. F \subseteq SUBSET W /\ F # {}
  OBVIOUS
<1>4. PICK l \in F : \A k \in F : <<k, l>> \notin R
  <2> HIDE DEF R, F, W
  <2> QED BY <1>2, <1>3, WFMin
<1>5. PICK x \in S : l = {y \in S : y =< x}
  BY <1>4
<1>6. ASSUME NEW z \in S PROVE x =< z
  <2>1. CASE z < x
    <3> DEFINE k == {y \in S : y =< z}
    <3>1. k \in F /\ k \in SUBSET W /\ l \in SUBSET W
      BY <1>3
    <3>2. \A y \in k : y \in l
      BY <2>1, <1>5
    <3>3. x \in l /\ x \notin k
      BY <2>1, <1>5
    <3>4. <<k, l>> \in R
      BY <3>1, <3>2, <3>3 DEF StrictSubsetOrdering
    <3> QED BY <3>1, <3>4, <1>4
  <2> QED BY <2>1
<1> QED
  BY <1>6 DEF Min

(* The same of the last bucket.                                            *)
LEMMA MaxIsHit ==
  ASSUME NEW n \in Nat, NEW S \in SUBSET (1..n), S # {}
  PROVE  Max(S) \in S
<1> DEFINE W == 1..n
           R == StrictSubsetOrdering(W)
           F == {{y \in S : y >= u} : u \in S}
<1>1. IsFiniteSet(W)
  BY FS_Interval
<1>2. IsWellFoundedOn(R, SUBSET W)
  BY <1>1, FS_StrictSubsetOrderingWellFounded, FS_FiniteSubsetsOfFinite
<1>3. F \subseteq SUBSET W /\ F # {}
  OBVIOUS
<1>4. PICK l \in F : \A k \in F : <<k, l>> \notin R
  <2> HIDE DEF R, F, W
  <2> QED BY <1>2, <1>3, WFMin
<1>5. PICK x \in S : l = {y \in S : y >= x}
  BY <1>4
<1>6. ASSUME NEW z \in S PROVE x >= z
  <2>1. CASE z > x
    <3> DEFINE k == {y \in S : y >= z}
    <3>1. k \in F /\ k \in SUBSET W /\ l \in SUBSET W
      BY <1>3
    <3>2. \A y \in k : y \in l
      BY <2>1, <1>5
    <3>3. x \in l /\ x \notin k
      BY <2>1, <1>5
    <3>4. <<k, l>> \in R
      BY <3>1, <3>2, <3>3 DEF StrictSubsetOrdering
    <3> QED BY <3>1, <3>4, <1>4
  <2> QED BY <2>1
<1> QED
  BY <1>6 DEF Max

(***************************************************************************)
(* What the merge returns.                                                 *)
(***************************************************************************)
InfoOrAbsent == Info \cup {Absent}

(* A domain that was not found differs from every one that was.            *)
LEMMA AbsentIsNoInfo == Absent \notin Info
BY DEF Absent, Info

(* addOSS returns a DomainInfo with a real bucket.                         *)
LEMMA MergeOSSType ==
  ASSUME NEW f \in InfoOrAbsent, NEW a \in Accounts, NEW known \in BOOLEAN,
         NEW hits \in SUBSET Buckets, hits # {}
  PROVE  MergeOSS(f, a, hits, known) \in Info
<1>1. Min(hits) \in Buckets /\ Max(hits) \in Buckets
  BY MinIsHit, MaxIsHit, InventoryAssumption DEF Buckets
<1>2. CASE f = Absent
  BY <1>1, <1>2 DEF MergeOSS, Info, Binding
<1>3. CASE f # Absent
  <2>1. f \in Info
    BY <1>3 DEF InfoOrAbsent
  <2> QED BY <1>1, <1>3, <2>1 DEF MergeOSS, Info, Binding
<1> QED BY <1>2, <1>3

(* addCDN returns a DomainInfo.                                            *)
LEMMA MergeCDNType ==
  ASSUME NEW f \in InfoOrAbsent, NEW a \in Accounts, NEW known \in BOOLEAN
  PROVE  MergeCDN(f, a, known) \in Info
<1>1. CASE f = Absent
  BY <1>1 DEF MergeCDN, Info
<1>2. CASE f # Absent
  <2>1. f \in Info
    BY <1>2 DEF InfoOrAbsent
  <2> QED BY <1>2, <2>1 DEF MergeCDN, Info
<1> QED BY <1>1, <1>2

(***************************************************************************)
(* Types.                                                                  *)
(***************************************************************************)

(* The service starts without a result and without a scan.                 *)
LEMMA TypeInit == Init => TypeOK
BY InventoryAssumption, DiscoveryAssumption
   DEF Init, TypeOK, Scan, Idle, At, Accounts, Buckets, Absent

(* A scan is at the beginning of some account.                             *)
LEMMA AtType ==
  ASSUME NEW pc \in {"idle", "oss", "cdn", "certs", "done"}, NEW a \in Accounts
  PROVE  At(pc, a) \in Scan
BY InventoryAssumption DEF At, Scan

(* It begins with the first account.                                       *)
LEMMA FirstAccount == 1 \in Accounts
BY InventoryAssumption DEF Accounts

(* The loop over the accounts of Run stays within them.                    *)
LEMMA NextAccountType ==
  ASSUME scan \in Scan, NextAccount
  PROVE  scan' \in Scan
<1>1. CASE scan.account = NumAccounts
  BY <1>1, AtType DEF NextAccount, IsLast, Scan
<1>2. CASE scan.account # NumAccounts
  <2>1. scan.account + 1 \in Accounts
    BY <1>2, InventoryAssumption DEF Scan, Accounts
  <2> QED BY <1>2, <2>1, AtType DEF NextAccount, IsLast
<1> QED BY <1>1, <1>2

(* Every step keeps the types.                                             *)
LEMMA TypeStep == TypeOK /\ [Next]_vars => TypeOK'
<1> SUFFICES ASSUME TypeOK, [Next]_vars PROVE TypeOK'
  OBVIOUS
<1> USE InventoryAssumption, DiscoveryAssumption DEF TypeOK
<1>1. CASE Start
  BY <1>1, AtType, FirstAccount DEF Start
<1>2. CASE ListBucket
  <2>1. scan.bucket + 1 \in 1..(NumBuckets + 1)
    BY <1>2 DEF ListBucket, Buckets
  <2>2. scan' \in Scan
    <3>1. CASE scan' = [scan EXCEPT !.bucket = @ + 1, !.missed = TRUE]
      BY <3>1, <2>1 DEF Scan
    <3>2. CASE scan' = [scan EXCEPT
                          !.bucket = @ + 1,
                          !.hits = @ \cup {<<scan.bucket, d>> : d \in
                             {x \in Domains : <<scan.account, scan.bucket, x>> \in oss}}]
      <4> DEFINE new == {<<scan.bucket, d>> : d \in
                             {x \in Domains : <<scan.account, scan.bucket, x>> \in oss}}
      <4>1. new \subseteq Buckets \X Domains
        <5> SUFFICES ASSUME NEW e \in new PROVE e \in Buckets \X Domains
          OBVIOUS
        <5>1. PICK d \in Domains : e = <<scan.bucket, d>>
          OBVIOUS
        <5>2. scan.bucket \in Buckets
          BY <1>2 DEF ListBucket
        <5> QED BY <5>1, <5>2
      <4>2. scan.hits \cup new \in SUBSET (Buckets \X Domains)
        BY <4>1 DEF Scan
      <4> HIDE DEF new
      <4>3. scan' = [scan EXCEPT !.bucket = @ + 1, !.hits = @ \cup new]
        BY <3>2 DEF new
      <4> QED BY <2>1, <4>2, <4>3 DEF Scan
    <3> QED BY <1>2, <3>1, <3>2 DEF ListBucket
  <2> QED BY <1>2, <2>2 DEF ListBucket, cloud
<1>3. CASE ScanFails
  BY <1>3, AtType DEF ScanFails, cloud, Scan
<1>4. CASE AddOSS
  <2>1. scan' \in Scan
    BY <1>4, AtType DEF AddOSS, Scan
  <2>2. coverage' \in [oss : SUBSET Accounts, cdn : SUBSET Accounts]
    <3>1. scan.account \in Accounts
      BY DEF Scan
    <3>2. coverage' = coverage \/ coverage' = [coverage EXCEPT !.oss = @ \cup {scan.account}]
      BY <1>4 DEF AddOSS
    <3> QED BY <3>1, <3>2
  <2>3. found' \in [Domains -> Info \cup {Absent}]
    <3> DEFINE of(d) == {b \in Buckets : <<b, d>> \in scan.hits}
    <3>1. PICK unread \in SUBSET {d \in Domains : of(d) # {}} :
            found' = [d \in Domains |->
                        IF of(d) = {} THEN found[d]
                        ELSE MergeOSS(found[d], scan.account, of(d), d \notin unread)]
      BY <1>4 DEF AddOSS
    <3>2. ASSUME NEW d \in Domains PROVE found'[d] \in Info \cup {Absent}
      <4>1. of(d) # {} => MergeOSS(found[d], scan.account, of(d), d \notin unread) \in Info
        BY MergeOSSType DEF InfoOrAbsent, Scan
      <4> QED BY <3>1, <4>1
    <3> QED BY <3>1, <3>2
  <2> QED BY <1>4, <2>1, <2>2, <2>3 DEF AddOSS, cloud
<1>5. CASE ListCDNFails
  BY <1>5, NextAccountType DEF ListCDNFails, cloud
<1>6. CASE AddCDN
  <2>1. coverage' \in [oss : SUBSET Accounts, cdn : SUBSET Accounts]
    BY <1>6 DEF AddCDN, Scan
  <2>2. found' \in [Domains -> Info \cup {Absent}]
    <3> DEFINE merge(u, info, d) == MergeCDN(info, scan.account, d \notin u)
    <3>1. PICK unread \in SUBSET scan.names :
            found' = [d \in Domains |->
                        IF d \notin scan.names THEN found[d]
                        ELSE IF d \in scan.twice
                             THEN merge(unread, merge(unread, found[d], d), d)
                        ELSE merge(unread, found[d], d)]
      BY <1>6 DEF AddCDN
    <3>2. ASSUME NEW d \in Domains PROVE found'[d] \in Info \cup {Absent}
      <4>1. merge(unread, found[d], d) \in Info
        BY MergeCDNType DEF InfoOrAbsent, Scan
      <4>2. merge(unread, merge(unread, found[d], d), d) \in Info
        <5> HIDE DEF merge
        <5>1. \A i \in InfoOrAbsent : merge(unread, i, d) \in Info
          BY MergeCDNType DEF merge, InfoOrAbsent, Scan
        <5> QED BY <4>1, <5>1 DEF InfoOrAbsent
      <4> QED BY <3>1, <4>1, <4>2
    <3> QED BY <3>1, <3>2
  <2> QED BY <1>6, <2>1, <2>2, NextAccountType DEF AddCDN, cloud
<1>7. CASE Cancel
  BY <1>7, AtType, FirstAccount DEF Cancel, Idle, cloud
<1>8. ASSUME NEW d \in Domains, Move(d) PROVE TypeOK'
  <2>1. moves' \in 0..MaxMoves /\ moved' \subseteq Domains /\ slipped' \subseteq Domains
    BY <1>8 DEF Move
  <2>2. CASE \E a \in Accounts, b \in Buckets :
               oss' = Toggle(oss, <<a, b, d>>) /\ UNCHANGED cdn
    <3>1. PICK a \in Accounts, b \in Buckets :
               oss' = Toggle(oss, <<a, b, d>>) /\ UNCHANGED cdn
      BY <2>2
    <3>2. <<a, b, d>> \in Accounts \X Buckets \X Domains
      OBVIOUS
    <3>3. oss' \subseteq Accounts \X Buckets \X Domains
      <4> DEFINE W == Accounts \X Buckets \X Domains
                 t == <<a, b, d>>
      <4>1. t \in W /\ oss \subseteq W
        BY <3>2
      <4> HIDE DEF W, t
      <4>2. Toggle(oss, t) \subseteq W
        BY <4>1 DEF Toggle
      <4> QED BY <4>2, <3>1 DEF W, t
    <3> QED BY <1>8, <2>1, <3>1, <3>3 DEF Move
  <2>3. CASE \E a \in Accounts, s \in CDNStatus :
               s # cdn[a][d] /\ cdn' = [cdn EXCEPT ![a][d] = s] /\ UNCHANGED oss
    <3>1. cdn' \in [Accounts -> [Domains -> CDNStatus]]
      BY <2>3
    <3> QED BY <1>8, <2>1, <2>3, <3>1 DEF Move
  <2> QED BY <1>8, <2>2, <2>3 DEF Move
<1>9. CASE UNCHANGED vars
  BY <1>9 DEF vars
<1>10. CASE ListPage
  <2>1. scan' \in Scan
    <3> DEFINE p == IF LastPage(scan.account, scan.pages + 1) THEN "certs" ELSE "cdn"
               k == IF LastPage(scan.account, scan.pages + 1) THEN 0 ELSE scan.pages + 1
    <3>1. PICK online \in SUBSET Domains :
            scan' = [scan EXCEPT !.pc = p, !.pages = k, !.names = @ \cup online,
                                 !.twice = @ \cup (scan.names \cap online)]
      <4> DEFINE o == {d \in FirstPages(scan.account, scan.pages + 1)
                              \ FirstPages(scan.account, scan.pages) :
                          cdn[scan.account][d] = "online"}
      <4>1. o \in SUBSET Domains
        BY DEF FirstPages, Listed
      <4>2. scan' = [scan EXCEPT !.pc = p, !.pages = k, !.names = @ \cup o,
                                 !.twice = @ \cup (scan.names \cap o)]
        BY <1>10 DEF ListPage
      <4> HIDE DEF o
      <4> QED BY <4>1, <4>2
    <3>2. p \in {"cdn", "certs"} /\ k \in Nat
      BY DEF Scan
    <3> HIDE DEF p, k
    <3> QED BY <3>1, <3>2 DEF Scan
  <2> QED BY <1>10, <2>1 DEF ListPage, cloud
<1> QED
  BY <1>1, <1>2, <1>3, <1>4, <1>5, <1>6, <1>7, <1>8, <1>9, <1>10 DEF Next

(* The loop of Run never leaves the accounts and buckets it was given, and *)
(* found and coverage hold what they are declared to hold.                 *)
THEOREM TypeCorrect == Spec => []TypeOK
<1>1. Init => TypeOK
  BY TypeInit
<1>2. TypeOK /\ [Next]_vars => TypeOK'
  BY TypeStep
<1> QED BY <1>1, <1>2, PTL DEF Spec

-----------------------------------------------------------------------------
(***************************************************************************)
(* ScanIsSound, action by action, for one steady domain.                   *)
(***************************************************************************)
DomainIsSound(d) ==
  /\ HitsAreReal(d) /\ PagesAreReal(d)
  /\ AbsentIsUnseen(d) /\ OSSIsSeen(d) /\ CDNIsSeen(d)

(* The missing binding of a DomainInfo is none of the real ones.           *)
LEMMA NoBindingIsNone == NoBinding \notin Binding
BY InventoryAssumption DEF NoBinding, Binding, Accounts

(* The pages of a CDN list: before the first one nothing was read, each    *)
(* page adds to what was read, and with the last page all of it was.       *)
LEMMA PagesOfAList ==
  ASSUME NEW a \in Accounts, NEW k \in Nat
  PROVE  /\ FirstPages(a, 0) = {}
         /\ FirstPages(a, k) \subseteq FirstPages(a, k + 1)
         /\ LastPage(a, k + 1) => FirstPages(a, k + 1) = Listed(a)
<1>1. IsFiniteSet(Listed(a))
  <2>1. IsFiniteSet(Domains)
    BY FS_Interval, DiscoveryAssumption DEF Domains
  <2>2. Listed(a) \subseteq Domains
    BY DEF Listed
  <2> QED BY <2>1, <2>2, FS_Subset
<1>2. ASSUME NEW d \in Listed(a)
      PROVE  /\ Position(a, d) \in Nat /\ Position(a, d) # 0
             /\ Position(a, d) =< Cardinality(Listed(a))
  <2> DEFINE S == {e \in Listed(a) : e =< d}
  <2>1. S \subseteq Listed(a) /\ d \in S
    BY DiscoveryAssumption DEF Listed, Domains
  <2>2. IsFiniteSet(S) /\ Cardinality(S) =< Cardinality(Listed(a))
    BY <1>1, <2>1, FS_Subset
  <2>3. Cardinality(S) \in Nat /\ Cardinality(S) # 0
    BY <2>1, <2>2, FS_CardinalityType, FS_EmptySet
  <2> QED BY <2>2, <2>3 DEF Position
<1>3. 0 * PageSize = 0 /\ k * PageSize \in Nat /\ (k + 1) * PageSize \in Nat
      /\ k * PageSize =< (k + 1) * PageSize
  BY DiscoveryAssumption
<1>4. Cardinality(Listed(a)) \in Nat
  BY <1>1, FS_CardinalityType
<1>5. FirstPages(a, 0) = {}
  BY <1>2, <1>3 DEF FirstPages
<1>6. FirstPages(a, k) \subseteq FirstPages(a, k + 1)
  <2> SUFFICES ASSUME NEW d \in FirstPages(a, k) PROVE d \in FirstPages(a, k + 1)
    OBVIOUS
  <2>1. d \in Listed(a) /\ Position(a, d) =< k * PageSize
    BY DEF FirstPages
  <2>2. Position(a, d) =< (k + 1) * PageSize
    BY <1>2, <1>3, <2>1
  <2> QED BY <2>1, <2>2 DEF FirstPages
<1>7. ASSUME LastPage(a, k + 1) PROVE FirstPages(a, k + 1) = Listed(a)
  <2>1. \A d \in Listed(a) : Position(a, d) =< (k + 1) * PageSize
    BY <1>2, <1>3, <1>4, <1>7 DEF LastPage
  <2> QED BY <2>1 DEF FirstPages
<1> QED BY <1>5, <1>6, <1>7

(* Pages are those of the list as it is.                                   *)
LEMMA SameList ==
  ASSUME cdn' = cdn, NEW CONSTANT a \in Accounts, NEW CONSTANT k \in Nat
  PROVE  FirstPages(a, k)' = FirstPages(a, k)
<1>1. Listed(a)' = Listed(a)
  BY DEF Listed
<1>2. \A d : Position(a, d)' = Position(a, d)
  BY <1>1 DEF Position
<1> QED BY <1>1, <1>2 DEF FirstPages

(* The scan goes on and passes at least the accounts it had passed.        *)
LEMMA NextAccountPasses ==
  ASSUME TypeOK, scan.pc \in {"cdn", "certs"}, NextAccount, NEW a \in Accounts, PassedOSS(a)
  PROVE  PassedCDN(a)' /\ PassedOSS(a)'
<1>1. scan \in Scan /\ scan.account \in Accounts
  BY DEF TypeOK, Scan
<1>2. CASE scan.account = NumAccounts
  <2>1. scan'.pc = "done"
    BY <1>1, <1>2 DEF NextAccount, IsLast, At
  <2> QED BY <2>1 DEF PassedOSS, PassedCDN
<1>3. CASE scan.account # NumAccounts
  <2>1. scan'.account = scan.account + 1
    BY <1>1, <1>3 DEF NextAccount, IsLast, At
  <2>2. a < scan.account + 1
    BY <1>1, InventoryAssumption DEF PassedOSS, PassedCDN, Accounts
  <2> QED BY <2>1, <2>2 DEF PassedOSS, PassedCDN
<1> QED BY <1>2, <1>3

(* A new account starts without hits and without pages.                    *)
LEMMA NewAccountIsUnread ==
  ASSUME NextAccount, NEW d \in Domains
  PROVE  HitsAreReal(d)' /\ PagesAreReal(d)'
<1>1. CASE scan' = At("done", scan.account)
  BY <1>1 DEF At, HitsAreReal, PagesAreReal
<1>2. CASE scan' = At("oss", scan.account + 1)
  BY <1>2 DEF At, HitsAreReal, PagesAreReal, Buckets
<1> QED BY <1>1, <1>2 DEF NextAccount

(* The CDN list of an account is about to be read: nothing of it was.      *)
LEMMA NewListIsUnread ==
  ASSUME TypeOK, scan' = At("cdn", scan.account), cdn' = cdn, NEW d \in Domains
  PROVE  HitsAreReal(d)' /\ PagesAreReal(d)'
<1>1. PICK a \in Accounts : a = scan.account
  BY DEF TypeOK, Scan
<1>2. /\ scan'.pc = "cdn" /\ scan'.account = a /\ scan'.pages = 0
      /\ scan'.names = {} /\ scan'.twice = {}
  BY <1>1 DEF At
<1>3. FirstPages(a, 0)' = {}
  <2>1. FirstPages(a, 0) = {}
    BY PagesOfAList
  <2> QED BY <2>1, SameList
<1>4. ~PageIsRead(d)'
  BY <1>2, <1>3 DEF PageIsRead
<1> QED BY <1>2, <1>4 DEF HitsAreReal, PagesAreReal

(* Nothing is learnt and nothing is forgotten: the facts about d stay.     *)
LEMMA UnchangedFound ==
  ASSUME TypeOK, NEW d \in Domains, DomainIsSound(d),
         UNCHANGED <<found, coverage, oss, cdn>>,
         \A a \in Accounts : PassedOSS(a) => PassedOSS(a)'
  PROVE  (AbsentIsUnseen(d) /\ OSSIsSeen(d) /\ CDNIsSeen(d))'
<1>1. /\ SeenCDN(d)' = SeenCDN(d) /\ SeenOSS(d)' = SeenOSS(d)
      /\ OnCDN(d)' = OnCDN(d) /\ InBuckets(d)' = InBuckets(d)
  BY DEF SeenCDN, SeenOSS, OnCDN, InBuckets
<1>2. found[d] # Absent => found[d].account \in Accounts
  BY DEF TypeOK, Info
<1>3. AbsentIsUnseen(d)' /\ CDNIsSeen(d)'
  BY <1>1 DEF DomainIsSound, AbsentIsUnseen, CDNIsSeen
<1>4. OSSIsSeen(d)'
  BY <1>1, <1>2 DEF DomainIsSound, OSSIsSeen
<1> QED BY <1>3, <1>4

(* A bucket that was listed, or failed to be, is a hit or a miss of its own*)
(* account and changes nothing that was found.                             *)
LEMMA ListBucketSound ==
  ASSUME TypeOK, ListBucket, NEW d \in Domains, DomainIsSound(d)
  PROVE  DomainIsSound(d)'
<1>1. scan \in Scan /\ scan.bucket \in Int
  BY DEF TypeOK, Scan
<1>2. scan'.pc = scan.pc /\ scan'.account = scan.account /\ scan'.bucket = scan.bucket + 1
  BY <1>1 DEF ListBucket, Scan
<1>3. HitsAreReal(d)'
  <2>1. CASE scan' = [scan EXCEPT !.bucket = @ + 1, !.missed = TRUE]
    <3>1. scan'.hits = scan.hits /\ scan'.missed
      BY <1>1, <2>1 DEF Scan
    <3> QED BY <3>1, <1>2 DEF HitsAreReal, DomainIsSound, ListBucket, cloud
  <2>2. CASE scan' = [scan EXCEPT
                        !.bucket = @ + 1,
                        !.hits = @ \cup {<<scan.bucket, x>> : x \in
                           {y \in Domains : <<scan.account, scan.bucket, y>> \in oss}}]
    <3>1. scan'.missed = scan.missed
      BY <1>1, <2>2 DEF Scan
    <3>2. scan'.hits = scan.hits \cup {<<scan.bucket, x>> : x \in
                           {y \in Domains : <<scan.account, scan.bucket, y>> \in oss}}
      BY <1>1, <2>2 DEF Scan
    <3>3. \A b \in Buckets : <<b, d>> \in scan'.hits <=>
            \/ <<b, d>> \in scan.hits
            \/ b = scan.bucket /\ <<scan.account, b, d>> \in oss
      BY <3>2
    <3>4. oss' = oss
      BY DEF ListBucket, cloud
    <3>5. \A b \in Buckets : b < scan.bucket + 1 => b < scan.bucket \/ b = scan.bucket
      BY <1>1 DEF Buckets
    <3> QED BY <1>2, <3>1, <3>3, <3>4, <3>5 DEF HitsAreReal, DomainIsSound, ListBucket
  <2> QED BY <2>1, <2>2 DEF ListBucket
<1>4. \A a \in Accounts : PassedOSS(a) => PassedOSS(a)'
  BY <1>2 DEF PassedOSS, PassedCDN
<1>5. UNCHANGED <<found, coverage, oss, cdn>>
  BY DEF ListBucket, cloud
<1>6. (AbsentIsUnseen(d) /\ OSSIsSeen(d) /\ CDNIsSeen(d))'
  BY <1>4, <1>5, UnchangedFound
<1>7. PagesAreReal(d)'
  BY <1>2 DEF ListBucket, PagesAreReal
<1> QED BY <1>3, <1>6, <1>7 DEF DomainIsSound

(* An account whose buckets could not be listed teaches nothing.           *)
LEMMA ScanFailsSound ==
  ASSUME TypeOK, ScanFails, NEW d \in Domains, DomainIsSound(d)
  PROVE  DomainIsSound(d)'
<1>1. scan'.pc = "cdn" /\ scan'.account = scan.account
  BY DEF ScanFails, At
<1>2. \A a \in Accounts : PassedOSS(a) => PassedOSS(a)'
  BY <1>1 DEF PassedOSS, PassedCDN, ScanFails
<1>3. UNCHANGED <<found, coverage, oss, cdn>>
  BY DEF ScanFails, cloud
<1>4. (AbsentIsUnseen(d) /\ OSSIsSeen(d) /\ CDNIsSeen(d))'
  BY <1>2, <1>3, UnchangedFound
<1>5. HitsAreReal(d)' /\ PagesAreReal(d)'
  BY <1>3, NewListIsUnread DEF ScanFails
<1> QED BY <1>4, <1>5 DEF DomainIsSound

(* A page of a CDN list adds what is on it and on no page before it; after *)
(* the last page all domains that are online have been read.               *)
LEMMA ListPageSound ==
  ASSUME TypeOK, ListPage, NEW d \in Domains, DomainIsSound(d)
  PROVE  DomainIsSound(d)'
<1>1. scan \in Scan /\ scan.pc = "cdn"
  BY DEF TypeOK, ListPage
<1>2. PICK a \in Accounts, k \in Nat : a = scan.account /\ k = scan.pages
  BY <1>1 DEF Scan
<1> DEFINE online == {x \in FirstPages(a, k + 1) \ FirstPages(a, k) : cdn[a][x] = "online"}
           last == LastPage(a, k + 1)
<1>3. /\ FirstPages(a, k) \subseteq FirstPages(a, k + 1)
      /\ last => FirstPages(a, k + 1) = Listed(a)
  BY PagesOfAList
<1>4. /\ scan'.pc = (IF last THEN "certs" ELSE "cdn") /\ scan'.account = a
      /\ scan'.pages = (IF last THEN 0 ELSE k + 1)
      /\ scan'.names = scan.names \cup online
      /\ scan'.twice = scan.twice \cup (scan.names \cap online)
  <2>1. scan' = [scan EXCEPT !.pc = IF last THEN "certs" ELSE "cdn",
                             !.pages = IF last THEN 0 ELSE k + 1,
                             !.names = @ \cup online,
                             !.twice = @ \cup (scan.names \cap online)]
    BY <1>2 DEF ListPage
  <2> HIDE DEF online, last
  <2> QED BY <1>1, <1>2, <2>1 DEF Scan
<1>5. UNCHANGED <<found, coverage, oss, cdn>>
  BY DEF ListPage, cloud
<1>6. /\ d \in scan.names <=> cdn[a][d] = "online" /\ d \in FirstPages(a, k)
      /\ d \notin scan.twice
  BY <1>1, <1>2 DEF DomainIsSound, PagesAreReal, PageIsRead
<1>7. d \in scan'.names <=> cdn[a][d] = "online" /\ d \in FirstPages(a, k + 1)
  BY <1>3, <1>4, <1>6
<1>8. d \notin scan'.twice
  BY <1>4, <1>6
<1>9. PagesAreReal(d)'
  <2>1. CASE last
    <3>1. cdn[a][d] = "online" => d \in FirstPages(a, k + 1)
      BY <1>3, <2>1 DEF Listed
    <3> HIDE DEF last
    <3> QED BY <1>4, <1>5, <1>7, <1>8, <2>1, <3>1 DEF PagesAreReal
  <2>2. CASE ~last
    <3>1. scan'.pc = "cdn" /\ scan'.pages = k + 1 /\ scan'.account = a
      BY <1>4, <2>2
    <3>2. FirstPages(a, k + 1)' = FirstPages(a, k + 1)
      BY <1>5, SameList
    <3>3. PageIsRead(d)' <=> d \in FirstPages(a, k + 1)
      BY <3>1, <3>2 DEF PageIsRead
    <3> QED BY <1>5, <1>7, <1>8, <3>1, <3>3 DEF PagesAreReal
  <2> QED BY <2>1, <2>2
<1>10. \A b \in Accounts : PassedOSS(b) => PassedOSS(b)'
  <2> HIDE DEF last
  <2> QED BY <1>1, <1>2, <1>4 DEF PassedOSS, PassedCDN
<1>11. (AbsentIsUnseen(d) /\ OSSIsSeen(d) /\ CDNIsSeen(d))'
  BY <1>5, <1>10, UnchangedFound
<1>12. HitsAreReal(d)'
  <2> HIDE DEF last
  <2> QED BY <1>4 DEF HitsAreReal
<1> QED BY <1>9, <1>11, <1>12 DEF DomainIsSound

(* An account whose CDN domains could not be listed teaches nothing.       *)
LEMMA ListCDNFailsSound ==
  ASSUME TypeOK, ListCDNFails, NEW d \in Domains, DomainIsSound(d)
  PROVE  DomainIsSound(d)'
<1>1. \A a \in Accounts : PassedOSS(a) => PassedOSS(a)'
  BY NextAccountPasses DEF ListCDNFails
<1>2. UNCHANGED <<found, coverage, oss, cdn>>
  BY DEF ListCDNFails, cloud
<1>3. (AbsentIsUnseen(d) /\ OSSIsSeen(d) /\ CDNIsSeen(d))'
  BY <1>1, <1>2, UnchangedFound
<1>4. HitsAreReal(d)' /\ PagesAreReal(d)'
  BY NewAccountIsUnread DEF ListCDNFails
<1> QED BY <1>3, <1>4 DEF DomainIsSound

(* The hits of an account are bindings of it; all of them, if none was     *)
(* missed.                                                                 *)
LEMMA HitsAreBindings ==
  ASSUME TypeOK, AddOSS, NEW d \in Domains, HitsAreReal(d)
  PROVE  /\ \A b \in Buckets : <<b, d>> \in scan.hits =>
              [account |-> scan.account, bucket |-> b] \in InBuckets(d)
         /\ \A b \in SeenOSS(d)' : b \in SeenOSS(d) \/ 
              (b.account = scan.account /\ <<b.bucket, d>> \in scan.hits /\ ~scan.missed)
<1>1. scan \in Scan /\ scan.account \in Accounts /\ scan.pc = "oss"
  BY DEF TypeOK, Scan, AddOSS
<1>2. ASSUME NEW b \in Buckets, <<b, d>> \in scan.hits
      PROVE  [account |-> scan.account, bucket |-> b] \in InBuckets(d)
  BY <1>1, <1>2 DEF HitsAreReal, InBuckets, Binding
<1>3. ASSUME NEW b \in SeenOSS(d)', b \notin SeenOSS(d)
      PROVE  b.account = scan.account /\ <<b.bucket, d>> \in scan.hits /\ ~scan.missed
  <2>1. b \in Binding /\ <<b.account, b.bucket, d>> \in oss /\ b.account \in coverage'.oss
    BY <1>3 DEF SeenOSS, InBuckets, AddOSS, cloud
  <2>2. b.account \notin coverage.oss
    BY <1>3, <2>1 DEF SeenOSS, InBuckets
  <2>3. ~scan.missed /\ b.account = scan.account
    BY <2>1, <2>2 DEF AddOSS, SawAll, TypeOK
  <2>4. b.bucket \in Buckets /\ b.bucket < scan.bucket
    BY <2>1, InventoryAssumption DEF Binding, Buckets, AddOSS
  <2> QED BY <1>1, <2>1, <2>3, <2>4 DEF HitsAreReal
<1> QED BY <1>2, <1>3

(* addOSS: the merge of the hits of one account keeps what is known of     *)
(* every domain true.                                                      *)
LEMMA AddOSSSound ==
  ASSUME TypeOK, AddOSS, NEW d \in Domains, DomainIsSound(d)
  PROVE  DomainIsSound(d)'
<1> DEFINE of(x) == {b \in Buckets : <<b, x>> \in scan.hits}
           bind(b) == [account |-> scan.account, bucket |-> b]
<1>1. scan \in Scan /\ scan.account \in Accounts /\ scan.pc = "oss" /\ found[d] \in Info \cup {Absent}
  BY DEF TypeOK, Scan, AddOSS
<1>2. scan'.pc = "cdn" /\ scan'.account = scan.account
  BY DEF AddOSS, At
<1>3. \A a \in Accounts : PassedOSS(a) => PassedOSS(a)'
  BY <1>1, <1>2 DEF PassedOSS, PassedCDN
<1>4. /\ OnCDN(d)' = OnCDN(d) /\ InBuckets(d)' = InBuckets(d)
      /\ coverage'.cdn = coverage.cdn
  BY DEF OnCDN, InBuckets, AddOSS, cloud, TypeOK
<1>5. SeenCDN(d)' = SeenCDN(d)
  BY <1>4 DEF SeenCDN
<1>6. /\ \A b \in of(d) : bind(b) \in InBuckets(d)
      /\ \A b \in SeenOSS(d)' : b \in SeenOSS(d) \/
              (b.account = scan.account /\ <<b.bucket, d>> \in scan.hits /\ ~scan.missed)
  BY HitsAreBindings DEF DomainIsSound
<1>7. \A b \in SeenOSS(d)' : b \in SeenOSS(d) \/ \E c \in of(d) : b = bind(c)
  <2> SUFFICES ASSUME NEW b \in SeenOSS(d)', b \notin SeenOSS(d)
               PROVE  \E c \in of(d) : b = bind(c)
    OBVIOUS
  <2>1. b \in Binding
    BY DEF SeenOSS, InBuckets
  <2>2. b.bucket \in of(d) /\ b.account = scan.account
    BY <1>6, <2>1 DEF Binding
  <2>3. b = bind(b.bucket)
    BY <2>1, <2>2 DEF Binding
  <2> QED BY <2>2, <2>3
<1>8. \A b, c \in of(d) : bind(b) = bind(c) => b = c
  <2> SUFFICES ASSUME NEW b \in of(d), NEW c \in of(d), bind(b) = bind(c) PROVE b = c
    OBVIOUS
  <2>1. bind(b).bucket = bind(c).bucket
    OBVIOUS
  <2> QED BY <2>1
<1>9. \A b \in of(d) : bind(b).account = scan.account
  OBVIOUS
<1>10. PICK known \in BOOLEAN :
         found'[d] = IF of(d) = {} THEN found[d]
                     ELSE MergeOSS(found[d], scan.account, of(d), known)
  BY DEF AddOSS
<1>11. HitsAreReal(d)' /\ PagesAreReal(d)'
  BY NewListIsUnread DEF AddOSS, cloud
<1>12. CASE of(d) = {}
  <2>1. found'[d] = found[d] /\ \A b \in SeenOSS(d)' : b \in SeenOSS(d)
    BY <1>7, <1>10, <1>12
  <2>2. AbsentIsUnseen(d)'
    BY <1>5, <2>1 DEF AbsentIsUnseen, DomainIsSound
  <2>3. found[d] # Absent => found[d].account \in Accounts
    BY <1>1 DEF Info
  <2>4. OSSIsSeen(d)'
    BY <1>3, <1>4, <1>5, <2>1, <2>3 DEF OSSIsSeen, DomainIsSound
  <2>5. CDNIsSeen(d)'
    BY <1>4, <1>5, <2>1 DEF CDNIsSeen, DomainIsSound
  <2> QED BY <1>11, <2>2, <2>4, <2>5 DEF DomainIsSound
<1>13. CASE of(d) # {}
  <2>1. Min(of(d)) \in of(d) /\ Max(of(d)) \in of(d)
    BY <1>13, MinIsHit, MaxIsHit, InventoryAssumption DEF Buckets
  <2>2. found'[d] = MergeOSS(found[d], scan.account, of(d), known) /\ found'[d] \in Info
    BY <1>1, <1>10, <1>13, MergeOSSType DEF InfoOrAbsent
  <2>3. found'[d] # Absent
    BY <2>2, AbsentIsNoInfo
  <2>4. AbsentIsUnseen(d)'
    BY <2>3 DEF AbsentIsUnseen
  <2> HIDE DEF of, bind
  <2>5. CASE found[d] = Absent
    <3>1. found'[d] = [origin |-> "oss", account |-> scan.account, oss |-> bind(Min(of(d))),
                       certKnown |-> known, ambiguous |-> \E b, c \in of(d) : b # c]
      BY <2>2, <2>5 DEF MergeOSS, bind
    <3>2. SeenCDN(d) = {} /\ SeenOSS(d) = {}
      BY <2>5 DEF DomainIsSound, AbsentIsUnseen
    <3>3. CASE \E b, c \in of(d) : b # c
      <4>1. \E b, c \in InBuckets(d) : b # c
        BY <1>6, <1>8, <3>3
      <4>2. found'[d].ambiguous
        BY <3>1, <3>3
      <4>3. OSSIsSeen(d)'
        BY <1>2, <1>4, <1>5, <1>6, <1>9, <2>1, <3>1, <3>2, <4>1, <4>2
           DEF OSSIsSeen, DeployTarget, PassedOSS
      <4> QED BY <1>11, <2>4, <3>1, <4>3 DEF DomainIsSound, CDNIsSeen, DeployTarget
    <3>4. CASE ~\E b, c \in of(d) : b # c
      <4>1. \A b \in SeenOSS(d)' : b = bind(Min(of(d)))
        BY <1>7, <2>1, <3>2, <3>4
      <4>2. ~found'[d].ambiguous
        BY <3>1, <3>4
      <4>3. OSSIsSeen(d)'
        BY <1>2, <1>4, <1>5, <1>6, <1>9, <2>1, <3>1, <3>2, <4>1, <4>2
           DEF OSSIsSeen, DeployTarget, PassedOSS
      <4> QED BY <1>11, <2>4, <3>1, <4>3 DEF DomainIsSound, CDNIsSeen, DeployTarget
    <3> QED BY <3>3, <3>4
  <2>6. CASE found[d] # Absent /\ DeployTarget(found[d]) = "cdn"
    <3>1. found'[d] = [found[d] EXCEPT !.origin = "both", !.oss = bind(Max(of(d)))]
      BY <2>2, <2>6 DEF MergeOSS, bind
    <3>2. /\ found'[d].account = found[d].account /\ found'[d].ambiguous = found[d].ambiguous
          /\ found'[d].oss = bind(Max(of(d))) /\ DeployTarget(found'[d]) = "cdn"
      BY <1>1, <2>6, <3>1 DEF Info, DeployTarget
    <3>3. found'[d].oss \in InBuckets(d) /\ found'[d].oss # NoBinding
      BY <1>6, <2>1, <3>2, NoBindingIsNone DEF InBuckets
    <3>4. CDNIsSeen(d)'
      BY <1>4, <1>5, <2>6, <3>2, <3>3 DEF CDNIsSeen, DomainIsSound
    <3> QED BY <1>11, <2>4, <3>2, <3>4 DEF DomainIsSound, OSSIsSeen
  <2>7. CASE found[d] # Absent /\ DeployTarget(found[d]) # "cdn"
    <3>1. found'[d] = [found[d] EXCEPT !.ambiguous = TRUE]
      BY <2>2, <2>7 DEF MergeOSS
    <3>2. /\ found'[d].account = found[d].account /\ found'[d].ambiguous
          /\ found'[d].oss = found[d].oss /\ DeployTarget(found'[d]) = "oss"
          /\ DeployTarget(found[d]) = "oss" /\ found[d].account \in Accounts
      BY <1>1, <2>7, <3>1 DEF Info, DeployTarget
    <3>3. /\ SeenCDN(d) = {} /\ found[d].oss \in InBuckets(d) /\ PassedOSS(found[d].account)
          /\ found[d].oss.account = found[d].account
      BY <2>7, <3>2 DEF DomainIsSound, OSSIsSeen
    <3>4. found[d].account # scan.account
      BY <1>1, <3>3 DEF PassedOSS, PassedCDN, Accounts
    <3>5. bind(Min(of(d))) \in InBuckets(d) /\ bind(Min(of(d))) # found[d].oss
      BY <1>6, <1>9, <2>1, <3>3, <3>4
    <3>6. \E b, c \in InBuckets(d) : b # c
      BY <3>3, <3>5
    <3>7. PassedOSS(found[d].account)'
      BY <1>1, <1>2, <3>2, <3>3 DEF PassedOSS, PassedCDN
    <3>8. OSSIsSeen(d)'
      BY <1>4, <1>5, <3>2, <3>3, <3>6, <3>7 DEF OSSIsSeen
    <3> QED BY <1>11, <2>4, <3>2, <3>8 DEF DomainIsSound, CDNIsSeen
  <2> QED BY <2>5, <2>6, <2>7
<1> QED BY <1>12, <1>13

(* addCDN: a CDN domain wins over the buckets seen before, and a second    *)
(* account makes it ambiguous.                                             *)
LEMMA AddCDNSound ==
  ASSUME TypeOK, CoverageIsPassed, AddCDN, NEW d \in Domains, DomainIsSound(d)
  PROVE  DomainIsSound(d)'
<1>1. scan \in Scan /\ scan.account \in Accounts /\ scan.pc = "certs" /\ found[d] \in Info \cup {Absent}
  BY DEF TypeOK, Scan, AddCDN
<1>2. \A a \in Accounts : PassedOSS(a) => PassedOSS(a)'
  BY NextAccountPasses DEF AddCDN
<1>3. /\ OnCDN(d)' = OnCDN(d) /\ InBuckets(d)' = InBuckets(d)
      /\ coverage'.oss = coverage.oss /\ coverage'.cdn = coverage.cdn \cup {scan.account}
  BY DEF OnCDN, InBuckets, AddCDN, cloud, TypeOK
<1>4. SeenOSS(d)' = SeenOSS(d)
  BY <1>3 DEF SeenOSS
<1>5. SeenCDN(d)' = SeenCDN(d) \cup (OnCDN(d) \cap {scan.account})
  BY <1>3 DEF SeenCDN
<1>6. (d \in scan.names <=> scan.account \in OnCDN(d)) /\ d \notin scan.twice
  BY <1>1 DEF OnCDN, DomainIsSound, PagesAreReal
<1>7. PICK known \in BOOLEAN :
        found'[d] = IF d \notin scan.names THEN found[d]
                    ELSE MergeCDN(found[d], scan.account, known)
  BY <1>6 DEF AddCDN
<1>8. HitsAreReal(d)' /\ PagesAreReal(d)'
  BY NewAccountIsUnread DEF AddCDN
<1>9. CASE d \notin scan.names
  <2>1. found'[d] = found[d] /\ SeenCDN(d)' = SeenCDN(d)
    BY <1>5, <1>6, <1>7, <1>9
  <2>2. AbsentIsUnseen(d)'
    BY <1>4, <2>1 DEF AbsentIsUnseen, DomainIsSound
  <2>3. found[d] # Absent => found[d].account \in Accounts
    BY <1>1 DEF Info
  <2>4. OSSIsSeen(d)'
    BY <1>2, <1>3, <1>4, <2>1, <2>3 DEF OSSIsSeen, DomainIsSound
  <2>5. CDNIsSeen(d)'
    BY <1>3, <1>4, <2>1 DEF CDNIsSeen, DomainIsSound
  <2> QED BY <1>8, <2>2, <2>4, <2>5 DEF DomainIsSound
<1>10. CASE d \in scan.names
  <2>1. found'[d] = MergeCDN(found[d], scan.account, known) /\ found'[d] \in Info
    BY <1>1, <1>7, <1>10, MergeCDNType DEF InfoOrAbsent
  <2>2. found'[d] # Absent
    BY <2>1, AbsentIsNoInfo
  <2>3. AbsentIsUnseen(d)'
    BY <2>2 DEF AbsentIsUnseen
  <2>4. SeenCDN(d)' = SeenCDN(d) \cup {scan.account}
    BY <1>5, <1>6, <1>10
  <2>5. CASE found[d] = Absent
    <3>1. /\ found'[d].origin = "cdn" /\ found'[d].account = scan.account
          /\ found'[d].oss = NoBinding /\ ~found'[d].ambiguous
      BY <2>1, <2>5 DEF MergeCDN
    <3>2. SeenCDN(d) = {} /\ SeenOSS(d) = {}
      BY <2>5 DEF DomainIsSound, AbsentIsUnseen
    <3>3. CDNIsSeen(d)'
      BY <1>4, <2>4, <3>1, <3>2 DEF CDNIsSeen
    <3> QED BY <1>8, <2>3, <3>1, <3>3 DEF DomainIsSound, OSSIsSeen, DeployTarget
  <2>6. CASE found[d] # Absent /\ DeployTarget(found[d]) = "cdn"
    <3>1. found'[d] = [found[d] EXCEPT !.ambiguous = TRUE]
      BY <2>1, <2>6 DEF MergeCDN
    <3>2. /\ found'[d].account = found[d].account /\ found'[d].ambiguous
          /\ found'[d].oss = found[d].oss /\ DeployTarget(found'[d]) = "cdn"
      BY <1>1, <2>6, <3>1 DEF Info, DeployTarget
    <3>3. found[d].account \in SeenCDN(d)
      BY <2>6 DEF DomainIsSound, CDNIsSeen
    <3>4. PassedCDN(found[d].account)
      BY <3>3 DEF SeenCDN, CoverageIsPassed
    <3>5. found[d].account # scan.account
      BY <1>1, <3>4 DEF PassedCDN, Accounts
    <3>6. \E a, b \in OnCDN(d) : a # b
      BY <1>6, <1>10, <3>3, <3>5 DEF SeenCDN
    <3>7. CDNIsSeen(d)'
      BY <1>3, <1>4, <2>4, <2>6, <3>2, <3>3, <3>6 DEF CDNIsSeen, DomainIsSound
    <3> QED BY <1>8, <2>3, <3>2, <3>7 DEF DomainIsSound, OSSIsSeen
  <2>7. CASE found[d] # Absent /\ DeployTarget(found[d]) # "cdn"
    <3>1. found'[d] = [found[d] EXCEPT !.origin = "both", !.account = scan.account,
                                       !.certKnown = known, !.ambiguous = FALSE]
      BY <2>1, <2>7 DEF MergeCDN
    <3>2. /\ found'[d].account = scan.account /\ ~found'[d].ambiguous
          /\ found'[d].oss = found[d].oss /\ DeployTarget(found'[d]) = "cdn"
          /\ DeployTarget(found[d]) = "oss"
      BY <1>1, <2>7, <3>1 DEF Info, DeployTarget
    <3>3. SeenCDN(d) = {} /\ found[d].oss \in InBuckets(d)
      BY <2>7, <3>2 DEF DomainIsSound, OSSIsSeen
    <3>4. found[d].oss # NoBinding
      BY <3>3, NoBindingIsNone DEF InBuckets
    <3>5. CDNIsSeen(d)'
      BY <1>3, <2>4, <3>2, <3>3, <3>4 DEF CDNIsSeen
    <3> QED BY <1>8, <2>3, <3>2, <3>5 DEF DomainIsSound, OSSIsSeen
  <2> QED BY <2>5, <2>6, <2>7
<1> QED BY <1>9, <1>10

(* A new scan forgets everything.                                          *)
LEMMA StartSound ==
  ASSUME TypeOK, Start, NEW d \in Domains
  PROVE  DomainIsSound(d)'
<1>1. /\ scan'.pc = "oss" /\ scan'.bucket = 1 /\ scan'.hits = {}
      /\ found'[d] = Absent /\ coverage' = [oss |-> {}, cdn |-> {}]
  BY DEF Start, At
<1>2. AbsentIsUnseen(d)'
  BY <1>1 DEF AbsentIsUnseen, SeenCDN, SeenOSS
<1> QED
  BY <1>1, <1>2 DEF DomainIsSound, HitsAreReal, PagesAreReal, OSSIsSeen, CDNIsSeen, Buckets

(* Another domain moved, and d stayed on its side of the pages that were   *)
(* read.                                                                   *)
LEMMA MoveSound ==
  ASSUME TypeOK, NEW e \in Domains, Move(e), NEW d \in Domains \ slipped', d # e,
         DomainIsSound(d)
  PROVE  DomainIsSound(d)'
<1>1. /\ \A a \in Accounts : cdn'[a][d] = cdn[a][d]
      /\ \A a \in Accounts, b \in Buckets : <<a, b, d>> \in oss' <=> <<a, b, d>> \in oss
  <2>1. CASE UNCHANGED cdn
    BY <2>1 DEF Move, Toggle
  <2>2. CASE \E a \in Accounts, s \in CDNStatus :
               s # cdn[a][e] /\ cdn' = [cdn EXCEPT ![a][e] = s] /\ UNCHANGED oss
    BY <2>2 DEF TypeOK
  <2> QED BY <2>1, <2>2 DEF Move
<1>2. UNCHANGED <<scan, found, coverage>>
  BY DEF Move
<1>3. OnCDN(d)' = OnCDN(d)
  BY <1>1 DEF OnCDN
<1>4. InBuckets(d)' = InBuckets(d)
  BY <1>1 DEF InBuckets, Binding
<1>5. SeenCDN(d)' = SeenCDN(d) /\ SeenOSS(d)' = SeenOSS(d)
  BY <1>2, <1>3, <1>4 DEF SeenCDN, SeenOSS
<1>6. HitsAreReal(d)'
  <2>1. scan.account \in Accounts
    BY DEF TypeOK, Scan
  <2> QED BY <1>1, <1>2, <2>1 DEF HitsAreReal, DomainIsSound
<1>7. PagesAreReal(d)'
  <2>1. scan.account \in Accounts
    BY DEF TypeOK, Scan
  <2>2. PageIsRead(d)' = PageIsRead(d)
    BY DEF Move
  <2> QED BY <1>1, <1>2, <2>1, <2>2 DEF PagesAreReal, DomainIsSound
<1> QED
  BY <1>2, <1>3, <1>4, <1>5, <1>6, <1>7
     DEF DomainIsSound, AbsentIsUnseen, OSSIsSeen, CDNIsSeen, PassedOSS, PassedCDN

(* An account is covered only after the scan has passed it.                *)
LEMMA CoverageStep ==
  ASSUME TypeOK, Next, scan.pc # "idle" => CoverageIsPassed, scan'.pc # "idle"
  PROVE  CoverageIsPassed'
<1>1. /\ scan \in Scan /\ scan.account \in Accounts
      /\ coverage \in [oss : SUBSET Accounts, cdn : SUBSET Accounts]
  BY DEF TypeOK, Scan
<1>2. CASE Start
  BY <1>2 DEF Start, CoverageIsPassed
<1>3. CASE ListBucket
  <2>1. scan'.pc = scan.pc /\ scan'.account = scan.account
    BY <1>1, <1>3 DEF ListBucket, Scan
  <2> QED BY <1>3, <2>1 DEF ListBucket, CoverageIsPassed, PassedOSS, PassedCDN
<1>4. CASE ScanFails
  <2>1. scan'.pc = "cdn" /\ scan'.account = scan.account
    BY <1>4 DEF ScanFails, At
  <2> QED BY <1>4, <2>1 DEF ScanFails, CoverageIsPassed, PassedOSS, PassedCDN
<1>5. CASE AddOSS
  <2>1. scan'.pc = "cdn" /\ scan'.account = scan.account
    BY <1>5 DEF AddOSS, At
  <2>2. coverage'.cdn = coverage.cdn /\ coverage'.oss \subseteq coverage.oss \cup {scan.account}
    BY <1>1, <1>5 DEF AddOSS
  <2> QED BY <1>5, <2>1, <2>2 DEF AddOSS, CoverageIsPassed, PassedOSS, PassedCDN
<1>6. CASE ListCDNFails \/ AddCDN
  <2>1. /\ coverage'.oss = coverage.oss /\ coverage'.cdn \subseteq coverage.cdn \cup {scan.account}
        /\ scan.pc \in {"cdn", "certs"} /\ NextAccount
    BY <1>1, <1>6 DEF ListCDNFails, AddCDN
  <2>2. \A a \in Accounts : PassedOSS(a) => PassedCDN(a)' /\ PassedOSS(a)'
    BY <2>1, NextAccountPasses
  <2>3. PassedOSS(scan.account) /\ \A a : PassedCDN(a) => PassedOSS(a)
    BY <2>1 DEF PassedOSS
  <2> QED BY <1>1, <2>1, <2>2, <2>3 DEF CoverageIsPassed
<1>7. CASE Cancel
  BY <1>7 DEF Cancel, Idle, At
<1>8. CASE \E d \in Domains : Move(d)
  BY <1>8 DEF Move, CoverageIsPassed, PassedOSS, PassedCDN
<1>9. CASE ListPage
  <2>1. scan'.account = scan.account /\ scan.pc = "cdn" /\ scan'.pc \in {"cdn", "certs"}
    BY <1>1, <1>9 DEF ListPage, Scan
  <2> QED BY <1>9, <2>1 DEF ListPage, CoverageIsPassed, PassedOSS, PassedCDN
<1> QED
  BY <1>2, <1>3, <1>4, <1>5, <1>6, <1>7, <1>8, <1>9 DEF Next

(***************************************************************************)
(* Halfway through a scan the result is the truth about the accounts that  *)
(* were covered (discovery.go Run, addOSS and addCDN).                     *)
(***************************************************************************)
LEMMA ScanIsSoundStep == TypeOK /\ ScanIsSound /\ [Next]_vars => ScanIsSound'
<1> SUFFICES ASSUME TypeOK, ScanIsSound, [Next]_vars, scan'.pc # "idle"
             PROVE  CoverageIsPassed' /\ \A d \in Steady' : DomainIsSound(d)'
  BY DEF ScanIsSound, DomainIsSound
<1>1. CASE UNCHANGED vars
  <2>1. CoverageIsPassed'
    BY <1>1 DEF vars, ScanIsSound, CoverageIsPassed, PassedOSS, PassedCDN
  <2>2. ASSUME NEW d \in Steady' PROVE DomainIsSound(d)'
    <3>1. UNCHANGED <<oss, cdn, moved, slipped, scan, found, coverage>>
      BY <1>1 DEF vars
    <3>2. d \in Domains /\ DomainIsSound(d)
      BY <3>1 DEF ScanIsSound, DomainIsSound, Steady
    <3>3. (AbsentIsUnseen(d) /\ OSSIsSeen(d) /\ CDNIsSeen(d))'
      BY <3>1, <3>2, UnchangedFound DEF PassedOSS, PassedCDN
    <3>4. (PageIsRead(d)' <=> PageIsRead(d))
      BY <3>1 DEF PageIsRead, FirstPages, Listed, Position
    <3> QED BY <3>1, <3>2, <3>3, <3>4 DEF DomainIsSound, HitsAreReal, PagesAreReal
  <2> QED BY <2>1, <2>2
<1>2. CASE Next
  <2>1. CoverageIsPassed'
    BY <1>2, CoverageStep DEF ScanIsSound
  <2>2. ASSUME NEW d \in Steady' PROVE DomainIsSound(d)'
    <3> d \in Domains
      BY DEF Steady
    <3>1. CASE Start
      BY <3>1, StartSound
    <3>2. CASE Cancel
      BY <3>2 DEF Cancel, Idle, At
    <3>3. ASSUME NEW e \in Domains, Move(e) PROVE DomainIsSound(d)'
      <4>1. d # e /\ d \in Steady /\ d \notin slipped' /\ scan.pc # "idle"
        BY <3>3 DEF Move, Steady
      <4> QED BY <3>3, <4>1, MoveSound DEF ScanIsSound, DomainIsSound
    <3>4. CASE ListBucket
      <4>1. DomainIsSound(d)
        BY <3>4 DEF ListBucket, cloud, ScanIsSound, DomainIsSound, Steady
      <4> QED BY <3>4, <4>1, ListBucketSound
    <3>5. CASE ScanFails
      <4>1. DomainIsSound(d)
        BY <3>5 DEF ScanFails, cloud, ScanIsSound, DomainIsSound, Steady
      <4> QED BY <3>5, <4>1, ScanFailsSound
    <3>6. CASE AddOSS
      <4>1. DomainIsSound(d)
        BY <3>6 DEF AddOSS, cloud, ScanIsSound, DomainIsSound, Steady
      <4> QED BY <3>6, <4>1, AddOSSSound
    <3>7. CASE ListCDNFails
      <4>1. DomainIsSound(d)
        BY <3>7 DEF ListCDNFails, cloud, ScanIsSound, DomainIsSound, Steady
      <4> QED BY <3>7, <4>1, ListCDNFailsSound
    <3>8. CASE AddCDN
      <4>1. CoverageIsPassed /\ DomainIsSound(d)
        BY <3>8 DEF AddCDN, cloud, ScanIsSound, DomainIsSound, Steady
      <4> QED BY <3>8, <4>1, AddCDNSound
    <3>9. CASE ListPage
      <4>1. DomainIsSound(d)
        BY <3>9 DEF ListPage, cloud, ScanIsSound, DomainIsSound, Steady
      <4> QED BY <3>9, <4>1, ListPageSound
    <3> QED BY <1>2, <3>1, <3>2, <3>3, <3>4, <3>5, <3>6, <3>7, <3>8, <3>9 DEF Next
  <2> QED BY <2>1, <2>2
<1> QED BY <1>1, <1>2

(* At every moment of a scan, and after it, what discovery.Run has put into*)
(* the result about a domain that did not move is true of the cloud, as far*)
(* as the accounts it covered go.                                          *)
THEOREM ScanSoundness == Spec => []ScanIsSound
<1>1. Init => ScanIsSound
  BY DEF Init, Idle, At, ScanIsSound
<1>2. TypeOK /\ ScanIsSound /\ [Next]_vars => ScanIsSound'
  BY ScanIsSoundStep
<1>3. Spec => []TypeOK
  BY TypeCorrect
<1> QED BY <1>1, <1>2, <1>3, PTL DEF Spec

-----------------------------------------------------------------------------
(***************************************************************************)
(* What a finished scan may be used for.                                   *)
(***************************************************************************)

(* A steady domain is written to only where it is served: Deployable and   *)
(* DeployTarget of discovery.go, for any number of accounts, buckets, pages*)
(* and failures.                                                           *)
THEOREM TargetSoundness == Spec => []TargetIsServed
<1>1. TypeOK /\ ScanIsSound => TargetIsServed
  <2> SUFFICES ASSUME TypeOK, ScanIsSound, NEW d \in Steady,
                      scan.pc = "done", MayDeploy(d)
               PROVE  IF DeployTarget(found[d]) = "cdn"
                      THEN found[d].account \in OnCDN(d)
                      ELSE /\ found[d].oss \in InBuckets(d)
                           /\ found[d].oss.account = found[d].account
                           /\ OnCDN(d) = {}
    BY DEF TargetIsServed
  <2>1. DomainIsSound(d) /\ found[d] # Absent
    BY DEF ScanIsSound, DomainIsSound, MayDeploy
  <2>2. CASE DeployTarget(found[d]) = "cdn"
    BY <2>1, <2>2 DEF DomainIsSound, CDNIsSeen, SeenCDN
  <2>3. CASE DeployTarget(found[d]) # "cdn"
    <3>1. Accounts \subseteq coverage.cdn
      BY <2>3 DEF MayDeploy, Deployable, CDNComplete
    <3>2. DeployTarget(found[d]) = "oss"
      BY <2>3 DEF DeployTarget
    <3>3. SeenCDN(d) = {} /\ found[d].oss \in InBuckets(d)
          /\ found[d].oss.account = found[d].account
      BY <2>1, <3>2 DEF DomainIsSound, OSSIsSeen
    <3>4. OnCDN(d) = {}
      BY <3>1, <3>3 DEF SeenCDN, OnCDN
    <3> QED BY <2>3, <3>3, <3>4
  <2> QED BY <2>2, <2>3
<1> QED BY <1>1, TypeCorrect, ScanSoundness, PTL

(* With every account covered, what was seen of a domain is all there is.  *)
LEMMA EverythingIsSeen ==
  ASSUME TypeOK, CDNComplete, Accounts \subseteq coverage.oss, NEW d \in Domains
  PROVE  SeenCDN(d) = OnCDN(d) /\ SeenOSS(d) = InBuckets(d)
BY DEF TypeOK, CDNComplete, SeenCDN, SeenOSS, OnCDN, InBuckets, Binding

(* Ambiguous is disputed: the two notions agree once everything was seen.  *)
LEMMA AmbiguousMeansDisputed ==
  ASSUME TypeOK, CDNComplete, Accounts \subseteq coverage.oss, NEW d \in Domains,
         DomainIsSound(d), found[d] # Absent
  PROVE  found[d].ambiguous <=> Disputed(d)
<1>1. SeenCDN(d) = OnCDN(d) /\ SeenOSS(d) = InBuckets(d)
  BY EverythingIsSeen
<1>2. CASE DeployTarget(found[d]) = "cdn"
  <2>1. OnCDN(d) # {}
    BY <1>1, <1>2 DEF DomainIsSound, CDNIsSeen
  <2>2. found[d].ambiguous => \E a, b \in OnCDN(d) : a # b
    BY <1>2 DEF DomainIsSound, CDNIsSeen
  <2>3. ~found[d].ambiguous => ~\E a, b \in OnCDN(d) : a # b
    BY <1>1, <1>2 DEF DomainIsSound, CDNIsSeen
  <2> QED BY <2>1, <2>2, <2>3 DEF Disputed
<1>3. CASE DeployTarget(found[d]) # "cdn"
  <2>1. DeployTarget(found[d]) = "oss"
    BY <1>3 DEF DeployTarget
  <2>2. OnCDN(d) = {}
    BY <1>1, <2>1 DEF DomainIsSound, OSSIsSeen
  <2>3. found[d].ambiguous => \E b, c \in InBuckets(d) : b # c
    BY <2>1 DEF DomainIsSound, OSSIsSeen
  <2>4. ~found[d].ambiguous => ~\E b, c \in InBuckets(d) : b # c
    BY <1>1, <2>1 DEF DomainIsSound, OSSIsSeen
  <2> QED BY <2>2, <2>3, <2>4 DEF Disputed
<1> QED BY <1>2, <1>3

(* The merge calls a steady domain ambiguous exactly when two places       *)
(* compete for it, in whatever order accounts and buckets were scanned.    *)
THEOREM AmbiguityExactness == Spec => []AmbiguousIsDisputed
<1>1. TypeOK /\ ScanIsSound => AmbiguousIsDisputed
  BY AmbiguousMeansDisputed DEF ScanIsSound, DomainIsSound, AmbiguousIsDisputed, Steady
<1> QED BY <1>1, TypeCorrect, ScanSoundness, PTL

(* A complete result is the truth about every steady domain, whatever the  *)
(* sizes of lists and pages and whatever other domains came, went or       *)
(* changed pages meanwhile (cdn/scanner.go ListDomains, discovery.go Run). *)
(* It says nothing of a domain that slipped from a page to come to one     *)
(* that was read: that one may be missing from a complete result.          *)
THEOREM CompleteExactness == Spec => []CompleteIsExact
<1>1. TypeOK /\ ScanIsSound => CompleteIsExact
  <2> SUFFICES ASSUME TypeOK, ScanIsSound, scan.pc = "done", Complete, NEW d \in Steady
               PROVE  /\ found[d] = Absent <=> OnCDN(d) = {} /\ InBuckets(d) = {}
                      /\ ~Disputed(d)
                      /\ found[d] # Absent =>
                           found[d].oss \in IF InBuckets(d) = {} THEN {NoBinding} ELSE InBuckets(d)
    BY DEF CompleteIsExact
  <2> d \in Domains
    BY DEF Steady
  <2>1. DomainIsSound(d) /\ CDNComplete /\ Accounts \subseteq coverage.oss
    BY DEF ScanIsSound, DomainIsSound, Complete
  <2>2. SeenCDN(d) = OnCDN(d) /\ SeenOSS(d) = InBuckets(d)
    BY <2>1, EverythingIsSeen
  <2>3. CASE found[d] = Absent
    <3>1. OnCDN(d) = {} /\ InBuckets(d) = {}
      BY <2>1, <2>2, <2>3 DEF DomainIsSound, AbsentIsUnseen
    <3> QED BY <2>3, <3>1 DEF Disputed
  <2>4. CASE found[d] # Absent
    <3>1. ~found[d].ambiguous
      BY <2>4 DEF Complete, MayDeploy, Deployable
    <3>2. ~Disputed(d)
      BY <2>1, <2>4, <3>1, AmbiguousMeansDisputed
    <3>3. CASE DeployTarget(found[d]) = "cdn"
      <4>1. OnCDN(d) # {}
        BY <2>1, <2>2, <2>4, <3>3 DEF DomainIsSound, CDNIsSeen
      <4>2. IF found[d].oss = NoBinding THEN InBuckets(d) = {} ELSE found[d].oss \in InBuckets(d)
        BY <2>1, <2>2, <2>4, <3>3 DEF DomainIsSound, CDNIsSeen
      <4> QED BY <2>4, <3>2, <4>1, <4>2
    <3>4. CASE DeployTarget(found[d]) # "cdn"
      <4>1. DeployTarget(found[d]) = "oss"
        BY <3>4 DEF DeployTarget
      <4>2. found[d].oss \in InBuckets(d)
        BY <2>1, <2>4, <4>1 DEF DomainIsSound, OSSIsSeen
      <4> QED BY <2>4, <3>2, <4>2
    <3> QED BY <3>3, <3>4
  <2> QED BY <2>3, <2>4
<1> QED BY <1>1, TypeCorrect, ScanSoundness, PTL

=============================================================================
