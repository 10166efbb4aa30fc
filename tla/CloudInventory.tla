--------------------------- MODULE CloudInventory ---------------------------
(***************************************************************************)
(* What one scan remembers of a domain (discovery.DomainInfo), and how the *)
(* hits of several accounts and of both sides, OSS and CDN, are merged     *)
(* into it.  Operators only: Discovery runs the scan, Deployment writes    *)
(* to what it found.                                                       *)
(*                                                                         *)
(* Accounts are numbered in the order of the scan, the buckets of an       *)
(* account in the order in which they are listed.  Names, regions and the  *)
(* dates of certificates are left out; certKnown tells a domain without a  *)
(* certificate from one whose certificate could not be read.               *)
(***************************************************************************)
EXTENDS Integers, FiniteSetsExt

CONSTANTS
    NumAccounts,   \* enabled cloud accounts
    NumBuckets     \* buckets of each account

ASSUME InventoryAssumption == NumAccounts \in Nat \ {0} /\ NumBuckets \in Nat \ {0}

Accounts == 1..NumAccounts
Buckets == 1..NumBuckets

(***************************************************************************)
(* A custom domain of a bucket, OSSAccount and OSSBucket of DomainInfo.    *)
(***************************************************************************)
Binding == [account : Accounts, bucket : Buckets]
NoBinding == [account |-> 0, bucket |-> 0]

Info == [origin    : {"oss", "cdn", "both"},
         account   : Accounts,
         oss       : Binding \cup {NoBinding},
         certKnown : BOOLEAN,
         ambiguous : BOOLEAN]

\* Not in the result.
Absent == [origin |-> "absent"]

DeployTarget(info) == IF info.origin \in {"cdn", "both"} THEN "cdn" ELSE "oss"

(***************************************************************************)
(* The domain is bound to the buckets hits of account a.  A domain that is *)
(* on the CDN already keeps its target and takes the last bucket as its    *)
(* origin; a second bucket without a CDN makes it ambiguous.               *)
(***************************************************************************)
MergeOSS(info, a, hits, known) ==
    IF info = Absent
    THEN [origin    |-> "oss",
          account   |-> a,
          oss       |-> [account |-> a, bucket |-> Min(hits)],
          certKnown |-> known,
          ambiguous |-> \E b, c \in hits : b # c]
    ELSE IF DeployTarget(info) = "cdn"
    THEN [info EXCEPT !.origin = "both", !.oss = [account |-> a, bucket |-> Max(hits)]]
    ELSE [info EXCEPT !.ambiguous = TRUE]

(***************************************************************************)
(* The domain is online on the CDN of account a.  The CDN takes over from  *)
(* any number of buckets; a second CDN makes it ambiguous.                 *)
(***************************************************************************)
MergeCDN_StillAmbiguous(info, a, known) ==
    IF info = Absent
    THEN [origin    |-> "cdn",
          account   |-> a,
          oss       |-> NoBinding,
          certKnown |-> known,
          ambiguous |-> FALSE]
    ELSE IF DeployTarget(info) = "cdn"
    THEN [info EXCEPT !.ambiguous = TRUE]
    ELSE [info EXCEPT !.origin = "both", !.account = a, !.certKnown = known]

MergeCDN(info, a, known) ==
    IF info = Absent
    THEN [origin    |-> "cdn",
          account   |-> a,
          oss       |-> NoBinding,
          certKnown |-> known,
          ambiguous |-> FALSE]
    ELSE IF DeployTarget(info) = "cdn"
    THEN [info EXCEPT !.ambiguous = TRUE]
    ELSE [info EXCEPT !.origin = "both", !.account = a,
                      !.certKnown = known, !.ambiguous = FALSE]

(***************************************************************************)
(* May a certificate be written where info says?  Only a complete view of  *)
(* the CDN shows that a domain of OSS is not accelerated.                  *)
(***************************************************************************)
Deployable_CDNUnknown(info, cdnComplete) == ~info.ambiguous
Deployable(info, cdnComplete) ==
    /\ ~info.ambiguous
    /\ DeployTarget(info) = "cdn" \/ cdnComplete

=============================================================================
