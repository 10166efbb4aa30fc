--------------------------- MODULE ResolverLeases ---------------------------
(***************************************************************************)
(* acme.resolverLeases (internal/acme/dns_resolvers.go), as ObtainCert     *)
(* uses it: acquire with the resolvers of the settings the caller read,    *)
(* issue, release.  A step is a critical section of l.mu or one leg of the *)
(* select on which acquire parks.  A channel is identified by a member of  *)
(* Channels; one nobody refers to any more is used again by make.          *)
(***************************************************************************)
EXTENDS Integers, FiniteSets

CONSTANTS
    Issues,     \* concurrent calls of ObtainCert
    Configs,    \* lists of resolvers
    NoConfig,   \* l.resolvers while l.configured is false
    Channels,   \* idle channels
    NoChannel,  \* the nil channel
    MaxStarts   \* bound: calls of ObtainCert in a behaviour

ASSUME LeaseAssumption ==
    /\ IsFiniteSet(Issues)
    /\ NoConfig \notin Configs
    /\ NoChannel \notin Channels
    /\ MaxStarts \in Nat

VARIABLES
    resolvers,  \* l.resolvers, which the global DNS client was built for
    active,     \* l.active
    idle,       \* l.idle
    closed,     \* the channels that are closed
    issue,      \* issue[i]: pc, the resolvers it wants, the channel it waits on
    starts      \* calls so far

vars == <<resolvers, active, idle, closed, issue, starts>>

Resting == [pc |-> "rest", want |-> NoConfig, on |-> NoChannel]

Init ==
    /\ resolvers = NoConfig
    /\ active = 0
    /\ idle = NoChannel
    /\ closed = {}
    /\ issue = [i \in Issues |-> Resting]
    /\ starts = 0

(* ObtainCert is called with the resolvers its caller has read.            *)
Start(i, c) ==
    /\ issue[i].pc = "rest"
    /\ starts < MaxStarts
    /\ starts' = starts + 1
    /\ issue' = [issue EXCEPT ![i] = [@ EXCEPT !.pc = "acquire", !.want = c]]
    /\ UNCHANGED <<resolvers, active, idle, closed>>

(* The condition under which acquire grants the lease at once.             *)
MayShare_Always(c) == TRUE
MayShare(c) == active = 0 \/ resolvers = c

Unreferenced(ch) == ch # idle /\ \A i \in Issues : issue[i].on # ch

(* The granting round of acquire: the first holder installs the client,    *)
(* unless it is there already, and makes a new channel.                    *)
Grant(i) ==
    /\ issue[i].pc = "acquire"
    /\ MayShare(issue[i].want)
    /\ issue' = [issue EXCEPT ![i].pc = "hold"]
    /\ active' = active + 1
    /\ \/ /\ active = 0
          /\ resolvers' = issue[i].want
          /\ \E ch \in Channels :
                Unreferenced(ch) /\ idle' = ch /\ closed' = closed \ {ch}
       \/ /\ active # 0
          /\ UNCHANGED <<resolvers, idle, closed>>
    /\ UNCHANGED starts

(* The refusing round: read l.idle, unlock, and wait on that channel.      *)
Park(i) ==
    /\ issue[i].pc = "acquire"
    /\ ~MayShare(issue[i].want)
    /\ issue' = [issue EXCEPT ![i] = [@ EXCEPT !.pc = "wait", !.on = idle]]
    /\ UNCHANGED <<resolvers, active, idle, closed, starts>>

(* The channel is closed: another round.                                   *)
Wake(i) ==
    /\ issue[i].pc = "wait"
    /\ issue[i].on \in closed
    /\ issue' = [issue EXCEPT ![i] = [@ EXCEPT !.pc = "acquire",
                                               !.on = NoChannel]]
    /\ UNCHANGED <<resolvers, active, idle, closed, starts>>

(* The context ends before the lease is granted: acquire returns its error. *)
Cancel(i) ==
    /\ issue[i].pc \in {"acquire", "wait"}
    /\ issue' = [issue EXCEPT ![i] = Resting]
    /\ UNCHANGED <<resolvers, active, idle, closed, starts>>

(* release: the last holder closes the channel.                            *)
LastOut_Early(n) == n <= 1
LastOut_Late(n) == n < 0
LastOut(n) == n = 0

Release(i) ==
    /\ issue[i].pc = "hold"
    /\ issue' = [issue EXCEPT ![i] = Resting]
    /\ active' = active - 1
    /\ closed' = IF LastOut(active - 1) THEN closed \cup {idle} ELSE closed
    /\ UNCHANGED <<resolvers, idle, starts>>

Next ==
    \E i \in Issues :
        \/ \E c \in Configs : Start(i, c)
        \/ Grant(i) \/ Park(i) \/ Wake(i) \/ Cancel(i) \/ Release(i)

Spec == Init /\ [][Next]_vars

(* The mutex is fair, an issue ends, a woken goroutine runs.  No context   *)
(* has to end.                                                             *)
Fairness ==
    \A i \in Issues :
        WF_vars(Grant(i) \/ Park(i)) /\ WF_vars(Wake(i)) /\ WF_vars(Release(i))

FairSpec == Spec /\ Fairness

-----------------------------------------------------------------------------
(* Properties.                                                             *)

Holders == {i \in Issues : issue[i].pc = "hold"}

IssueType == [pc : {"rest", "acquire", "wait", "hold"},
              want : Configs \cup {NoConfig},
              on : Channels \cup {NoChannel}]

TypeOK ==
    /\ resolvers \in Configs \cup {NoConfig}
    /\ active \in Int
    /\ idle \in Channels \cup {NoChannel}
    /\ closed \subseteq Channels \cup {NoChannel}
    /\ issue \in [Issues -> IssueType]
    /\ starts \in Nat

(* Every issue in progress finds the global DNS client built for its own   *)
(* resolvers, from the grant to the release: no other issue replaces the   *)
(* client under it.                                                        *)
ClientIsMine == \A i \in Holders : issue[i].want = resolvers

(* While somebody holds the lease its channel is open and not nil, so that *)
(* release never closes a closed or a nil channel, which would panic.      *)
NoDoubleClose == Holders # {} => idle # NoChannel /\ idle \notin closed

(* Who waits, waits either on a closed channel or on the channel the last  *)
(* of the present holders will close: no wake-up is lost between the       *)
(* unlock and the select, or when a new channel replaces the old.          *)
NoLostWakeup ==
    \A i \in Issues :
        issue[i].pc = "wait"
        => issue[i].on \in closed \/ (issue[i].on = idle /\ Holders # {})

(* The inductive invariant: the counter is the number of holders, which    *)
(* makes active = 0, the condition the code tests, mean that nobody uses   *)
(* the client.                                                             *)
WantsAConfig ==
    \A i \in Issues : issue[i].pc # "rest" => issue[i].want \in Configs

LeaseInv ==
    /\ TypeOK
    /\ WantsAConfig
    /\ active = Cardinality(Holders)
    /\ ClientIsMine
    /\ NoDoubleClose
    /\ NoLostWakeup

(* Every call of acquire returns: with finitely many issues, none waits    *)
(* for ever, whatever resolvers the others use.                            *)
EveryoneIsServed ==
    \A i \in Issues : issue[i].pc \in {"acquire", "wait"}
                      ~> issue[i].pc \in {"hold", "rest"}

(* The promise of the lease.                                               *)
Lease == INSTANCE DnsClientLease WITH
    client <- resolvers,
    users <- [i \in Issues |->
                IF issue[i].pc = "hold" THEN issue[i].want ELSE NoConfig]

ImplementsLease == Lease!Spec
=============================================================================
