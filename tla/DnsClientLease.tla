--------------------------- MODULE DnsClientLease ---------------------------
(***************************************************************************)
(* What acme.resolverLeases promises, without its mutex, its counter and   *)
(* its channels: lego's one global DNS client serves every issue that runs *)
(* with the resolvers it was built for, and is replaced only while nobody  *)
(* uses it.                                                                *)
(***************************************************************************)
CONSTANTS
    Issues,    \* concurrent calls of ObtainCert
    Configs,   \* lists of resolvers
    NoConfig   \* the client as it is before the first issue

VARIABLES
    client,    \* the resolvers the global client was built for
    users      \* users[i]: the resolvers issue i counts on, or NoConfig

leaseVars == <<client, users>>

Init ==
    /\ client = NoConfig
    /\ users = [i \in Issues |-> NoConfig]

(* A lease is shared with issues that use the same resolvers.              *)
Acquire(i, c) ==
    /\ users[i] = NoConfig
    /\ \A j \in Issues : users[j] \in {NoConfig, c}
    /\ client' = c
    /\ users' = [users EXCEPT ![i] = c]

Release(i) ==
    /\ users[i] # NoConfig
    /\ users' = [users EXCEPT ![i] = NoConfig]
    /\ UNCHANGED client

Next == \E i \in Issues : Release(i) \/ \E c \in Configs : Acquire(i, c)

Spec == Init /\ [][Next]_leaseVars
=============================================================================
