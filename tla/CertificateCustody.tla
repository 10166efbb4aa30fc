-------------------------- MODULE CertificateCustody --------------------------
(***************************************************************************)
(* What the renewal engine promises of the certificates of the domains,    *)
(* without its tasks, retries, requests and cycles: a certificate is       *)
(* replaced only when it is due, only by a longer one, and only by whoever *)
(* holds the domain; and nothing reaches the cloud that the database did   *)
(* not hold, at that moment or when the daemon read it.                    *)
(*                                                                         *)
(* A certificate is the life it has left; 0 is an expired one, one that    *)
(* does not validate, or none.                                             *)
(***************************************************************************)
EXTENDS Naturals

CONSTANTS
    Domains,       \* the custom domains
    CertLife,      \* life of a new certificate
    RenewBefore    \* a certificate is due when no more life is left

VARIABLES
    held,      \* the domains somebody works on
    stored,    \* stored[d]: the certificate of d in the database
    bound,     \* bound[d]: the certificate of d in the cloud
    spare      \* spare[d]: what was read of stored[d] and may still be bound

custodyVars == <<held, stored, bound, spare>>

Nothing == [d \in Domains |-> 0]

Init ==
    /\ held = {}
    /\ stored = Nothing /\ bound = Nothing /\ spare = Nothing

(* The executors.                                                          *)

Hold(d) ==
    /\ d \notin held /\ held' = held \cup {d}
    /\ UNCHANGED <<stored, bound, spare>>

Release(d) ==
    /\ held' = held \ {d}
    /\ UNCHANGED <<stored, bound, spare>>

Replace(d) ==
    /\ d \in held
    /\ stored[d] <= RenewBefore
    /\ \E life \in (stored[d] + 1)..CertLife :
          stored' = [stored EXCEPT ![d] = life]
    /\ UNCHANGED <<held, bound, spare>>

Bind(d) ==
    /\ d \in held /\ bound' = [bound EXCEPT ![d] = stored[d]]
    /\ UNCHANGED <<held, stored, spare>>

(* The daemon, which repairs lapsed bindings without holding the domain.   *)

Read ==
    /\ spare' = stored
    /\ UNCHANGED <<held, stored, bound>>

Repair(d) ==
    /\ spare[d] > 0 /\ spare' = [spare EXCEPT ![d] = 0]
    /\ bound' \in {bound, [bound EXCEPT ![d] = spare[d]]}
    /\ UNCHANGED <<held, stored>>

(* The environment.                                                        *)

Unbind(d) ==
    /\ bound' = [bound EXCEPT ![d] = 0]
    /\ UNCHANGED <<held, stored, spare>>

Restart ==
    /\ held' = {} /\ spare' = Nothing
    /\ UNCHANGED <<stored, bound>>

Older(lives) ==
    [d \in Domains |-> IF lives[d] > 0 THEN lives[d] - 1 ELSE lives[d]]

Age ==
    /\ stored' = Older(stored) /\ bound' = Older(bound) /\ spare' = Older(spare)
    /\ UNCHANGED held

Next ==
    \/ \E d \in Domains : \/ Hold(d) \/ Release(d) \/ Replace(d) \/ Bind(d)
                          \/ Repair(d) \/ Unbind(d)
    \/ Read \/ Restart \/ Age

Spec == Init /\ [][Next]_custodyVars
=============================================================================
