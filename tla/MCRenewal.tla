------------------------------ MODULE MCRenewal ------------------------------
(* Instances of Renewal for TLC.  The records of t_renew_task are          *)
(* interchangeable, which the safety runs use; the liveness runs do not.   *)
EXTENDS Renewal, TLC

TaskSymmetry == Permutations(Tasks)
=============================================================================
