---------------------------- MODULE MCAcmeAccount ----------------------------
EXTENDS AcmeAccount, TLC

(* Jobs and keys are interchangeable; no liveness is checked here.         *)
Symmetry == Permutations(Jobs) \cup Permutations(Keys)
=============================================================================
