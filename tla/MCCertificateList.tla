-------------------------- MODULE MCCertificateList --------------------------
EXTENDS CertificateList, TLC

Symmetry == Permutations(Domains) \cup Permutations(Refreshes)

=============================================================================
