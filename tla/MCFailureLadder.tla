--------------------------- MODULE MCFailureLadder ---------------------------
EXTENDS FailureLadder
=============================================================================
