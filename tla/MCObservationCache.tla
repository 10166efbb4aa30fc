-------------------------- MODULE MCObservationCache --------------------------
EXTENDS ObservationCache
=============================================================================
