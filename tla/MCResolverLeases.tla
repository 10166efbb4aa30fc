-------------------------- MODULE MCResolverLeases --------------------------
EXTENDS ResolverLeases
=============================================================================
