------------------------- MODULE MCProviderSessions -------------------------
EXTENDS ProviderSessions, TLC
=============================================================================
