----------------------------- MODULE MCOnDemand -----------------------------
EXTENDS OnDemand
=============================================================================
