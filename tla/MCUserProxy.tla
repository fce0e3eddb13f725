---------------------------- MODULE MCUserProxy -----------------------------
EXTENDS UserProxy
=============================================================================
