------------------------------ MODULE MCServe ------------------------------
EXTENDS Serve
=============================================================================
