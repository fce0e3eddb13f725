---------------------------- MODULE MCNodeCheck ----------------------------
EXTENDS NodeCheck
MCServers == <<"a", "b">>
=============================================================================
