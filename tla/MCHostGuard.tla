---------------------------- MODULE MCHostGuard ----------------------------
(* HostGuard for TLC: two adapter identities, and the three addresses that  *)
(* are enough for the guard's tunnel, the watched tunnel and a fresh one.   *)
EXTENDS HostGuard
CONSTANTS p1, p2, p3
MCLuids == {1, 2}
MCPtrs == {p1, p2, p3}
=============================================================================
