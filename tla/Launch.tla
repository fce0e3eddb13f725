------------------------------- MODULE Launch -------------------------------
(***************************************************************************)
(* A connect on one machine: the tun-conflict check of the control daemon, *)
(* then the runner's starts and stops.  handleConnect makes the check      *)
(* before anything is torn down or started, and a refusal ends it.         *)
(***************************************************************************)
EXTENDS Runner, TunGuard

launchVars == <<vars, guardVars>>

LaunchInit == Init /\ ScanInit

LaunchNext ==
    \/ verdict = "none" /\ ScanNext /\ UNCHANGED vars
    \/ verdict = "clear" /\ Next /\ UNCHANGED guardVars

LaunchSpec == LaunchInit /\ [][LaunchNext]_launchVars

LaunchFairSpec == LaunchSpec /\ Fairness
=============================================================================
