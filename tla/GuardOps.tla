------------------------------ MODULE GuardOps ------------------------------
(***************************************************************************)
(* The state changes of core/protection/guard.go as operators on the       *)
(* guard's record.  A guard value is what Guard.state and Guard.tunnel      *)
(* hold: the reported status, whether the kernel policy is known to be      *)
(* enforced, and the tunnel the policy was verified for.                    *)
(*                                                                          *)
(* HostGuard composes these operators with the kernel's policy and with     *)
(* crashes; Session uses them for the daemon's protection field.            *)
(***************************************************************************)

CONSTANT NoTunnel   \* the nil *verifiedTunnel

\* State.Status.
Statuses == {"off", "unavailable", "applying", "blocked", "active", "error"}

\* New(b): without a backend (every platform but Windows) the guard is inert.
NewGuard(backend) ==
    [status |-> IF backend THEN "off" ELSE "unavailable",
     enforced |-> FALSE, tunnel |-> NoTunnel]

\* pending() with a status the protocol does not know.
PendingUnknown(g) == [g EXCEPT !.status = "pending"]

\* pending(): announce that an operation is under way, keep what was confirmed.
Pending(g) == [g EXCEPT !.status = "applying"]

\* fail(err) and Reject(err): report the error, keep the confirmed enforcement.
Fail(g) == [g EXCEPT !.status = "error"]

\* confirm(blocked, tunnel): the last statement of prepare() and VerifyTunnel().
Confirm(g, tunnel) ==
    [status |-> "blocked", enforced |-> TRUE, tunnel |-> tunnel]

\* confirm(off, nil): the last statement of Release() and of Recover() with
\* nothing to recover.
ConfirmOff(g) == [status |-> "off", enforced |-> FALSE, tunnel |-> NoTunnel]

\* Accepted(): the only transition that turns protection green.
Accepted(g) ==
    IF g.status = "blocked" /\ g.enforced /\ g.tunnel # NoTunnel
    THEN [g EXCEPT !.status = "active"]
    ELSE g

\* Interrupted(): the engine is gone, the policy stays.
Interrupted(g) ==
    IF g.status = "active" THEN [g EXCEPT !.status = "blocked"] ELSE g

=============================================================================
