----------------------------- MODULE HostGuard -----------------------------
(***************************************************************************)
(* core/protection/guard.go over the persistent filter policy of the       *)
(* Windows kernel (core/protection/wfp_windows.go), with the failures the   *)
(* guard is built for: a native call that fails, and a crash of the daemon  *)
(* between any two steps of an operation.  The policy survives a crash, the *)
(* guard's memory does not, and Recover() runs before anything else after   *)
(* a restart.                                                               *)
(*                                                                          *)
(* Guard.op serialises the operations, so one operation is in flight at a   *)
(* time; TunnelPresent, Accepted and Interrupted take only Guard.mu and     *)
(* interleave with it.                                                      *)
(***************************************************************************)
EXTENDS Naturals, GuardOps

CONSTANTS Luids,   \* interface identities the tunnel adapter may get
          Ptrs     \* addresses a *verifiedTunnel may have; see VerifyTunnel

ASSUME LuidsAssumption == Luids \subseteq Nat \ {0}
ASSUME NoTunnelAssumption == NoTunnel \notin [ptr : Ptrs, luid : Luids \cup {0}]

VARIABLES
    guard,    \* Guard.state and Guard.tunnel
    op,       \* the operation that holds Guard.op, and how far it got
    kernel,   \* the policy in the kernel: is it there, whole, and for which LUID
    iface,    \* LUID of the tunnel adapter right now, 0 when there is none
    watch,    \* a TunnelPresent() call: the tunnel it looks at, and its answer
    up        \* is a daemon running, and has it recovered yet

vars == <<guard, op, kernel, iface, watch, up>>

\* A *verifiedTunnel: its address and the LUID it was verified for; 0 is the
\* system proxy, which has no interface.
Tunnels == [ptr : Ptrs, luid : Luids \cup {0}]

\* The values of the guard's record, of the operation in flight and of the
\* kernel's policy.
Guards == [status : Statuses, enforced : BOOLEAN, tunnel : Tunnels \cup {NoTunnel}]
Ops == [kind : {"none", "replace", "remove"},
        phase : {"call", "committed", "failed"}, tunnel : Tunnels \cup {NoTunnel}]
Kernels == [present : BOOLEAN, complete : BOOLEAN, luid : Luids \cup {0}]

NoOp == [kind |-> "none", phase |-> "call", tunnel |-> NoTunnel]
NoWatch == [tunnel |-> NoTunnel, luid |-> 0, pc |-> "idle"]

\* The kernel policy: absent, or present with the catch-all blocks of every
\* layer (complete) or not.  Inspect() is what tells them apart.
Absent == [present |-> FALSE, complete |-> FALSE, luid |-> 0]
Partial == [present |-> TRUE, complete |-> FALSE, luid |-> 0]
Installed(luid) == [present |-> TRUE, complete |-> TRUE, luid |-> luid]

\* Type invariant.
TypeOK ==
    /\ guard \in Guards
    /\ op \in Ops
    /\ kernel \in Kernels
    /\ iface \in Luids \cup {0}
    /\ watch \in [tunnel : Tunnels \cup {NoTunnel}, luid : Luids \cup {0},
                  pc : {"idle", "resolve", "compare", "absent"}]
    /\ up \in {"starting", "serving"}

Init ==
    /\ guard = NewGuard(TRUE)
    /\ op = NoOp
    /\ kernel \in {Absent, Partial} \cup {Installed(l) : l \in Luids \cup {0}}
    /\ iface \in Luids \cup {0}
    /\ watch = NoWatch
    /\ up = "starting"

-----------------------------------------------------------------------------
(* Operations.  Each takes Guard.op, tells the UI it is applying, makes one *)
(* transactional native call, and confirms or fails.                        *)

Free == op = NoOp

\* The LUID Backend.Replace is called with, and the tunnel confirm() stores.
LuidOf(tunnel) == IF tunnel = NoTunnel THEN 0 ELSE tunnel.luid

\* Recover(): runs once, before the daemon serves.  An error of Inspect() is
\* reported; a policy that is there is replaced, whatever the settings say.
Recover ==
    /\ up = "starting" /\ Free
    /\ \/ guard' = Fail(guard) /\ UNCHANGED op
       \/ ~kernel.present /\ guard' = ConfirmOff(guard) /\ UNCHANGED op
       \/ /\ kernel.present
          /\ guard' = Pending([guard EXCEPT !.enforced = kernel.complete])
          /\ op' = [NoOp EXCEPT !.kind = "replace"]
    /\ up' = "serving"
    /\ UNCHANGED <<kernel, iface, watch>>

\* Prepare(), up to the native call.
Prepare ==
    /\ up = "serving" /\ Free
    /\ guard' = Pending(guard)
    /\ op' = [NoOp EXCEPT !.kind = "replace"]
    /\ UNCHANGED <<kernel, iface, watch, up>>

\* Reject(err): the configured resolver cannot be used under the policy;
\* nothing native is touched.
Reject ==
    /\ up = "serving" /\ Free
    /\ guard' = Fail(guard)
    /\ UNCHANGED <<op, kernel, iface, watch, up>>

\* VerifyTunnel(): an adapter that is missing, or cannot be looked up, fails it.
VerifyTunnelFails ==
    /\ up = "serving" /\ Free
    /\ guard' = Fail(guard)
    /\ UNCHANGED <<op, kernel, iface, watch, up>>

\* VerifyTunnel(), up to the native call.  In system proxy mode the LUID is 0.
\* The new *verifiedTunnel has an address no live pointer has.
VerifyTunnel(systemProxy) ==
    /\ up = "serving" /\ Free
    /\ systemProxy \/ iface # 0
    /\ \E p \in Ptrs :
          /\ \A t \in {guard.tunnel, watch.tunnel} \ {NoTunnel} : t.ptr # p
          /\ op' = [NoOp EXCEPT !.kind = "replace",
                      !.tunnel = [ptr |-> p, luid |-> IF systemProxy THEN 0 ELSE iface]]
    /\ guard' = Pending(guard)
    /\ UNCHANGED <<kernel, iface, watch, up>>

\* Release(), up to the native call.
Release ==
    /\ up = "serving" /\ Free
    /\ guard' = Pending(guard)
    /\ op' = [NoOp EXCEPT !.kind = "remove"]
    /\ UNCHANGED <<kernel, iface, watch, up>>

\* Replace() that adds the new filters without removing the old permit.
CommitsBesideOld(o) ==
    IF o.kind = "remove" THEN Absent
    ELSE Installed(IF LuidOf(o.tunnel) = 0 THEN kernel.luid ELSE LuidOf(o.tunnel))

\* What the transaction of Backend.Replace or Backend.Remove commits.
Commits(o) == IF o.kind = "replace" THEN Installed(LuidOf(o.tunnel)) ELSE Absent

\* The native call without a transaction: it may fail half way.
NativeCallInParts ==
    /\ ~Free /\ op.phase = "call"
    /\ \/ /\ kernel' = Commits(op)
          /\ op' = [op EXCEPT !.phase = "committed"]
       \/ /\ op' = [op EXCEPT !.phase = "failed"]
          /\ kernel' \in {kernel, Partial}
    /\ UNCHANGED <<guard, iface, watch, up>>

\* The native call: the transaction commits as a whole, or an error aborts it.
NativeCall ==
    /\ ~Free /\ op.phase = "call"
    /\ \/ /\ kernel' = Commits(op)
          /\ op' = [op EXCEPT !.phase = "committed"]
       \/ /\ op' = [op EXCEPT !.phase = "failed"]
          /\ UNCHANGED kernel
    /\ UNCHANGED <<guard, iface, watch, up>>

\* The guard record after a native call whose error is dropped.
ReturnedUnchecked(g, o) ==
    IF o.kind = "replace" THEN Confirm(g, o.tunnel) ELSE ConfirmOff(g)

\* The guard record after the native call returned.
Returned(g, o) ==
    IF o.phase = "failed" THEN Fail(g)
    ELSE IF o.kind = "replace" THEN Confirm(g, o.tunnel) ELSE ConfirmOff(g)

\* The end of an operation: confirm or fail, and unlock Guard.op.
Finish ==
    /\ op.phase \in {"committed", "failed"}
    /\ guard' = Returned(guard, op)
    /\ op' = NoOp
    /\ UNCHANGED <<kernel, iface, watch, up>>

-----------------------------------------------------------------------------
(* Calls that take only Guard.mu, and interleave with the operations.      *)

EngineAccepted ==
    /\ up = "serving"
    /\ guard' = Accepted(guard)
    /\ UNCHANGED <<op, kernel, iface, watch, up>>

EngineInterrupted ==
    /\ up = "serving"
    /\ guard' = Interrupted(guard)
    /\ UNCHANGED <<op, kernel, iface, watch, up>>

\* TunnelPresent(), one step per critical section: load the tunnel, look the
\* adapter up without the lock, and compare under the lock again.
TunnelPresentLoad ==
    /\ up = "serving" /\ watch.pc = "idle"
    /\ LuidOf(guard.tunnel) # 0
    /\ watch' = [NoWatch EXCEPT !.tunnel = guard.tunnel, !.pc = "resolve"]
    /\ UNCHANGED <<guard, op, kernel, iface, up>>

TunnelPresentResolve ==
    /\ watch.pc = "resolve"
    /\ \E l \in {iface, 0} : watch' = [watch EXCEPT !.luid = l, !.pc = "compare"]
    /\ UNCHANGED <<guard, op, kernel, iface, up>>

\* TunnelPresent() that does not look at the guard's tunnel again.
SaysAbsentUnchecked == watch.luid # watch.tunnel.luid

\* Does TunnelPresent() answer that the adapter is gone?
SaysAbsent == watch.tunnel = guard.tunnel /\ watch.luid # watch.tunnel.luid

TunnelPresentAnswer ==
    /\ watch.pc = "compare"
    /\ watch' = IF SaysAbsent THEN [watch EXCEPT !.pc = "absent"] ELSE NoWatch
    /\ UNCHANGED <<guard, op, kernel, iface, up>>

\* watchTunInterface acts on the answer: the engine is interrupted and stopped.
WatchActs ==
    /\ watch.pc = "absent"
    /\ watch' = NoWatch
    /\ guard' = Interrupted(guard)
    /\ UNCHANGED <<op, kernel, iface, up>>

-----------------------------------------------------------------------------
(* The environment.                                                        *)

\* The engine creates, loses or re-creates its adapter.
AdapterChanges ==
    /\ \E l \in (Luids \cup {0}) \ {iface} : iface' = l
    /\ UNCHANGED <<guard, op, kernel, watch, up>>

\* The daemon dies and is started again: memory is lost, the policy is not (a
\* transaction that was not committed is aborted by the kernel).
Crash ==
    /\ guard' = NewGuard(TRUE)
    /\ op' = NoOp
    /\ watch' = NoWatch
    /\ up' = "starting"
    /\ UNCHANGED <<kernel, iface>>

Next ==
    \/ Recover \/ Prepare \/ Reject \/ VerifyTunnelFails
    \/ \E systemProxy \in BOOLEAN : VerifyTunnel(systemProxy)
    \/ Release \/ NativeCall \/ Finish
    \/ EngineAccepted \/ EngineInterrupted
    \/ TunnelPresentLoad \/ TunnelPresentResolve \/ TunnelPresentAnswer
    \/ WatchActs \/ AdapterChanges \/ Crash

Spec == Init /\ [][Next]_vars

-----------------------------------------------------------------------------
(* What the guard promises.                                                *)

\* Except in the instant between a commit and its confirmation, enforcement
\* the guard reports is enforcement the kernel has: no sequence of failed
\* calls, crashes and recoveries makes State.Enforced a lie (guard.go: confirm, fail and Recover).
EnforcementIsReal == guard.enforced /\ op.phase # "committed" => kernel.complete

\* Whenever the guard says the host is blocked or protected, the kernel permits
\* exactly the tunnel the guard verified, and none when it verified none: a
\* permit for the adapter of an earlier session or an earlier daemon is gone
\* (guard.go: prepare() is how Recover() ends).
NoStalePermit ==
    guard.status \in {"blocked", "active"} =>
        kernel = Installed(LuidOf(guard.tunnel))

\* Fail closed: a policy that blocks the host is only ever taken away by
\* Release(); a crash, a failed call, a recovery or a new session keeps it.
FailClosed ==
    [][kernel.complete /\ ~kernel'.complete => op.kind = "remove"]_vars

\* watchTunInterface is told that the adapter is gone only if the adapter it
\* saw is not the one of the tunnel now in force: a verification that replaces
\* the tunnel while the lookup runs is not mistaken for a lost adapter.
NoFalseAbsence ==
    [][watch.pc = "compare" /\ watch'.pc = "absent" =>
          watch.luid # LuidOf(guard.tunnel)]_vars
=============================================================================
