----------------------------- MODULE UserProxy ------------------------------
(***************************************************************************)
(* The system proxy of an interactive Windows user, as the service sets    *)
(* and restores it: session_proxy.go chooses the user, proxy_windows.go    *)
(* runs a short-lived helper as that user, user_proxy_lease.go journals    *)
(* what was there (the lease, in the user's registry), writes, reads back  *)
(* and confirms, and proxy.go keeps what is pending.                       *)
(*                                                                         *)
(* The helper is a process of its own: it is terminated after 12 s or by a *)
(* logoff at any step, and outlives a dying service.  Its file lock makes  *)
(* it the only one at work on a user.  The settings record has three of    *)
(* the four fields: the PAC is treated exactly as the bypass list.         *)
(***************************************************************************)
EXTENDS Integers, FiniteSets

CONSTANTS
    Users,          \* accounts
    Sessions,       \* WTS session numbers, reused after a logoff
    MaxEdits,       \* bound: changes a user makes in the proxy settings
    MaxLogons,      \* bound: logons
    MaxFaults,      \* bound: failed writes, failed saves, killed helpers, dead services
    PartialWrites   \* the writes that may stop half way: a subset of {"apply", "restore"}

ASSUME UserProxyAssumption ==
    /\ MaxEdits \in Nat /\ MaxLogons \in Nat /\ MaxFaults \in Nat
    /\ PartialWrites \subseteq {"apply", "restore"}
    /\ 0 \notin Sessions /\ "nobody" \notin Users

Fields == {"flags", "server", "bypass"}
Applied == [flags |-> "proxy", server |-> "ours", bypass |-> "loopback"]
Initial == {[flags |-> "direct", server |-> "none", bypass |-> "none"],
            [flags |-> "proxy", server |-> "corp", bypass |-> "intranet"]}
Choices == [flags |-> {"direct"}, server |-> {"none", "corp"}, bypass |-> {"none", "intranet"}]

NoUser == "nobody"
NoLease == [held |-> FALSE]
NoOwner == [sid |-> NoUser, session |-> 0]
NoHelper == [pc |-> "off"]

VARIABLES
    settings,  \* settings[u]: the WinINet settings of u
    wish,      \* wish[u]: what u would have without us, less what we wrote over (history)
    lease,     \* lease[u]: the journal in u's registry, or NoLease
    live,      \* live[s]: the user of session s, or NoUser
    console,   \* the active console session, or 0
    owner,     \* p.owner of the session proxy
    armed,     \* d.proxyArmed: a restore is owed
    applied,   \* d.proxyApplied: the OS is routed through us
    dpc,       \* what the service waits for, under proxyMu
    then,      \* what follows a restore that succeeded: "none" or "enable"
    helper,    \* the helper process, or NoHelper
    served,    \* the users this service has started an apply for (history)
    edits, logons, faults

user  == <<settings, wish, lease>>
seats == <<live, console>>
svc   == <<owner, armed, applied, dpc, then, served>>
vars  == <<user, seats, svc, helper, edits, logons, faults>>

-----------------------------------------------------------------------------
Init ==
    /\ \E s \in Initial : settings = [u \in Users |-> s]
    /\ wish = settings
    /\ lease = [u \in Users |-> NoLease]
    /\ live = [s \in Sessions |-> NoUser]
    /\ console = 0
    /\ owner = NoOwner /\ armed = FALSE /\ applied = FALSE
    /\ dpc = "idle" /\ then = "none" /\ served = {}
    /\ helper = NoHelper
    /\ edits = 0 /\ logons = 0 /\ faults = 0

Fault == faults < MaxFaults /\ faults' = faults + 1
NoFault == UNCHANGED faults

Current == [sid |-> live[console], session |-> console]

-----------------------------------------------------------------------------
(* The helper, user_proxy_lease.go.  Its steps are what another process or *)
(* a death can come between.                                               *)

Step(pc) == helper' = [helper EXCEPT !.pc = pc]

\* The fields in F carry the new values, the others keep the old.
Mixed(old, new, F) == [f \in Fields |-> IF f \in F THEN new[f] ELSE old[f]]

NewLease(u) == [held |-> TRUE, before |-> settings[u], applied |-> Applied, confirmed |-> FALSE]

\* applyUserProxy, a lease is there: either it is already what we want, and is
\* confirmed if it was not, or it is restored first.
Load ==
    LET u == helper.user IN
    /\ helper.pc = "load"
    /\ \/ /\ ~lease[u].held
          /\ Step("snapshot") /\ UNCHANGED lease /\ NoFault
       \/ /\ lease[u].held /\ settings[u] = lease[u].applied
          /\ \/ /\ lease' = [lease EXCEPT ![u].confirmed = TRUE]
                /\ Step("ok") /\ NoFault
             \/ /\ ~lease[u].confirmed
                /\ Step("err") /\ UNCHANGED lease /\ Fault
       \/ /\ lease[u].held /\ settings[u] # lease[u].applied
          /\ helper' = [helper EXCEPT !.pc = "restore", !.after = "snapshot"]
          /\ UNCHANGED lease /\ NoFault
    /\ UNCHANGED <<settings, wish, seats, svc, edits, logons>>

\* The settings to go back to are journaled before anything is written; a
\* failed save leaves the settings alone.
Snapshot ==
    LET u == helper.user IN
    /\ helper.pc = "snapshot"
    /\ \/ /\ lease' = [lease EXCEPT ![u] = NewLease(u)]
          /\ helper' = [helper EXCEPT !.pc = "write", !.seen = wish[u]] /\ NoFault
       \/ /\ UNCHANGED lease
          /\ Step("err") /\ Fault
    /\ UNCHANGED <<settings, wish, seats, svc, edits, logons>>

\* The rollback of a failed apply: its error is reported whatever it does.
Rollback == helper' = [helper EXCEPT !.pc = "restore", !.after = "err"]

\* The fields F of what the helper read, or made of it, go over whatever the
\* user has changed since the read: an edit of theirs in F is lost.  A server
\* that was set in between and is not in F takes the rest over as it stands.
Overwrite(u, new, F) ==
    LET now  == Mixed(settings[u], new, F)
        left == Mixed(wish[u], helper.seen, F)
    IN  /\ settings' = [settings EXCEPT ![u] = now]
        /\ wish' = [wish EXCEPT ![u] = IF left.server = helper.seen.server THEN left
                                        ELSE [now EXCEPT !.server = left.server]]

Write ==
    /\ helper.pc = "write"
    /\ \/ /\ Overwrite(helper.user, Applied, Fields)
          /\ Step("verify") /\ NoFault
       \/ /\ "apply" \in PartialWrites
          /\ \E F \in SUBSET Fields : Overwrite(helper.user, Applied, F)
          /\ Fault
          /\ Rollback \/ helper' = [helper EXCEPT !.pc = "err"]   \* an error, or killed half way
    /\ UNCHANGED <<lease, seats, svc, edits, logons>>

Verify ==
    LET u == helper.user IN
    /\ helper.pc = "verify"
    /\ IF settings[u] = Applied THEN Step("confirm") ELSE Rollback
    /\ NoFault
    /\ UNCHANGED <<user, seats, svc, edits, logons>>

\* The read-back is made durable before success is reported.
Confirm ==
    LET u == helper.user IN
    /\ helper.pc = "confirm"
    /\ \/ /\ lease' = [lease EXCEPT ![u].confirmed = TRUE]
          /\ Step("ok") /\ NoFault
       \/ /\ UNCHANGED lease
          /\ Rollback /\ Fault
    /\ UNCHANGED <<settings, wish, seats, svc, edits, logons>>

\* Mutant: the journal is restored over whatever the user has changed since.
RestoredBlindly(l, current) == l.before

\* A field still equal to our write goes back; an edit of the user stays.
Restored(l, current) ==
    [f \in Fields |-> IF current[f] = l.applied[f] THEN l.before[f] ELSE current[f]]

\* Someone else's server: an explicit later change, or a write that never came.
Foreign(l, current) == current.server # l.applied.server
Settled(l, current) == l.confirmed \/ current = l.before \/ current.server # l.before.server

Delete(u) == lease' = [lease EXCEPT ![u] = NoLease]

\* The lease is dropped, which ends the restore, or cannot be.
DropLease(u) ==
    \/ Delete(u) /\ Step(helper.after) /\ NoFault
    \/ UNCHANGED lease /\ Step("err") /\ Fault

\* Up to the write: what is there is read, and it decides.
restoreUserProxy ==
    LET u == helper.user
        l == lease[u]
        want == Restored(l, settings[u])
    IN
    /\ helper.pc = "restore"
    /\ \/ /\ ~l.held
          /\ Step(helper.after) /\ UNCHANGED lease /\ NoFault
       \/ /\ l.held   \* nothing of ours is left
          /\ IF Foreign(l, settings[u]) THEN Settled(l, settings[u]) ELSE want = settings[u]
          /\ DropLease(u)
       \/ /\ l.held /\ Foreign(l, settings[u]) /\ ~Settled(l, settings[u])   \* ambiguous: refused
          /\ Step("err") /\ UNCHANGED lease /\ NoFault
       \/ /\ l.held /\ ~Foreign(l, settings[u]) /\ want # settings[u]
          /\ helper' = [helper EXCEPT !.pc = "writeback", !.want = want, !.seen = wish[u]]
          /\ UNCHANGED lease /\ NoFault
    /\ UNCHANGED <<settings, wish, seats, svc, edits, logons>>

WriteBack ==
    /\ helper.pc = "writeback"
    /\ \/ /\ Overwrite(helper.user, helper.want, Fields)
          /\ Step("readback") /\ NoFault
       \/ /\ "restore" \in PartialWrites
          /\ \E F \in SUBSET Fields : Overwrite(helper.user, helper.want, F)
          /\ Step("err") /\ Fault
    /\ UNCHANGED <<lease, seats, svc, edits, logons>>

Readback ==
    LET u == helper.user IN
    /\ helper.pc = "readback"
    /\ \/ /\ settings[u] = helper.want
          /\ DropLease(u)
       \/ /\ settings[u] # helper.want
          /\ Step("err") /\ UNCHANGED lease /\ NoFault
    /\ UNCHANGED <<settings, wish, seats, svc, edits, logons>>

\* The 12 s are over: only the helper is terminated, the lease survives.
HelperKilled ==
    /\ helper.pc \notin {"off", "ok", "err"}
    /\ Step("err") /\ Fault
    /\ UNCHANGED <<user, seats, svc, edits, logons>>

-----------------------------------------------------------------------------
(* The service: session_proxy.go under proxy.go.                           *)

\* Mutant: the session number alone identifies the owner.
proxySessionOnly(o) == o.session # 0 /\ live[o.session] # NoUser

\* A session number reused by another account is refused.
proxySessionToken(o) == o.session # 0 /\ live[o.session] = o.sid

\* The restore worked: nothing is owed.
Forget ==
    /\ owner' = NoOwner /\ armed' = FALSE /\ applied' = FALSE
    /\ dpc' = IF then = "enable" THEN "arm" ELSE "idle"
    /\ then' = "none"

\* The same account with a new session: its lease is still in its registry.
Rebinds == console # 0 /\ live[console] = owner.sid /\ console # owner.session

\* Mutant: the retry may retry again.
AnswerRetries(res) ==
    \/ /\ dpc = "enable"
       /\ applied' = (res = "ok") /\ dpc' = IF res = "ok" THEN "idle" ELSE "disable"
       /\ UNCHANGED <<owner, armed, then, served>>
    \/ /\ dpc \in {"disable", "retry"} /\ res = "ok"
       /\ Forget
       /\ UNCHANGED served
    \/ /\ dpc \in {"disable", "retry"} /\ res = "err"
       /\ owner' = [owner EXCEPT !.session = console]
       /\ dpc' = "retry"
       /\ UNCHANGED <<armed, applied, then, served>>

\* What the service makes of the helper's exit code.
Answer(res) ==
    \/ /\ dpc = "enable" /\ res = "ok"
       /\ applied' = TRUE /\ dpc' = "idle"
       /\ UNCHANGED <<owner, armed, then, served>>
    \/ /\ dpc = "enable" /\ res = "err"
       /\ dpc' = "disable" /\ then' = "none"
       /\ UNCHANGED <<owner, armed, applied, served>>
    \/ /\ dpc \in {"disable", "retry"} /\ res = "ok"
       /\ Forget
       /\ UNCHANGED served
    \/ /\ dpc = "disable" /\ res = "err" /\ Rebinds
       /\ owner' = [owner EXCEPT !.session = console]
       /\ dpc' = "retry"
       /\ UNCHANGED <<armed, applied, then, served>>
    \/ /\ res = "err" /\ (dpc = "retry" \/ (dpc = "disable" /\ ~Rebinds))
       /\ dpc' = "idle" /\ then' = "none" /\ applied' = FALSE
       /\ UNCHANGED <<owner, armed, served>>

\* Run: the helper starts as the owner, or the token is not to be had.
Run ==
    /\ dpc \in {"enable", "disable", "retry"} /\ helper.pc = "off"
    /\ \/ /\ proxySessionToken(owner)
          /\ helper' = [pc |-> IF dpc = "enable" THEN "load" ELSE "restore",
                        after |-> "ok", user |-> live[owner.session], session |-> owner.session,
                        want |-> Applied, seen |-> wish[live[owner.session]], attached |-> TRUE]
          /\ UNCHANGED svc
       \/ /\ ~proxySessionToken(owner)
          /\ Answer("err")
          /\ UNCHANGED helper
    /\ UNCHANGED <<user, seats, edits, logons, faults>>

HelperExits ==
    /\ helper.pc \in {"ok", "err"}
    /\ IF helper.attached THEN Answer(helper.pc) ELSE UNCHANGED svc
    /\ helper' = NoHelper
    /\ UNCHANGED <<user, seats, edits, logons, faults>>

\* Enable: the owner is the console user, kept once chosen.
Enable ==
    /\ owner # NoOwner \/ console # 0
    /\ owner' = IF owner = NoOwner THEN Current ELSE owner
    /\ armed' = TRUE /\ dpc' = "enable" /\ served' = served \cup {owner'.sid}

\* A connect in system-proxy mode: what is owed is restored first.
armSystemProxy ==
    /\ dpc = "idle" /\ ~applied
    /\ \/ /\ armed
          /\ dpc' = "disable" /\ then' = "enable"
          /\ UNCHANGED <<owner, armed, served>>
       \/ /\ ~armed
          /\ Enable
          /\ UNCHANGED then
    /\ UNCHANGED <<user, seats, applied, helper, edits, logons, faults>>

\* ... and then the new one is applied; with nobody at the console it fails.
ArmAfterRestore ==
    /\ dpc = "arm"
    /\ \/ Enable
       \/ /\ owner = NoOwner /\ console = 0
          /\ dpc' = "idle"
          /\ UNCHANGED <<owner, armed, served>>
    /\ UNCHANGED <<user, seats, applied, then, helper, edits, logons, faults>>

disarmSystemProxy ==
    /\ dpc = "idle" /\ armed
    /\ applied' = FALSE
    /\ dpc' = "disable" /\ then' = "none"
    /\ UNCHANGED <<user, seats, owner, armed, served, helper, edits, logons, faults>>

\* At start-up, and on a logon while the state is idle or an error: what is owed,
\* or what the console user's lease says a predecessor owed.  An error can stand
\* over a proxy that is still applied, which is marked so until the answer.
Reconcile ==
    /\ dpc = "idle"
    /\ \/ owner # NoOwner /\ UNCHANGED owner
       \/ /\ owner = NoOwner /\ console # 0 /\ lease[live[console]].held
          /\ owner' = Current
    /\ armed' = TRUE /\ dpc' = "disable" /\ then' = "none"
    /\ UNCHANGED <<user, seats, applied, served, helper, edits, logons, faults>>

\* The service dies; the helper goes on by itself.
ServiceDies ==
    /\ Fault
    /\ owner' = NoOwner /\ armed' = FALSE /\ applied' = FALSE
    /\ dpc' = "idle" /\ then' = "none" /\ served' = {}
    /\ helper' = IF helper.pc = "off" THEN helper ELSE [helper EXCEPT !.attached = FALSE]
    /\ UNCHANGED <<user, seats, edits, logons>>

-----------------------------------------------------------------------------
(* The machine and its users, external.                                    *)

Logon ==
    /\ logons < MaxLogons /\ logons' = logons + 1
    /\ \E u \in Users, s \in Sessions :
        /\ live[s] = NoUser /\ \A t \in Sessions : live[t] # u
        /\ live' = [live EXCEPT ![s] = u]
        /\ console' = s
    /\ UNCHANGED <<user, svc, helper, edits, faults>>

\* A logoff ends the session and the helper that runs in it.
Logoff ==
    /\ \E s \in Sessions :
        /\ live[s] # NoUser
        /\ live' = [live EXCEPT ![s] = NoUser]
        /\ console' = IF console = s THEN 0 ELSE console
        /\ helper' = IF helper.pc \notin {"off", "ok", "err"} /\ helper.session = s
                       THEN [helper EXCEPT !.pc = "err"] ELSE helper
    /\ UNCHANGED <<user, svc, edits, logons, faults>>

Switch ==
    /\ \E s \in Sessions : live[s] # NoUser /\ s # console /\ console' = s
    /\ UNCHANGED <<user, live, svc, helper, edits, logons, faults>>

\* A logged-on user changes one setting to a value that is not ours, at any time.
\* Taking the server over accepts the rest as it stands.
Edit ==
    /\ edits < MaxEdits /\ edits' = edits + 1
    /\ \E u \in Users, f \in Fields : \E v \in Choices[f] :
        /\ \E s \in Sessions : live[s] = u
        /\ v # settings[u][f]
        /\ settings' = [settings EXCEPT ![u][f] = v]
        /\ wish' = [wish EXCEPT ![u] = IF f = "server" THEN settings'[u] ELSE [@ EXCEPT ![f] = v]]
    /\ UNCHANGED <<lease, seats, svc, helper, logons, faults>>

-----------------------------------------------------------------------------
HelperStep ==
    \/ Load \/ Snapshot \/ Write \/ Verify \/ Confirm
    \/ restoreUserProxy \/ WriteBack \/ Readback

Next ==
    \/ HelperStep \/ HelperKilled \/ HelperExits
    \/ Run \/ armSystemProxy \/ ArmAfterRestore \/ disarmSystemProxy \/ Reconcile \/ ServiceDies
    \/ Logon \/ Logoff \/ Switch \/ Edit

Spec == Init /\ [][Next]_vars

\* The helper and the service go on; nothing else has to happen.
FairSpec == Spec /\ WF_vars(HelperStep) /\ WF_vars(HelperExits) /\ WF_vars(Run) /\ WF_vars(ArmAfterRestore)

-----------------------------------------------------------------------------
Settings == [flags : {"direct", "proxy"}, server : {"none", "corp", "ours"},
             bypass : {"none", "intranet", "loopback"}]

\* The shape of the state: a restore is owed exactly while the proxy has an owner.
TypeOK ==
    /\ settings \in [Users -> Settings]
    /\ \A u \in Users : lease[u].held => lease[u].before \in Settings
    /\ live \in [Sessions -> Users \cup {NoUser}]
    /\ console \in Sessions \cup {0} /\ (console # 0 => live[console] # NoUser)
    /\ armed \in BOOLEAN /\ applied \in BOOLEAN /\ (armed <=> owner # NoOwner)
    /\ dpc \in {"idle", "enable", "disable", "retry", "arm"} /\ then \in {"none", "enable"}

\* Where no lease is held and no helper is at work, the settings are the user's
\* own: everything we wrote is gone, and everything the user has changed meanwhile
\* is there, whatever died or failed on the way.  Only an edit that a write went
\* over, made between what the helper had read and that write, is not: the code
\* does not look again, and wish has given it up at the write.
RestoredIsTheUsers ==
    \A u \in Users :
        (~lease[u].held /\ (helper.pc = "off" \/ helper.user # u)) => settings[u] = wish[u]

\* The service does not forget a user it has written for: once it owes nothing,
\* no user it served has a lease left, through failed applies, logoffs, reused
\* session numbers and users that come back in another session.
NothingLeftBehind ==
    (dpc = "idle" /\ ~armed) => \A u \in served : ~lease[u].held

\* While the OS is routed through us and no command is under way, the way back is
\* journaled and confirmed for the owner: a death of the service can be undone.
AppliedIsJournaled ==
    applied /\ dpc = "idle" =>
               /\ owner.sid \in Users
               /\ lease[owner.sid].held /\ lease[owner.sid].confirmed

\* The lease follows the proxy: an applied proxy has a confirmed lease, and a
\* service that owes nothing has left none.
LeaseFollowsProxy == NothingLeftBehind /\ AppliedIsJournaled

\* A command of the service ends: the helper finishes or is killed, and the one
\* retry with the new session is the last.
CommandEnds == (dpc # "idle") ~> (dpc = "idle")
=============================================================================
