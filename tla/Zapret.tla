------------------------------- MODULE Zapret -------------------------------
(***************************************************************************)
(* The DPI bypass as the daemon drives it (core/control/zapret.go,         *)
(* zapret_update.go, bypassverify.go, zapret_connect_budget.go) over the   *)
(* packet filter and the bundle directory of core/zapret.                  *)
(*                                                                         *)
(* Three threads meet here: "cmd", the serial command loop, which also     *)
(* runs the start-up autoconnect before it and Close after it; "job", the  *)
(* RunZapretAutoUpdate goroutine; and "verify", the verifyBypass goroutine *)
(* of the live connection.  zapretOpMu is op, connMu is conn; d.mu is held *)
(* for single steps only and is the atomicity of an action.                *)
(*                                                                         *)
(* The connection itself is Session's subject: here it is its phase, the   *)
(* routing flag its configuration was built with, and the fact that        *)
(* teardown waits for the verify goroutine.                                *)
(***************************************************************************)
EXTENDS ZapretOps

CONSTANTS
    Content,     \* [version -> set of strategies in that bundle]
    Embedded,    \* the version compiled into the binary
    Sum,         \* [version -> checksum of its archive]
    Pinned,      \* versions whose checksum is compiled in (pinnedArchives)
    Releases,    \* what the release feed may answer (zapret.Release)
    Hosts,       \* addresses a download may be redirected to
    MaxBytes,    \* the ceiling on an archive
    Archives,    \* versions of the archives the user may import
    Stored,      \* the bypass switch as the settings file may hold it at start
    Autoconnect, \* whether the daemon connects when it starts
    Targets,     \* how many control sites a measurement asks
    MaxOps,      \* bound: commands in one behaviour
    MaxTicks     \* bound: rounds of the update job

Versions == DOMAIN Content
Strategies == UNION {Content[v] : v \in Versions}
NoStrategy == 99
Threads == {"cmd", "job", "verify"}
Nobody == "nobody"
Files == Versions \X {"bats", "bin"}

ASSUME ZapretAssumption ==
    /\ Strategies \subseteq 0..98
    /\ {Embedded} \cup Pinned \cup Archives \cup {r.version : r \in Releases} \subseteq Versions
    /\ DOMAIN Sum = Versions /\ MaxBytes \in Nat
    /\ \A v \in Pinned, w \in Versions : Sum[w] = Sum[v] => w = v   \* SHA-256 tells them apart
    /\ Stored \subseteq {"unset", "on", "off"} /\ Targets \in Nat
    /\ MaxOps \in Nat /\ MaxTicks \in Nat

VARIABLES
    op,       \* holder of zapretOpMu
    conn,     \* holder of connMu
    pc,       \* where each thread is
    loc,      \* each thread's local variables
    mem,      \* zapretWanted, zapretActive, zapretAutoUpdate and the routing flag
              \* routing.ZapretActive (ZapretCovered is what the flag routes
              \* direct: read from the bundle when it is set, cleared with it)
    disk,     \* the settings file: the first three of mem
    net,      \* the strategy remembered for this network (netStrategies)
    filter,   \* the strategy our winws process runs, or NoStrategy
    dir,      \* the bundle directory: its files and its version stamp
    aside,    \* the previous directory, moved out of the way during a swap
    results,  \* what the pick in progress has measured
    tun,      \* the connection: its phase and the flag its config was built with
    gone,     \* which contexts are cancelled: "session", "daemon"
    life,     \* "up", "closing" (Close of the session loop), "leaving" (the
              \* deferred Close) or "closed"
    budget    \* remaining commands and ticks

vars == <<op, conn, pc, loc, mem, disk, net, filter, dir, aside, results, tun,
          gone, life, budget>>

NoDir == [files |-> {}, stamp |-> <<>>]
Bundle(v) == [files |-> {v} \X {"bats", "bin"}, stamp |-> v]
NoRun == [base |-> 0, todo |-> <<>>, done |-> <<>>]

\* A thread's locals: the strategy at hand, a remembered truth value, the
\* result of a start, an expired deadline, the release at hand, where a shared
\* step continues.
Idle == [s |-> NoStrategy, was |-> FALSE, up |-> FALSE, late |-> FALSE,
         rel |-> <<>>, for |-> "none"]
Settings == [wanted : {"unset", "on", "off"}, active : Strategies \cup {NoStrategy},
             auto : BOOLEAN]
Saved(m) == [wanted |-> m.wanted, active |-> m.active, auto |-> m.auto]

\* discoverStrategies(dir): what Discover finds in the directory right now.
Offered(d) ==
    Discover({[name |-> s, kind |-> "bat"] :
                 s \in UNION {Content[f[1]] : f \in {g \in d.files : g[2] = "bats"}}})

----------------------------------------------------------------------------
(* Plumbing: where a thread goes, and who holds what.                      *)

Goto(t, l) == pc' = [pc EXCEPT ![t] = l]
At(t, l) == pc[t] = l
Alive == life \in {"up", "closing", "leaving"}

\* The context a thread works under: the request's (or Close's own, which is
\* never cancelled) for cmd, the daemon's for the job.
Cancelled(t) ==
    \/ t = "cmd" /\ life = "up" /\ "session" \in gone
    \/ t = "job" /\ "daemon" \in gone

\* Where a thread goes when its operation is over, and what it lets go of.
Return(t) ==
    /\ pc' = [pc EXCEPT ![t] = IF t = "job" THEN "tick" ELSE "idle"]
    /\ loc' = [loc EXCEPT ![t] = Idle]
Finish(t) == op' = (IF op = t THEN Nobody ELSE op) /\ Return(t)

Set(t, f, v) == loc' = [loc EXCEPT ![t][f] = v]
Acquire(t, from, to) ==
    /\ At(t, from) /\ op = Nobody /\ op' = t /\ Goto(t, to)
    /\ UNCHANGED <<conn, loc, mem, disk, net, filter, dir, aside, results, tun, gone, life, budget>>

Env == <<gone, life, budget>>
Bypass == <<mem, disk, net, filter, dir, aside, results>>

\* Runner.Stop kills our winws first; waiting for the filter to detach fails
\* exactly when the context has ended.
StopFails(t) == Cancelled(t) \/ loc[t].late

\* persistSettings, with the change it follows.  (That two goroutines may save in
\* the other order is the subject of Persist.)
persistSettings == disk' = Saved(mem')

\* applyZapretState on the in-memory state.
Applied(m, running, s) ==
    [m EXCEPT !.active = IF s = NoStrategy THEN @ ELSE s, !.flag = running]

\* applyZapretState: the live tunnel follows if the flag moved, else t is done.
applyZapretState(t, m, running, s) ==
    /\ mem' = Applied(m, running, s) /\ persistSettings
    /\ IF mem.flag # running THEN Goto(t, "reapply") /\ UNCHANGED <<op, loc>> ELSE Finish(t)

\* applyZapretChoice: the user's own decision is recorded with it.
applyZapretChoice(t, running, s) ==
    applyZapretState(t, [mem EXCEPT !.wanted = IF running THEN "on" ELSE "off"], running, s)

\* A daemon starts on what its predecessor left: nothing, a bundle with the
\* filter down, or, when that one died, a filter still running or a swap cut
\* between its two renames.
Init ==
    /\ op = Nobody /\ conn = Nobody
    /\ disk \in [wanted : Stored, active : {NoStrategy}, auto : {TRUE}]
    /\ mem = [wanted |-> disk.wanted, active |-> disk.active, auto |-> disk.auto, flag |-> FALSE]
    /\ pc = [cmd |-> IF Autoconnect THEN "embed" ELSE "idle", job |-> "unborn", verify |-> "off"]
    /\ loc = [t \in Threads |-> Idle]
    /\ net = NoStrategy /\ results = NoRun
    /\ \/ dir = NoDir /\ aside \in {NoDir, Bundle(Embedded)} /\ filter = NoStrategy
       \/ dir = Bundle(Embedded) /\ aside = NoDir /\ filter \in Content[Embedded] \cup {NoStrategy}
    /\ tun = [phase |-> "idle", direct |-> FALSE]
    /\ gone = {} /\ life = "up"
    /\ budget = [ops |-> MaxOps, ticks |-> MaxTicks]

----------------------------------------------------------------------------
(* The command loop picks its next command.                                *)

Command(l) ==
    /\ At("cmd", "idle") /\ life = "up" /\ "session" \notin gone
    /\ budget.ops > 0 /\ budget' = [budget EXCEPT !.ops = @ - 1]
    /\ Goto("cmd", l)
    /\ UNCHANGED <<op, conn, Bypass, tun, gone, life>>

\* connect raises the bypass before it touches the tunnel.
handleConnect == Command("embed") /\ UNCHANGED loc
handleDisconnect == Command("conn") /\ Set("cmd", "for", "idle")
handleStartZapret == \E s \in Strategies \cup {NoStrategy} : Command("start_lock") /\ Set("cmd", "s", s)
handleStopZapret == Command("stop_lock") /\ UNCHANGED loc
handlePickZapret == Command("pick_lock") /\ UNCHANGED loc
handleUpdateZapret == Command("upd_lock") /\ UNCHANGED loc

\* import_zapret of an archive whose name tells a version or does not.
handleImportZapret ==
    \E v \in Archives, named \in BOOLEAN :
        Command("imp_wipe") /\ loc' = [loc EXCEPT !["cmd"].rel = v, !["cmd"].up = named]

\* set_zapret_auto_update.
handleSetZapretAutoUpdate ==
    \E on \in BOOLEAN :
        /\ At("cmd", "idle") /\ life = "up" /\ "session" \notin gone
        /\ budget.ops > 0 /\ budget' = [budget EXCEPT !.ops = @ - 1]
        /\ mem' = [mem EXCEPT !.auto = on] /\ persistSettings
        /\ UNCHANGED <<op, conn, pc, loc, net, filter, dir, aside, results, tun, gone, life>>

----------------------------------------------------------------------------
(* Runner.Start, shared: Stop, launch, wait for winws, continue at "for".  *)

\* Stop failing on an ended context ends Start before anything is launched, and
\* a bundle without its winws launches nothing.  Otherwise the filter comes up,
\* stays down, or comes up unseen: waitForWinws gives up on a late winws, and
\* reports nothing started when its context ends while it waits.
Launch(t) ==
    /\ At(t, "launch")
    /\ \E up \in BOOLEAN :
          /\ filter' \in {loc[t].s, NoStrategy}
          /\ filter' # NoStrategy => ~StopFails(t) /\ \E f \in dir.files : f[2] = "bin"
          /\ up => filter' # NoStrategy
          /\ Set(t, "up", up)
    /\ Goto(t, loc[t].for)
    /\ UNCHANGED <<op, conn, mem, disk, net, dir, aside, results, tun, Env>>

Start(t, s, then) ==
    /\ Goto(t, "launch")
    /\ loc' = [loc EXCEPT ![t].s = s, ![t].for = then, ![t].up = FALSE]

----------------------------------------------------------------------------
(* swap: the two renames that put a staged bundle in place.                *)

\* The staged bundle's predecessor is moved out of the way; a running winws pins
\* the directory.
MoveAside(t) ==
    /\ filter = NoStrategy \/ dir = NoDir
    /\ aside' = dir /\ dir' = NoDir
    /\ Goto(t, "swap") /\ UNCHANGED op

\* The embedded floor ends here; an update puts the bypass back if it was up.
EndSwap(t) ==
    CASE loc[t].for # "update" -> op' = Nobody /\ Goto(t, loc[t].for) /\ Set(t, "for", "none")
      [] loc[t].for = "update" /\ loc[t].was -> Goto(t, "restart") /\ UNCHANGED <<op, loc>>
      [] loc[t].for = "update" /\ ~loc[t].was -> Finish(t)

\* The rename over an existing directory fails, and so does the one back.
MoveIn(t) ==
    /\ At(t, "swap") /\ EndSwap(t)
    /\ \/ dir = NoDir /\ dir' = Bundle(loc[t].rel) /\ aside' = NoDir
       \/ dir = NoDir /\ dir' = aside /\ aside' = NoDir
       \/ UNCHANGED <<dir, aside>>
    /\ UNCHANGED <<conn, mem, disk, net, filter, results, tun, Env>>

----------------------------------------------------------------------------
(* installEmbeddedZapretIfMissing, from connect and from the job.          *)

AfterEmbed(t) == IF t = "cmd" THEN "raise" ELSE "wake"

EmbedPresent(t) ==
    /\ At(t, "embed") /\ Offered(dir) # <<>> /\ Goto(t, AfterEmbed(t))
    /\ UNCHANGED <<op, conn, loc, Bypass, tun, Env>>

EmbedLock(t) == Offered(dir) = <<>> /\ Acquire(t, "embed", "embed_do")

\* acquireZapretOp gives up: the connect on its deadline, the job on its context.
GiveUp(t, from, to) ==
    /\ At(t, from) /\ op # Nobody /\ (t = "cmd" \/ Cancelled(t))
    /\ Goto(t, to) /\ Set(t, "late", t = "cmd")
    /\ UNCHANGED <<op, conn, Bypass, tun, Env>>
EmbedGiveUp(t) == Offered(dir) = <<>> /\ GiveUp(t, "embed", AfterEmbed(t))

\* Under the lock the directory is looked at again; unpacking may fail.
EmbedInstall(t) ==
    /\ At(t, "embed_do")
    /\ \/ /\ op' = Nobody /\ Goto(t, AfterEmbed(t))
          /\ UNCHANGED <<loc, dir, aside>>
       \/ /\ Offered(dir) = <<>> /\ MoveAside(t)
          /\ loc' = [loc EXCEPT ![t].rel = Embedded, ![t].for = AfterEmbed(t)]
    /\ UNCHANGED <<conn, mem, disk, net, filter, results, tun, Env>>

----------------------------------------------------------------------------
(* autoStartZapret, and what its two callers do with the answer.           *)

\* The switch is asked before the lock ...
RaiseCheck(t) ==
    /\ At(t, "raise")
    /\ Goto(t, IF mem.wanted = "off" THEN "raised" ELSE "raise_wait")
    /\ UNCHANGED <<op, conn, loc, Bypass, tun, Env>>

\* Mutant: the answer of TryLock is not looked at.
RaiseUnlocked(t) ==
    /\ At(t, "raise_wait") /\ Goto(t, "raise_go")
    /\ UNCHANGED <<op, conn, loc, Bypass, tun, Env>>

RaiseLock(t) == Acquire(t, "raise_wait", "raise_go")
RaiseGiveUp(t) == GiveUp(t, "raise_wait", "raised")

\* Mutant: no second look at the switch.
RaiseRefusedNoBundle == Offered(dir) = <<>>

\* ... and again under it, because OFF may have won meanwhile.
RaiseRefused == mem.wanted = "off" \/ Offered(dir) = <<>>

\* This network's strategy, else the stored one, if the bundle offers it.
Chosen(want) ==
    IF \E i \in DOMAIN Offered(dir) : Offered(dir)[i] = want THEN want ELSE Offered(dir)[1]

RaiseGo(t) ==
    /\ At(t, "raise_go")
    /\ \/ RaiseRefused /\ op' = Nobody /\ Goto(t, "raised") /\ UNCHANGED loc
       \/ /\ ~RaiseRefused
          /\ Start(t, Chosen(IF net # NoStrategy THEN net ELSE mem.active), "raise_done")
          /\ UNCHANGED op
    /\ UNCHANGED <<conn, Bypass, tun, Env>>

RaiseDone(t) ==
    /\ At(t, "raise_done") /\ op' = Nobody /\ Goto(t, "raised")
    /\ IF loc[t].up THEN mem' = [mem EXCEPT !.active = loc[t].s] /\ persistSettings
       ELSE UNCHANGED <<mem, disk>>
    /\ UNCHANGED <<conn, loc, net, filter, dir, aside, results, tun, Env>>

\* raiseZapretForConnect records where the raise leaves the routing.
RecordRaise ==
    /\ At("cmd", "raised")
    /\ mem' = [mem EXCEPT !.flag = loc["cmd"].up]
    /\ Goto("cmd", "conn") /\ loc' = [loc EXCEPT !["cmd"] = [Idle EXCEPT !.for = "connecting"]]
    /\ UNCHANGED <<op, conn, disk, net, filter, dir, aside, results, tun, Env>>

\* raiseZapretOnStart: only for a user who had switched it on, and only when it
\* is not up already.
JobWake ==
    /\ At("job", "wake")
    /\ IF mem.wanted = "on" /\ ~mem.flag THEN Goto("job", "raise") /\ UNCHANGED loc ELSE Return("job")
    /\ UNCHANGED <<op, conn, Bypass, tun, Env>>

\* The routing follows, with zapretOpMu already released.
JobRaised ==
    /\ At("job", "raised")
    /\ \/ ~loc["job"].up /\ Finish("job") /\ UNCHANGED <<mem, disk>>
       \/ loc["job"].up /\ applyZapretState("job", mem, TRUE, NoStrategy)
    /\ UNCHANGED <<conn, net, filter, dir, aside, results, tun, Env>>

----------------------------------------------------------------------------
(* The tunnel: reapplyLive rebuilds it, connect, disconnect and Close take  *)
(* it down.                                                                *)

\* teardown supersedes the connection, then waits for its goroutines; the
\* routing options of the next one are read before that wait.
BeginTeardown(t, next) ==
    /\ conn = Nobody /\ conn' = t
    /\ tun' = [tun EXCEPT !.phase = "tearing"]
    /\ loc' = [loc EXCEPT ![t].for = next, ![t].was = mem.flag]
    /\ Goto(t, "teardown")
    /\ UNCHANGED <<op, Bypass, Env>>
TakeDown(t) == At(t, "conn") /\ BeginTeardown(t, loc[t].for)
Reapply(t) == At(t, "reapply") /\ tun.phase = "up" /\ BeginTeardown(t, "connecting")

\* Mutant: an early return that leaves connMu locked.
ReapplyKeepsLock(t) ==
    /\ At(t, "reapply") /\ conn = Nobody /\ conn' = t /\ tun.phase # "up" /\ Finish(t)
    /\ UNCHANGED <<Bypass, tun, Env>>

ReapplyNothing(t) ==
    /\ At(t, "reapply") /\ conn = Nobody /\ tun.phase # "up" /\ Finish(t)
    /\ UNCHANGED <<conn, Bypass, tun, Env>>

Teardown(t) ==
    /\ At(t, "teardown") /\ At("verify", "off")
    /\ tun' = [phase |-> loc[t].for, direct |-> loc[t].for = "connecting" /\ loc[t].was]
    /\ conn' = Nobody
    /\ IF life = "up" \/ t = "job" THEN Finish(t) /\ UNCHANGED <<gone, life>>
       ELSE /\ life' = IF life = "closing" THEN "leaving" ELSE "closed"
            /\ gone' = {"session", "daemon"}
            /\ Goto(t, IF life = "closing" THEN "close" ELSE "idle")
            /\ loc' = [loc EXCEPT ![t] = Idle] /\ UNCHANGED op
    /\ UNCHANGED <<Bypass, budget>>

TunnelUp ==
    /\ tun.phase = "connecting" /\ At("verify", "off") /\ Alive
    /\ tun' = [tun EXCEPT !.phase = "up"] /\ Goto("verify", "verify")
    /\ UNCHANGED <<op, conn, loc, Bypass, Env>>
TunnelFails ==
    /\ tun.phase = "connecting" /\ Alive /\ tun' = [tun EXCEPT !.phase = "idle"]
    /\ UNCHANGED <<op, conn, pc, loc, Bypass, Env>>

----------------------------------------------------------------------------
(* start_zapret, stop_zapret.                                              *)

StartLock == Acquire("cmd", "start_lock", "start_go")

\* The named strategy or the stored one must be offered; none means the first.
StartGo ==
    /\ At("cmd", "start_go")
    /\ LET want == IF loc["cmd"].s # NoStrategy THEN loc["cmd"].s ELSE mem.active
           ok == Offered(dir) # <<>> /\ (want = NoStrategy \/ Chosen(want) = want)
       IN  IF ok THEN Start("cmd", Chosen(want), "start_done") /\ UNCHANGED op ELSE Finish("cmd")
    /\ UNCHANGED <<conn, Bypass, tun, Env>>

\* start_zapret and the winner of a pick: the user's choice is recorded.
StartDone ==
    /\ At("cmd", "start_done")
    /\ IF loc["cmd"].up THEN applyZapretChoice("cmd", TRUE, loc["cmd"].s)
       ELSE Finish("cmd") /\ UNCHANGED <<mem, disk>>
    /\ UNCHANGED <<conn, net, filter, dir, aside, results, tun, Env>>

StopLock == Acquire("cmd", "stop_lock", "stop_wish")

\* recordZapretWish(false), before the stop is tried.
RecordWish ==
    /\ At("cmd", "stop_wish")
    /\ mem' = [mem EXCEPT !.wanted = "off"] /\ persistSettings /\ Goto("cmd", "stop_go")
    /\ UNCHANGED <<op, conn, loc, net, filter, dir, aside, results, tun, Env>>

StopGo ==
    /\ At("cmd", "stop_go") /\ filter' = NoStrategy
    /\ IF StopFails("cmd") THEN Finish("cmd") /\ UNCHANGED <<mem, disk>>
       ELSE applyZapretChoice("cmd", FALSE, NoStrategy)
    /\ UNCHANGED <<conn, net, dir, aside, results, tun, Env>>

----------------------------------------------------------------------------
(* pick_zapret: measure the bundle, leave the winner running.              *)

PickLock == Acquire("cmd", "pick_lock", "pick_go")

\* Runner.Pick stops the filter and measures the baseline.
PickGo ==
    /\ At("cmd", "pick_go")
    /\ \/ /\ Offered(dir) = <<>>
          /\ Finish("cmd") /\ UNCHANGED <<filter, results>>
       \/ /\ Offered(dir) # <<>> /\ StopFails("cmd")
          /\ filter' = NoStrategy /\ Finish("cmd") /\ UNCHANGED results
       \/ /\ Offered(dir) # <<>> /\ ~StopFails("cmd")
          /\ filter' = NoStrategy
          /\ \E base \in 0..Targets :
                results' = [base |-> base, todo |-> leadWith(Offered(dir), net), done |-> <<>>]
          /\ Goto("cmd", "pick_try") /\ UNCHANGED <<op, loc>>
    /\ UNCHANGED <<conn, mem, disk, net, dir, aside, tun, Env>>

\* A cancelled run ends with whatever it launched last still attached.
PickTry ==
    /\ At("cmd", "pick_try") /\ results.todo # <<>>
    /\ \/ Cancelled("cmd") /\ Finish("cmd") /\ results' = NoRun
       \/ ~Cancelled("cmd") /\ Start("cmd", Head(results.todo), "pick_probe") /\ UNCHANGED <<op, results>>
    /\ UNCHANGED <<conn, mem, disk, net, filter, dir, aside, tun, Env>>

PickProbe ==
    /\ At("cmd", "pick_probe") /\ Goto("cmd", "pick_try")
    /\ \E n \in IF loc["cmd"].up THEN 0..Targets ELSE {0} :
          LET r == [name |-> loc["cmd"].s,
                    targets |-> IF loc["cmd"].up THEN [i \in 1..Targets |-> [ok |-> i <= n, rtt |-> 1]] ELSE <<>>]
          IN  results' = [results EXCEPT !.done = Append(@, r),
                             !.todo = IF ShouldStopEarly(r, Targets, results.base) THEN <<>> ELSE Tail(@)]
    /\ UNCHANGED <<op, conn, loc, mem, disk, net, filter, dir, aside, tun, Env>>

\* Everything is stopped; the winner, if there is one, is filed and started.
PickEnd ==
    /\ At("cmd", "pick_try") /\ results.todo = <<>>
    /\ filter' = NoStrategy /\ results' = NoRun
    /\ LET b == Best(results.done, results.base)
       IN  IF b.found THEN net' = b.best.name /\ Start("cmd", b.best.name, "start_done") /\ UNCHANGED op
           ELSE Finish("cmd") /\ UNCHANGED net
    /\ UNCHANGED <<conn, mem, disk, dir, aside, tun, Env>>

----------------------------------------------------------------------------
(* updateZapret, from the command and from the job.                        *)

JobTick ==
    /\ At("job", "tick") /\ budget.ticks > 0 /\ budget' = [budget EXCEPT !.ticks = @ - 1]
    /\ Goto("job", IF mem.auto THEN "upd_lock" ELSE "tick")
    /\ UNCHANGED <<op, conn, loc, Bypass, tun, gone, life>>

UpdateLock(t) == Acquire(t, "upd_lock", "upd_go")

\* pinnedArchives.
Pins == [v \in Pinned |-> Sum[v]]

\* What may be installed by itself: newer, and pinned.
Installable(rel) == LatestRelease(rel, Pins) /\ Newer(dir.stamp, rel.version) /\ rel.version \in Pinned

UpdateLookup(t) ==
    /\ At(t, "upd_go")
    /\ \/ Finish(t)
       \/ /\ ~Cancelled(t)
          /\ \E rel \in Releases :
                /\ Installable(rel)
                /\ loc' = [loc EXCEPT ![t].rel = rel.version, ![t].was = mem.flag, ![t].s = mem.active]
          /\ Goto(t, "upd_stop") /\ UNCHANGED op
    /\ UNCHANGED <<conn, Bypass, tun, Env>>

UpdateStop(t) ==
    /\ At(t, "upd_stop")
    /\ filter' = IF loc[t].was THEN NoStrategy ELSE filter
    /\ IF loc[t].was /\ StopFails(t) THEN Finish(t) ELSE Goto(t, "upd_apply") /\ UNCHANGED <<op, loc>>
    /\ UNCHANGED <<conn, mem, disk, net, dir, aside, results, tun, Env>>

\* Apply: download, verify and stage; a failure leaves the old bundle.  The
\* network may deliver the archive of any version, by way of any redirect.
UpdateApply(t) ==
    /\ At(t, "upd_apply")
    /\ \/ /\ IF loc[t].was THEN Goto(t, "restart") /\ UNCHANGED <<op, loc>> ELSE Finish(t)
          /\ UNCHANGED <<dir, aside>>
       \/ \E rel \in Releases, body \in Versions, via \in SUBSET Hosts :
             /\ rel.version = loc[t].rel
             /\ downloadAccepted(rel, Pins, MaxBytes,
                                 [redirects |-> via, size |-> rel.size, sum |-> Sum[body]])
             /\ MoveAside(t)
             /\ loc' = [loc EXCEPT ![t].rel = body, ![t].for = "update"]
    /\ UNCHANGED <<conn, mem, disk, net, filter, results, tun, Env>>

\* restartZapretAfterUpdate.
Restart(t) ==
    /\ At(t, "restart")
    /\ IF Offered(dir) = <<>> THEN applyZapretState(t, mem, FALSE, NoStrategy)
       ELSE Start(t, Chosen(loc[t].s), "restarted") /\ UNCHANGED <<op, mem, disk>>
    /\ UNCHANGED <<conn, net, filter, dir, aside, results, tun, Env>>
Restarted(t) ==
    /\ At(t, "restarted") /\ applyZapretState(t, mem, loc[t].up, loc[t].s)
    /\ UNCHANGED <<conn, net, filter, dir, aside, results, tun, Env>>

----------------------------------------------------------------------------
(* import_zapret: wipe, unpack in place, stamp; zapretOpMu is not taken.   *)

Unpacking == <<op, conn, mem, disk, net, filter, aside, results, tun, Env>>

\* winws.exe cannot be deleted while it runs; everything else is gone by then.
ImportWipe ==
    /\ At("cmd", "imp_wipe")
    /\ IF filter # NoStrategy
       THEN dir' = [files |-> {f \in dir.files : f[2] = "bin"}, stamp |-> <<>>] /\ Return("cmd")
       ELSE dir' = NoDir /\ Goto("cmd", "imp_bats") /\ UNCHANGED loc
    /\ UNCHANGED Unpacking

ImportFiles(from, part, to) ==
    /\ At("cmd", from)
    /\ \/ Return("cmd") /\ UNCHANGED dir
       \/ /\ dir' = [dir EXCEPT !.files = @ \cup {<<loc["cmd"].rel, part>>}]
          /\ Goto("cmd", to) /\ UNCHANGED loc
    /\ UNCHANGED Unpacking
ImportBats == ImportFiles("imp_bats", "bats", "imp_bin")
ImportBin == ImportFiles("imp_bin", "bin", "imp_stamp")

\* recordImportedZapret: the version in the name, if the name has one.
ImportStamp ==
    /\ At("cmd", "imp_stamp")
    /\ dir' = IF loc["cmd"].up THEN [dir EXCEPT !.stamp = loc["cmd"].rel] ELSE dir
    /\ Return("cmd") /\ UNCHANGED Unpacking

----------------------------------------------------------------------------
(* verifyBypass: after a delay, two failed probes in a row hand the        *)
(* services back to the tunnel.  teardown supersedes it and waits for it.  *)

Current == tun.phase = "up"
VerifyGo(l) == Goto("verify", l) /\ UNCHANGED <<op, conn, loc, Bypass, tun, Env>>

VerifyWait == At("verify", "verify") /\ VerifyGo(IF mem.flag THEN "delay" ELSE "off")
VerifyLate == At("verify", "delay") /\ VerifyGo(IF Current /\ mem.flag THEN "probe1" ELSE "off")
VerifyProbe ==
    \/ At("verify", "probe1") /\ VerifyGo("off")
    \/ At("verify", "probe1") /\ Current /\ VerifyGo("probe2")
    \/ At("verify", "probe2") /\ VerifyGo("off")
    \/ At("verify", "probe2") /\ Current /\ VerifyGo("fall")

\* fallBackToTunnel: the flag, not the live tunnel.
fallBackToTunnel ==
    /\ At("verify", "fall")
    /\ mem' = [mem EXCEPT !.flag = FALSE]
    /\ IF mem.flag THEN persistSettings ELSE UNCHANGED disk
    /\ Goto("verify", "off")
    /\ UNCHANGED <<op, conn, loc, net, filter, dir, aside, results, tun, Env>>

----------------------------------------------------------------------------
(* The daemon's life: sessions, the job's start, Close.                    *)

Life == <<op, conn, loc, Bypass, tun>>

SessionEnds ==
    /\ Alive /\ "session" \notin gone /\ gone' = gone \cup {"session"}
    /\ UNCHANGED <<Life, pc, life, budget>>
NewSession ==
    /\ life = "up" /\ At("cmd", "idle") /\ gone = {"session"} /\ budget.ops > 0 /\ gone' = {}
    /\ UNCHANGED <<Life, pc, life, budget>>
Signal ==
    /\ Alive /\ "daemon" \notin gone /\ gone' = {"session", "daemon"}
    /\ UNCHANGED <<Life, pc, life, budget>>

\* startBackgroundJobs, once autoconnect has returned.
StartJob ==
    /\ Alive /\ At("job", "unborn") /\ At("cmd", "idle") /\ Goto("job", "embed")
    /\ UNCHANGED <<Life, Env>>

CloseBegin ==
    /\ life = "up" /\ At("cmd", "idle") /\ "session" \in gone
    /\ life' = "closing" /\ Goto("cmd", "close")
    /\ UNCHANGED <<Life, gone, budget>>

\* stopZapretQuietly, then connMu and teardown: Close takes one lock at a time.
CloseLock == Acquire("cmd", "close", "close_stop")
CloseStop ==
    /\ At("cmd", "close_stop")
    /\ filter' = IF dir = NoDir THEN filter ELSE NoStrategy
    /\ op' = Nobody /\ Goto("cmd", "conn") /\ Set("cmd", "for", "idle")
    /\ UNCHANGED <<conn, mem, disk, net, dir, aside, results, tun, Env>>

----------------------------------------------------------------------------
(* The next-state relation.                                                *)

Shared(t) ==
    \/ Launch(t) \/ MoveIn(t)
    \/ EmbedPresent(t) \/ EmbedLock(t) \/ EmbedGiveUp(t) \/ EmbedInstall(t)
    \/ RaiseCheck(t) \/ RaiseLock(t) \/ RaiseGiveUp(t) \/ RaiseGo(t) \/ RaiseDone(t)
    \/ Reapply(t) \/ ReapplyNothing(t) \/ Teardown(t)
    \/ UpdateLock(t) \/ UpdateLookup(t) \/ UpdateStop(t) \/ UpdateApply(t)
    \/ Restart(t) \/ Restarted(t)

CmdStep ==
    /\ Alive
    /\ \/ Shared("cmd") \/ TakeDown("cmd")
       \/ RecordRaise \/ StartLock \/ StartGo \/ StartDone
       \/ StopLock \/ RecordWish \/ StopGo
       \/ PickLock \/ PickGo \/ PickTry \/ PickProbe \/ PickEnd
       \/ ImportWipe \/ ImportBats \/ ImportBin \/ ImportStamp
       \/ CloseLock \/ CloseStop
JobStep == Shared("job") \/ JobWake \/ JobRaised
VerifyStep == VerifyWait \/ VerifyLate \/ VerifyProbe \/ fallBackToTunnel

Commands ==
    \/ handleConnect \/ handleDisconnect \/ handleStartZapret \/ handleStopZapret
    \/ handlePickZapret \/ handleUpdateZapret \/ handleImportZapret \/ handleSetZapretAutoUpdate

Next ==
    \/ Commands \/ CmdStep \/ JobStep \/ VerifyStep \/ JobTick
    \/ TunnelUp \/ TunnelFails
    \/ SessionEnds \/ NewSession \/ Signal \/ StartJob \/ CloseBegin

Spec == Init /\ [][Next]_vars

\* Each goroutine is scheduled.
FairSpec == Spec /\ WF_vars(CmdStep) /\ WF_vars(JobStep) /\ WF_vars(VerifyStep)

----------------------------------------------------------------------------
(* Properties.                                                             *)

\* Every variable keeps the shape the declarations above give it.
TypeOK ==
    /\ {op, conn} \subseteq Threads \cup {Nobody}
    /\ loc \in [Threads -> [s : Strategies \cup {NoStrategy}, was : BOOLEAN, up : BOOLEAN,
                            late : BOOLEAN, rel : Versions \cup {<<>>}, for : STRING]]
    /\ Saved(mem) \in Settings /\ mem.flag \in BOOLEAN
    /\ disk \in Settings
    /\ {net, filter} \subseteq Strategies \cup {NoStrategy}
    /\ \A d \in {dir, aside} : d.files \subseteq Files /\ d.stamp \in Versions \cup {<<>>}
    /\ tun \in [phase : {"idle", "connecting", "up", "tearing"}, direct : BOOLEAN]
    /\ gone \subseteq {"session", "daemon"}

\* autoStartZapret never launches the filter while the stored switch reads off,
\* not even when OFF is recorded while the raise waits for zapretOpMu behind
\* another operation (zapret.go:1045-1046 re-check after taking the lock).
RaiseObeysSwitch ==
    \A t \in Threads :
        pc[t] = "launch" /\ loc[t].for = "raise_done" => mem.wanted # "off"

\* A daemon that has closed leaves no packet filter behind, whatever its update
\* job was doing when Close ran: stopZapretQuietly waits for zapretOpMu, and an
\* operation that gets the lock afterwards finds its context ended before it
\* launches anything.  (A bundle directory that is missing mid-import or
\* mid-swap holds no filter, because winws pins its directory.)
ClosedMeansNoFilter == life = "closed" => filter = NoStrategy

\* The filter follows the switch: it is never raised against a recorded OFF and
\* never left behind by a daemon that has closed.
FilterFollowsSwitch == RaiseObeysSwitch /\ ClosedMeansNoFilter

\* Nothing reaches the bundle directory by itself but the compiled-in bundle and
\* archives whose checksum is compiled in, whatever the feed publishes, whatever
\* bytes the network delivers and whoever it redirects to; anything else is the
\* user's own import.
OnlyTrustedBundles ==
    {f[1] : f \in dir.files \cup aside.files} \subseteq Pinned \cup {Embedded} \cup Archives

\* Two operations never drive winws or swap the directory at once: whoever is
\* between Stop and the end of Start, or between the two renames, holds
\* zapretOpMu.
FilterIsSerialized ==
    \A t \in Threads : pc[t] \in {"launch", "swap", "restart"} => op = t

\* Every command and Close itself return: zapretOpMu is always handed on, connMu
\* is taken under zapretOpMu and never the other way round, and the goroutine
\* that teardown waits for takes neither.
CommandReturns == (pc["cmd"] # "idle") ~> (pc["cmd"] = "idle")

\* The comment on handleStopZapret: "Routing is told, so the censored services
\* return to the tunnel instead of being left pointing at the direct path the
\* bypass no longer covers."  Once every goroutine has come to rest after a
\* stop_zapret that was not cut short, no live tunnel was built to send those
\* services direct.
OffReachesTunnel ==
    /\ pc["cmd"] = "idle" /\ pc["job"] \in {"unborn", "tick"} /\ pc["verify"] = "off"
    /\ mem.wanted = "off" /\ gone = {} /\ tun.phase = "up"
    => ~tun.direct
=============================================================================
