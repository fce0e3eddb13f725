------------------------------ MODULE Session ------------------------------
(***************************************************************************)
(* The connection lifecycle of the Tenebra core daemon                      *)
(* (core/control/connect.go, health.go, hotswitch.go, tunwatch.go, the       *)
(* option setters of daemon.go, proxy.go and protection.go).                 *)
(*                                                                           *)
(* One profile, one sing-box process.  The threads are                       *)
(*   - command handlers, one per control session (cmd);                      *)
(*   - the goroutines of a connection, counted by Daemon.wg: the fallback    *)
(*     loop and, once connected, the process, health and interface watchers  *)
(*     (loop, watcher, health, tunwatch), one of each per generation;        *)
(*   - detached reconnects, counted by Daemon.relaunchWG (off).              *)
(* Whoever holds Daemon.connMu runs the transaction tx.  Daemon.mu guards    *)
(* single reads and writes, so a step of the model is what happens between   *)
(* two places where another thread may come in.                              *)
(***************************************************************************)
EXTENDS Naturals, GuardOps

CONSTANTS
    Nodes,          \* servers a profile may list
    None,           \* no node, no client, no chain
    Clients,        \* control sessions
    Scenes,         \* settings a behaviour may run in, see below
    MaxRelaunches,  \* maxRelaunches
    MaxGen          \* bound on Daemon.generation

VARIABLES
    scene,       \* the setting of this behaviour, one of Scenes
    gen,         \* Daemon.generation
    state,       \* Daemon.state: connection state, is a profile named, node
    stored,      \* servers of the profile in the store; {} when it is removed
    refresh,     \* servers a subscription refresh is about to store
    opts,        \* Daemon.routing and Daemon.tun, one flag per kind of option
    chain,       \* Daemon.multihop: None, or its entry and exit
    loop,        \* per generation: the fallback loop
    watcher,     \* per generation: watchProcess
    health,      \* per generation: healthWatch
    tunwatch,    \* per generation: watchTunInterface
    off,         \* detached reconnects waiting for connMu
    tx,          \* the transaction of the holder of connMu
    cmd,         \* per client: the command in flight
    proc,        \* generation whose sing-box process runs, 0 for none
    sel,         \* the exit the running process is pointed at
    live,        \* Daemon.live: what the running config can be switched between
    relaunches,  \* Daemon.relaunches
    proxy,       \* proxyArmed, proxyApplied, and whether the OS uses our proxy
    guard,       \* Daemon.protection
    shutdown,    \* progress of Close()
    events       \* bounded commands and failures so far

vars == <<gen, state, stored, refresh, opts, chain, loop, watcher, health, tunwatch, off,
          tx, cmd, proc, sel, live, relaunches, proxy, guard, shutdown, events>>

Gens == 0..MaxGen

\* A scene is one machine and what may happen on it.
Sessions == scene.clients          \* sessions whose handlers may overlap
Commands == scene.commands         \* commands they send
Picks == scene.picks               \* nodes a connect may name, None for no choice
Flips == scene.flips               \* options a session may flip
Chains == scene.chains             \* multihop chains a session may choose
Backend == scene.backend           \* has the platform persistent host protection
HealthWatch == scene.healthWatch   \* is healthInterval > 0, automatic failover on
TunWatch == scene.tunWatch         \* is tunWatchInterval > 0
GuardFails == scene.guardFails     \* may a native host protection call fail
ProxyFails == scene.proxyFails     \* may a system proxy call fail
NStrategies == scene.strategies    \* len(fallback.DefaultStrategies)
MaxEvents == scene.events          \* bound on commands, deaths and degradations

ASSUME ScenesAssumption ==
    \A s \in Scenes :
        /\ s.clients \subseteq Clients /\ s.nodes \subseteq Nodes
        /\ s.picks \subseteq Nodes \cup {None}
        /\ s.chains \subseteq [entry : Nodes, exit : Nodes]
        /\ {s.backend, s.healthWatch, s.tunWatch, s.guardFails, s.proxyFails}
             \subseteq BOOLEAN
        /\ s.strategies \in Nat \ {0} /\ s.events \in Nat
ASSUME BoundsAssumption == MaxRelaunches \in Nat /\ MaxGen \in Nat
ASSUME NoneAssumption == None \notin Nodes /\ None \notin Clients

\* Options by how the code treats them.  "tls_fragment" stands for TLSFragment
\* and the tun stack, "routing" for the mode, presets, split, DNS and rules.
Options == {"kill_switch", "tls_fragment", "routing", "system_proxy"}

\* The options reconcileConnectingOptions compares.
ReconciledKillSwitchOnly == {"kill_switch"}
Reconciled == {"kill_switch", "tls_fragment"}

AllOff == [o \in Options |-> FALSE]

ConnStates == {"idle", "connecting", "connected", "health_reconnecting", "error"}
States == [st : ConnStates, prof : BOOLEAN, node : Nodes \cup {None}]
Idle == [st |-> "idle", prof |-> FALSE, node |-> None]

\* setState(State{...}) with a profile.
Report(st, node) == [st |-> st, prof |-> TRUE, node |-> node]

\* The error teardown() reports when it cannot restore the system proxy.
CleanupFailed == [st |-> "error", prof |-> FALSE, node |-> None]

\* fallbackLoop, and where its goroutine is.
NoLoop == [pc |-> "none", node |-> None, todo |-> {}, strat |-> 1,
           p |-> {}, opts |-> AllOff, chain |-> None]
NoWatcher == [pc |-> "none", node |-> None]
NoHealth == [pc |-> "none", start |-> None, active |-> None, target |-> None]
NoLive == [gen |-> 0, nodes |-> {}, built |-> AllOff, chain |-> None]
NoTx == [pc |-> "free", why |-> "none", c |-> None, g |-> 0, p |-> {},
         node |-> None, avoid |-> None, todo |-> {}, opts |-> AllOff, chain |-> None]
NoProxy == [armed |-> FALSE, applied |-> FALSE, os |-> FALSE]
Ready == [pc |-> "ready", node |-> None, p |-> {}]

\* The *verifiedTunnel of a connection: its adapter, or the local proxy.
TunTunnel == "tun"
ProxyTunnel == "proxy"

-----------------------------------------------------------------------------
(* Reads of the shared state.                                               *)

connMuFree == tx.pc = "free"

\* Only recordSuccess() holds protectionOp across two steps.
protectionOpFree == \A g \in Gens : loop[g].pc # "reconcile"

\* isCurrent(g).  The context of a generation is cancelled in the same critical
\* section of teardown() that moves the generation on.
isCurrent(g) == g = gen

liveNode(fallback) == IF state.node # None THEN state.node ELSE fallback

\* What allowAutoRecovery() may answer: its cooldown and its budget per window
\* may refuse at any time.
allowAutoRecovery(g) ==
    {FALSE, isCurrent(g) /\ state.prof /\ state.st = "connected"}

\* liveSwitchTarget(): can the running process be pointed at node?
liveSwitchTarget(node) ==
    /\ state.st = "connected" /\ state.prof
    /\ live # NoLive /\ live.gen = gen
    /\ node # state.node /\ node \in live.nodes

\* Daemon.wg is at zero.
wgZeroLoopsOnly == \A g \in Gens : loop[g].pc = "none"
wgZero ==
    \A g \in Gens : /\ loop[g].pc = "none" /\ watcher[g].pc = "none"
                    /\ health[g].pc = "none" /\ tunwatch[g] = "none"

\* What disarmSystemProxy() can leave behind.  Nothing owed is nothing done.
disarmSystemProxy(px) ==
    IF ~px.armed THEN [ok : {TRUE}, px : {[px EXCEPT !.applied = FALSE]}]
    ELSE [ok : {TRUE}, px : {NoProxy}]
         \cup IF ProxyFails THEN [ok : {FALSE}, px : {[px EXCEPT !.applied = FALSE]}]
              ELSE {}

\* The same with ownership recorded only after Enable() succeeded.
armSystemProxyLate(px) ==
    [ok : {TRUE}, px : {[armed |-> TRUE, applied |-> TRUE, os |-> TRUE]}]
    \cup [ok : {FALSE}, px : {[px EXCEPT !.os = TRUE]}]

\* What armSystemProxy() can leave behind.  A restore that is still owed comes
\* first; an Enable() that fails is taken to have touched the OS, and is rolled
\* back.
armSystemProxy(px) ==
    LET restored == IF px.armed THEN disarmSystemProxy(px) ELSE [ok : {TRUE}, px : {px}]
        enabled == [armed |-> TRUE, applied |-> TRUE, os |-> TRUE]
        rolledBack == disarmSystemProxy([enabled EXCEPT !.applied = FALSE])
    IN  IF px.applied THEN [ok : {TRUE}, px : {px}]
        ELSE {r \in restored : ~r.ok}
             \cup [ok : {TRUE}, px : {enabled}]
             \cup IF ProxyFails THEN [ok : {FALSE}, px : {r.px : r \in rolledBack}] ELSE {}

\* A native host protection call that confirms good or fails.
Native(good) ==
    [ok : {TRUE}, g : {good}]
    \cup IF GuardFails THEN [ok : {FALSE}, g : {Fail(guard)}] ELSE {}

\* prepareProtection(): block the host before the old tunnel goes down.
prepareProtection ==
    IF ~Backend \/ (~opts["kill_switch"] /\ guard.status # "error" /\ ~guard.enforced)
    THEN [ok : {TRUE}, g : {guard}]
    ELSE IF ~opts["kill_switch"] /\ guard.status = "error"
    THEN [ok : {FALSE}, g : {guard}]
    ELSE Native(Confirm(guard, NoTunnel))

\* The same, trusting the options the loop was built with.
activateAsBuilt(built) ==
    IF ~Backend \/ ~built["kill_switch"] THEN [ok : {TRUE}, g : {guard}]
    ELSE Native(Confirm(guard, IF built["system_proxy"] THEN ProxyTunnel ELSE TunTunnel))

\* activateProtectionLocked(): permit the tunnel that just came up.
activateProtectionLocked(built) ==
    IF ~Backend \/ (~opts["kill_switch"] /\ ~guard.enforced /\ guard.status # "error")
    THEN [ok : {TRUE}, g : {guard}]
    ELSE IF ~opts["kill_switch"] /\ ~guard.enforced
    THEN [ok : {FALSE}, g : {guard}]
    ELSE Native(Confirm(guard, IF built["system_proxy"] THEN ProxyTunnel ELSE TunTunnel))

\* Release() of the guard.
releaseProtection ==
    IF Backend THEN Native(ConfirmOff(guard)) ELSE [ok : {TRUE}, g : {guard}]

\* validateMultihopProfile().
validateMultihop(p, ch) == ch # None => {ch.entry, ch.exit} \subseteq p

\* The exit startConnect() must use: the chain's, or the one asked for.
explicitNode(t, ch) == IF ch # None THEN ch.exit ELSE t.node

\* buildCandidates() and dropCandidate(): the nodes the loop may try; {} is an
\* error.
candidates(t, ch) ==
    IF ~validateMultihop(t.p, ch) \/ (ch # None /\ t.avoid = ch.exit) THEN {}
    ELSE IF explicitNode(t, ch) # None THEN t.p \cap {explicitNode(t, ch)}
    ELSE t.p \ {t.avoid}

\* singbox.SelectorMembers(): a chain collapses the selector onto its exit.
SelectorMembers(job) == IF job.chain # None THEN {job.chain.exit} ELSE job.p

-----------------------------------------------------------------------------
(* Init: a freshly started daemon, with or without an autoconnect pending.  *)

Detached == [kind : {"relaunch", "reconcile", "failover", "autoconnect"},
             gen : Gens, node : Nodes \cup {None}, p : SUBSET Nodes]

\* What RecoverProtectionAtStartup() leaves: nothing to recover, the policy of an
\* earlier run back in force, or an error.
RecoveredGuards ==
    {NewGuard(Backend)}
    \cup IF Backend THEN {Confirm(NewGuard(TRUE), NoTunnel)} ELSE {}
    \cup IF Backend /\ GuardFails THEN {Fail(NewGuard(TRUE))} ELSE {}

\* The reconnect AutoconnectOnStart() detaches; its generation was read first.
AutoconnectOnStart(node) ==
    [kind |-> "autoconnect", gen |-> 0, node |-> node, p |-> stored]

Init ==
    /\ scene \in Scenes
    /\ gen = 0 /\ state = Idle /\ stored = scene.nodes /\ refresh = {}
    /\ opts \in {AllOff, [AllOff EXCEPT !["kill_switch"] = TRUE]}
    /\ chain = None
    /\ loop = [g \in Gens |-> NoLoop]
    /\ watcher = [g \in Gens |-> NoWatcher]
    /\ health = [g \in Gens |-> NoHealth]
    /\ tunwatch = [g \in Gens |-> "none"]
    /\ off \in {{}} \cup {{AutoconnectOnStart(n)} : n \in Picks}
    /\ tx = NoTx
    /\ cmd = [c \in Clients |-> Ready]
    /\ proc = 0 /\ sel = None /\ live = NoLive /\ relaunches = 0
    /\ proxy = NoProxy /\ guard \in RecoveredGuards
    /\ shutdown = "no" /\ events = 0

\* The parts of the state most actions leave alone.
goroutines == <<loop, watcher, health, tunwatch>>
settings == <<stored, refresh, opts, chain>>
engine == <<proc, sel, live>>

-----------------------------------------------------------------------------
(* Command handlers.  A session runs one command at a time; the listener     *)
(* does not wait for the handler of a session it replaces.                   *)

\* A handler may begin: the session is idle, and sessions are still served.
Accepts(c, name) ==
    /\ c \in Sessions /\ name \in Commands /\ cmd[c] = Ready /\ shutdown = "no"
    /\ events < MaxEvents /\ events' = events + 1

Goto(c, pc) == cmd' = [cmd EXCEPT ![c].pc = pc]
Reply(c) == cmd' = [cmd EXCEPT ![c] = Ready]

\* handleConnect(), up to its first lock: the profile is read from the store
\* now and used until the end.  A missing or empty profile is refused.
HandleConnect(c, n) ==
    /\ Accepts(c, "connect") /\ stored # {}
    /\ cmd' = [cmd EXCEPT ![c] = [pc |-> IF n = None THEN "start" ELSE "switch",
                                 node |-> n, p |-> stored]]
    /\ UNCHANGED <<gen, state, settings, goroutines, off, tx, engine, relaunches,
                   proxy, guard, shutdown>>

\* handleConnect() with a node: try to move the running tunnel first.
HandleConnectSwitch(c) ==
    /\ cmd[c].pc = "switch" /\ connMuFree
    /\ IF liveSwitchTarget(cmd[c].node)
       THEN /\ tx' = [NoTx EXCEPT !.pc = "select", !.why = "switch", !.c = c,
                                  !.node = cmd[c].node, !.avoid = state.node]
            /\ Goto(c, "wait")
       ELSE Goto(c, "start") /\ UNCHANGED tx
    /\ UNCHANGED <<gen, state, settings, goroutines, off, engine, relaunches,
                   proxy, guard, shutdown, events>>

\* checkTunConflict() refuses: another program's tunnel is up.
HandleConnectRefused(c) ==
    /\ cmd[c].pc = "start"
    /\ Reply(c)
    /\ UNCHANGED <<gen, state, settings, goroutines, off, tx, engine, relaunches,
                   proxy, guard, shutdown, events>>

\* The user's connect renews the relaunch budget, then waits for connMu.
HandleConnectRenews(c) ==
    /\ cmd[c].pc = "start"
    /\ relaunches' = 0
    /\ Goto(c, "lock")
    /\ UNCHANGED <<gen, state, settings, goroutines, off, tx, engine, proxy, guard,
                   shutdown, events>>

HandleConnectStart(c) ==
    /\ cmd[c].pc = "lock" /\ connMuFree
    /\ tx' = [NoTx EXCEPT !.pc = "prepare", !.why = "connect", !.c = c,
                          !.p = cmd[c].p, !.node = cmd[c].node]
    /\ Goto(c, "wait")
    /\ UNCHANGED <<gen, state, settings, goroutines, off, engine, relaunches,
                   proxy, guard, shutdown, events>>

HandleDisconnect(c) ==
    /\ Accepts(c, "disconnect")
    /\ relaunches' = 0
    /\ Goto(c, "disconnect")
    /\ UNCHANGED <<gen, state, settings, goroutines, off, tx, engine, proxy, guard,
                   shutdown>>

HandleDisconnectTeardown(c) ==
    /\ cmd[c].pc = "disconnect" /\ connMuFree
    /\ tx' = [NoTx EXCEPT !.pc = "bump", !.why = "disconnect", !.c = c]
    /\ Goto(c, "wait")
    /\ UNCHANGED <<gen, state, settings, goroutines, off, engine, relaunches,
                   proxy, guard, shutdown, events>>

\* handleRemoveProfile(): the state is read before connMu is taken.
HandleRemoveProfile(c) ==
    /\ Accepts(c, "remove_profile")
    /\ Goto(c, IF state.prof /\ state.st # "idle" THEN "teardown" ELSE "remove")
    /\ UNCHANGED <<gen, state, settings, goroutines, off, tx, engine, relaunches,
                   proxy, guard, shutdown>>

HandleRemoveProfileTeardown(c) ==
    /\ cmd[c].pc = "teardown" /\ connMuFree
    /\ tx' = [NoTx EXCEPT !.pc = "bump", !.why = "remove", !.c = c]
    /\ Goto(c, "wait")
    /\ UNCHANGED <<gen, state, settings, goroutines, off, engine, relaunches,
                   proxy, guard, shutdown, events>>

StoreRemove(c) ==
    /\ cmd[c].pc = "remove"
    /\ stored' = {}
    /\ Reply(c)
    /\ UNCHANGED <<gen, state, refresh, opts, chain, goroutines, off, tx, engine,
                   relaunches, proxy, guard, shutdown, events>>

\* handleSetRouting, SetPresets, SetSplit, SetDNS, SetRules, SetTLSFragment,
\* SetTun and SetProxyMode: record the change, then re-apply it.
HandleSetOption(c, o) ==
    /\ Accepts(c, "set_option") /\ o # "kill_switch"
    /\ opts' = [opts EXCEPT ![o] = ~@]
    /\ Goto(c, "reapply")
    /\ UNCHANGED <<gen, state, stored, refresh, chain, goroutines, off, tx, engine,
                   relaunches, proxy, guard, shutdown>>

\* What handleSetKillSwitch() does to host protection.
killSwitchProtection(on) ==
    IF ~on THEN releaseProtection
    ELSE IF /\ Backend
            /\ on # opts["kill_switch"] \/ guard.status # "active"
            /\ \/ state.st \in {"connected", "connecting"}
               \/ guard.enforced \/ guard.status = "error"
    THEN Native(Confirm(guard, NoTunnel))
    ELSE [ok : {TRUE}, g : {guard}]

\* handleSetKillSwitch(): option and protection change under protectionOp; a
\* native failure is answered and the tunnel is left as it is.
HandleSetKillSwitch(c, on) ==
    /\ Accepts(c, "set_option") /\ protectionOpFree
    /\ opts' = [opts EXCEPT !["kill_switch"] = on]
    /\ \E r \in killSwitchProtection(on) :
          /\ guard' = r.g
          /\ IF r.ok /\ (on # opts["kill_switch"] \/ guard.status = "error")
             THEN Goto(c, "reapply") ELSE Reply(c)
    /\ UNCHANGED <<gen, state, stored, refresh, chain, goroutines, off, tx, engine,
                   relaunches, proxy, shutdown>>

\* handleSetMultihop(): both ends must be servers of the profile.
HandleSetMultihop(c, ch) ==
    /\ Accepts(c, "set_multihop") /\ ch # chain
    /\ validateMultihop(stored, ch)
    /\ chain' = ch
    /\ Goto(c, "reapply")
    /\ UNCHANGED <<gen, state, stored, refresh, opts, goroutines, off, tx, engine,
                   relaunches, proxy, guard, shutdown>>

\* reapplyLive(): restart a connected tunnel on its own node, or do nothing.
ReapplyLive(c) ==
    /\ cmd[c].pc = "reapply" /\ connMuFree
    /\ IF state.st = "connected" /\ state.prof /\ state.node # None /\ stored # {}
       THEN /\ tx' = [NoTx EXCEPT !.pc = "prepare", !.why = "reapply", !.c = c,
                                  !.p = stored, !.node = state.node]
            /\ Goto(c, "wait")
       ELSE Reply(c) /\ UNCHANGED tx
    /\ UNCHANGED <<gen, state, settings, goroutines, off, engine, relaunches,
                   proxy, guard, shutdown, events>>

-----------------------------------------------------------------------------
(* The holder of connMu: switchNode(), startConnect() and teardown().        *)

\* Unlock connMu.  A command that waited for it moves on to pc.
Unlock(pc) ==
    /\ tx' = NoTx
    /\ cmd' = IF tx.c = None THEN cmd
              ELSE IF pc = "ready" THEN [cmd EXCEPT ![tx.c] = Ready]
              ELSE [cmd EXCEPT ![tx.c].pc = pc]

\* What the caller of startConnect() reports when it returns an error.
OnError(now) ==
    CASE tx.why = "reapply"  -> Report("error", tx.node)
      [] tx.why = "relaunch" -> Report("error", tx.node)
      [] tx.why = "failover" -> Report("connected", tx.avoid)
      [] OTHER               -> now

\* switchNode() gave up: a command falls back to a reconnect, the health
\* watcher to a failover.
SwitchFailed ==
    /\ Unlock("start")
    /\ health' = IF tx.why = "autoswitch"
                 THEN [health EXCEPT ![tx.g].pc = "failover"] ELSE health

\* switchNode() that takes the answer of Select() for granted.
SwitchSelectUnchecked ==
    /\ tx.pc = "select"
    /\ sel' \in {tx.node, sel}
    /\ tx' = [tx EXCEPT !.pc = "confirm"]
    /\ UNCHANGED <<gen, state, settings, goroutines, off, cmd, proc, live,
                   relaunches, proxy, guard, shutdown, events>>

SwitchSelect ==
    /\ tx.pc = "select"
    /\ \/ /\ proc # 0
          /\ sel' = tx.node
          /\ tx' = [tx EXCEPT !.pc = "confirm"]
          /\ UNCHANGED <<cmd, health>>
       \/ SwitchFailed /\ UNCHANGED sel
    /\ UNCHANGED <<gen, state, settings, loop, watcher, tunwatch, off, proc, live,
                   relaunches, proxy, guard, shutdown, events>>

\* confirmSwitch(): traffic came back, or it did not and the old exit is put
\* back; the error of that second Select is dropped.
SwitchConfirm ==
    /\ tx.pc = "confirm"
    /\ \/ /\ proc # 0
          /\ tx' = [tx EXCEPT !.pc = "commit"]
          /\ UNCHANGED <<cmd, health, sel>>
       \/ /\ SwitchFailed
          /\ sel' \in {tx.avoid, sel}
    /\ UNCHANGED <<gen, state, settings, loop, watcher, tunwatch, off, proc, live,
                   relaunches, proxy, guard, shutdown, events>>

\* commitSwitch(): reports connected on the new node.
SwitchCommit ==
    /\ tx.pc = "commit"
    /\ state' = Report("connected", tx.node)
    /\ Unlock("ready")
    /\ health' = IF tx.why = "autoswitch"
                 THEN [health EXCEPT ![tx.g].pc = "watch"] ELSE health
    /\ UNCHANGED <<gen, settings, loop, watcher, tunwatch, off, engine, relaunches,
                   proxy, guard, shutdown, events>>

\* startConnect() before teardown: candidates, then host protection.  Any error
\* is the caller's, and the old tunnel is still up.
StartConnectPrepare ==
    /\ tx.pc = "prepare"
    /\ \/ /\ candidates(tx, chain) = {}
          /\ state' = OnError(state) /\ Unlock("ready") /\ UNCHANGED guard
       \/ /\ candidates(tx, chain) # {} /\ protectionOpFree
          /\ \E r \in prepareProtection :
                /\ guard' = r.g
                /\ IF r.ok
                   THEN /\ tx' = [tx EXCEPT !.pc = "bump", !.chain = chain,
                                            !.todo = candidates(tx, chain)]
                        /\ UNCHANGED <<state, cmd>>
                   ELSE state' = OnError(state) /\ Unlock("ready")
    /\ UNCHANGED <<gen, settings, goroutines, off, engine, relaunches, proxy,
                   shutdown, events>>

\* teardown(), under protectionOp: supersede whatever runs.  startConnect() has
\* just copied the options it will build with.
TeardownSupersede ==
    /\ tx.pc = "bump" /\ protectionOpFree /\ gen < MaxGen
    /\ gen' = gen + 1
    /\ live' = NoLive
    /\ tx' = [tx EXCEPT !.pc = "stop", !.opts = opts]
    /\ UNCHANGED <<state, settings, goroutines, off, cmd, proc, sel, relaunches,
                   proxy, guard, shutdown, events>>

TeardownStop ==
    /\ tx.pc = "stop"
    /\ proc' = 0
    /\ tx' = [tx EXCEPT !.pc = "drain"]
    /\ UNCHANGED <<gen, state, settings, goroutines, off, cmd, sel, live,
                   relaunches, proxy, guard, shutdown, events>>

Starts == {"connect", "reapply", "relaunch", "reconcile", "failover", "autoconnect"}

\* The fallbackLoop a transaction launches.
NewLoop(t) == [NoLoop EXCEPT !.pc = "next", !.todo = t.todo, !.p = t.p,
                             !.opts = t.opts, !.chain = t.chain]

\* teardown() after wg.Wait(): restore the system proxy, report, and return.
\* startConnect() goes on to launch the next fallback loop.
TeardownDrained ==
    /\ tx.pc = "drain" /\ wgZero
    /\ guard' = Interrupted(guard)
    /\ \E r \in disarmSystemProxy(proxy) :
          /\ proxy' = r.px
          /\ \/ /\ tx.why \in Starts /\ r.ok /\ gen < MaxGen
                /\ gen' = gen + 1
                /\ state' = Report("connecting", None)
                /\ loop' = [loop EXCEPT ![gen + 1] = NewLoop(tx)]
                /\ Unlock("ready")
                /\ UNCHANGED shutdown
             \/ /\ tx.why \in Starts /\ ~r.ok
                /\ state' = OnError(CleanupFailed)
                /\ Unlock("ready")
                /\ UNCHANGED <<gen, loop, shutdown>>
             \/ /\ tx.why \notin Starts
                /\ state' = IF r.ok THEN Idle ELSE CleanupFailed
                /\ IF tx.why = "disconnect"
                   THEN tx' = [tx EXCEPT !.pc = "release"] /\ UNCHANGED cmd
                   ELSE Unlock("remove")
                /\ shutdown' = IF tx.why = "close" THEN "restore" ELSE shutdown
                /\ UNCHANGED <<gen, loop>>
    /\ UNCHANGED <<settings, watcher, health, tunwatch, off, engine, relaunches,
                   events>>

\* handleDisconnect() lifts host protection after the tunnel is down.
DisconnectRelease ==
    /\ tx.pc = "release" /\ protectionOpFree
    /\ \E r \in releaseProtection : guard' = r.g
    /\ Unlock("ready")
    /\ UNCHANGED <<gen, state, settings, goroutines, off, engine, relaunches,
                   proxy, shutdown, events>>

-----------------------------------------------------------------------------
(* The fallback loop of a generation: runFallback(), attemptNode() and       *)
(* recordSuccess().                                                          *)

Exit(g) == loop' = [loop EXCEPT ![g] = NoLoop]
LoopTo(g, pc) == loop' = [loop EXCEPT ![g].pc = pc]

\* runFallback(): the next untried node (Fallback says which), or give up.
RunFallbackNext(g) ==
    /\ loop[g].pc = "next"
    /\ \/ ~isCurrent(g) /\ proc' = 0 /\ Exit(g)
       \/ /\ isCurrent(g) /\ loop[g].todo = {}
          /\ LoopTo(g, "fail") /\ UNCHANGED proc
       \/ /\ isCurrent(g)
          /\ \E n \in loop[g].todo :
                loop' = [loop EXCEPT ![g].pc = "check", ![g].node = n,
                                     ![g].strat = 1, ![g].todo = @ \ {n}]
          /\ UNCHANGED proc
    /\ UNCHANGED <<gen, state, settings, watcher, health, tunwatch, off, tx, cmd,
                   sel, live, relaunches, proxy, guard, shutdown, events>>

\* attemptNode(): the check at the head of each strategy.  The generation may
\* move on between this check and the start.
AttemptNodeCheck(g) ==
    /\ loop[g].pc = "check"
    /\ IF isCurrent(g) THEN LoopTo(g, "start") /\ UNCHANGED proc
       ELSE proc' = 0 /\ Exit(g)
    /\ UNCHANGED <<gen, state, settings, watcher, health, tunwatch, off, tx, cmd,
                   sel, live, relaunches, proxy, guard, shutdown, events>>

\* attemptNode(): build the config and start sing-box.  A start may fail for
\* this node, or for a local reason that ends the walk.
AttemptNodeStart(g) ==
    /\ loop[g].pc = "start"
    /\ \/ /\ proc = 0
          /\ proc' = g /\ sel' = loop[g].node /\ LoopTo(g, "probe")
       \/ /\ ~isCurrent(g)
          /\ proc' = 0 /\ Exit(g) /\ UNCHANGED sel
       \/ /\ isCurrent(g)
          /\ proc' = 0 /\ LoopTo(g, "fail") /\ UNCHANGED sel
       \/ /\ isCurrent(g)
          /\ LoopTo(g, "next") /\ UNCHANGED <<proc, sel>>
    /\ UNCHANGED <<gen, state, settings, watcher, health, tunwatch, off, tx, cmd,
                   live, relaunches, proxy, guard, shutdown, events>>

\* What attemptNode() does next on a node that looked censored: the next strategy.
SameStrategy(job) == [job EXCEPT !.pc = "check"]
NextStrategy(job) == [job EXCEPT !.pc = "check", !.strat = @ + 1]

\* attemptNode() stops the process before it goes on to the next node.
GiveUpNodeRunning(g) == LoopTo(g, "next") /\ UNCHANGED proc
GiveUpNode(g) == LoopTo(g, "next") /\ proc' = 0

\* probeUntilUp() and what attemptNode() makes of it: traffic came back; or the
\* process is stopped and the next strategy is tried (the handshake looked
\* censored), or the next node.
AttemptNodeProbe(g) ==
    /\ loop[g].pc = "probe"
    /\ \/ isCurrent(g) /\ proc = g /\ LoopTo(g, "up") /\ UNCHANGED proc
       \/ ~isCurrent(g) /\ proc' = 0 /\ Exit(g)
       \/ /\ isCurrent(g) /\ loop[g].strat < NStrategies
          /\ proc' = 0
          /\ loop' = [loop EXCEPT ![g] = NextStrategy(@)]
       \/ isCurrent(g) /\ GiveUpNode(g)
    /\ UNCHANGED <<gen, state, settings, watcher, health, tunwatch, off, tx, cmd,
                   sel, live, relaunches, proxy, guard, shutdown, events>>

\* The egress recordSuccess() arms for the options the loop was built with.
armEgress(built, px) ==
    IF built["system_proxy"] THEN armSystemProxy(px) ELSE [ok : {TRUE}, px : {px}]

\* recordSuccess(), under protectionOp: permit the tunnel, arm the proxy, report
\* connected and start the watchers.  A failure undoes the attempt.
RecordSuccess(g) ==
    /\ loop[g].pc = "up" /\ protectionOpFree
    /\ \/ ~isCurrent(g) /\ LoopTo(g, "undo")
          /\ UNCHANGED <<guard, proxy, live, state, watcher, health, tunwatch>>
       \/ /\ isCurrent(g)
          /\ \E a \in activateProtectionLocked(loop[g].opts) :
             \E e \in armEgress(loop[g].opts, proxy) :
               \/ /\ ~a.ok
                  /\ guard' = a.g /\ LoopTo(g, "undo")
                  /\ UNCHANGED <<proxy, live, state, watcher, health, tunwatch>>
               \/ /\ a.ok /\ ~e.ok
                  /\ guard' = a.g /\ proxy' = e.px /\ LoopTo(g, "undo")
                  /\ UNCHANGED <<live, state, watcher, health, tunwatch>>
               \/ /\ a.ok /\ e.ok
                  /\ guard' = Accepted(a.g) /\ proxy' = e.px
                  /\ live' = [gen |-> g, nodes |-> SelectorMembers(loop[g]),
                              built |-> loop[g].opts, chain |-> loop[g].chain]
                  /\ state' = Report("connected", loop[g].node)
                  /\ watcher' = [watcher EXCEPT ![g] = [pc |-> "watch", node |-> loop[g].node]]
                  /\ health' = IF HealthWatch
                               THEN [health EXCEPT ![g].pc = "watch",
                                                   ![g].start = loop[g].node]
                               ELSE health
                  /\ tunwatch' = IF TunWatch THEN [tunwatch EXCEPT ![g] = "init"]
                                 ELSE tunwatch
                  /\ LoopTo(g, "reconcile")
    /\ UNCHANGED <<gen, settings, off, tx, cmd, proc, sel, relaunches, shutdown,
                   events>>

\* Did an option that applies to a live tunnel change while the loop connected?
optionsChanged(job) ==
    \/ \E o \in Reconciled : job.opts[o] # opts[o]
    \/ job.chain # chain

\* reconcileConnectingOptions(), still under protectionOp: re-apply what changed
\* while the loop was connecting, off this goroutine.
ReconcileConnectingOptions(g) ==
    /\ loop[g].pc = "reconcile"
    /\ off' = IF optionsChanged(loop[g]) /\ stored # {}
              THEN off \cup {[kind |-> "reconcile", gen |-> g,
                              node |-> loop[g].node, p |-> stored]}
              ELSE off
    /\ Exit(g)
    /\ UNCHANGED <<gen, state, settings, watcher, health, tunwatch, tx, cmd,
                   engine, relaunches, proxy, guard, shutdown, events>>

\* attemptNode() after a recordSuccess() that failed.
AttemptNodeUndo(g) ==
    /\ loop[g].pc = "undo"
    /\ proc' = 0
    /\ guard' = Interrupted(guard)
    /\ IF isCurrent(g) THEN LoopTo(g, "fail") ELSE Exit(g)
    /\ UNCHANGED <<gen, state, settings, watcher, health, tunwatch, off, tx, cmd,
                   sel, live, relaunches, proxy, shutdown, events>>

\* The setState(Error) that ends a walk.  The generation was checked a moment
\* ago and is not checked again.
AttemptsFailed(g) ==
    /\ loop[g].pc = "fail"
    /\ state' = Report("error", None)
    /\ Exit(g)
    /\ UNCHANGED <<gen, settings, watcher, health, tunwatch, off, tx, cmd, engine,
                   relaunches, proxy, guard, shutdown, events>>

-----------------------------------------------------------------------------
(* The watchers of a connected generation.                                   *)

\* watchProcess(): leaves when its context is cancelled; a dead process that is
\* still its own is handled.
WatchProcessExit(g) ==
    /\ watcher[g].pc = "watch" /\ ~isCurrent(g)
    /\ watcher' = [watcher EXCEPT ![g] = NoWatcher]
    /\ UNCHANGED <<gen, state, settings, loop, health, tunwatch, off, tx, cmd,
                   engine, relaunches, proxy, guard, shutdown, events>>

WatchProcessDied(g) ==
    /\ watcher[g].pc = "watch" /\ isCurrent(g) /\ proc # g
    /\ watcher' = [watcher EXCEPT ![g].pc = "died"]
    /\ UNCHANGED <<gen, state, settings, loop, health, tunwatch, off, tx, cmd,
                   engine, relaunches, proxy, guard, shutdown, events>>

\* killSwitchRelaunch(): the relaunches spent, forgiven after a long uptime, and
\* whether another one is allowed.
Spent == {relaunches, 0}
mayRelaunch(spent) == spent < MaxRelaunches

\* watchProcess() goes on without another look at the generation: protection
\* turns amber, the proxy is restored, and with the kill switch on and budget
\* left the same node is relaunched off this goroutine.
WatchProcessHandle(g) ==
    /\ watcher[g].pc = "died"
    /\ watcher' = [watcher EXCEPT ![g] = NoWatcher]
    /\ guard' = Interrupted(guard)
    /\ \E r \in disarmSystemProxy(proxy) : proxy' = r.px
    /\ LET node == liveNode(watcher[g].node) IN
       \/ /\ opts["kill_switch"]
          /\ \E spent \in Spent :
                /\ relaunches' = IF mayRelaunch(spent) THEN spent + 1 ELSE spent
                /\ IF mayRelaunch(spent) /\ stored # {}
                   THEN /\ off' = off \cup {[kind |-> "relaunch", gen |-> g,
                                            node |-> node, p |-> stored]}
                        /\ UNCHANGED state
                   ELSE state' = Report("error", node) /\ UNCHANGED off
       \/ /\ ~opts["kill_switch"]
          /\ state' = Report("error", node)
          /\ UNCHANGED <<off, relaunches>>
    /\ UNCHANGED <<gen, settings, loop, health, tunwatch, tx, cmd, engine,
                   shutdown, events>>

HealthTo(g, pc) == health' = [health EXCEPT ![g].pc = pc]

HealthWatchExit(g) ==
    /\ health[g].pc = "watch" /\ ~isCurrent(g)
    /\ health' = [health EXCEPT ![g] = NoHealth]
    /\ UNCHANGED <<gen, state, settings, loop, watcher, tunwatch, off, tx, cmd,
                   engine, relaunches, proxy, guard, shutdown, events>>

\* The exits scanForExit() may come back with: servers still in the profile that
\* the running process can be pointed at, but the degraded one.  Which of them
\* answer, and which were degraded lately, is the network's choice.
scanForExit(g, degraded) ==
    IF live.gen = g THEN (live.nodes \cap stored) \ {degraded} ELSE {}

\* healthWatch(): the probes failed often enough.  autoSwitchAway() looks for an
\* exit the running process can be pointed at.
HealthWatchDegraded(g) ==
    /\ health[g].pc = "watch" /\ TRUE \in allowAutoRecovery(g)
    /\ events < MaxEvents /\ events' = events + 1
    /\ LET active == liveNode(health[g].start)
       IN \/ health' = [health EXCEPT ![g].pc = "failover", ![g].active = active]
          \/ \E t \in scanForExit(g, active) :
                health' = [health EXCEPT ![g].pc = "trylock", ![g].active = active,
                                         ![g].target = t]
    /\ UNCHANGED <<gen, state, settings, loop, watcher, tunwatch, off, tx, cmd,
                   engine, relaunches, proxy, guard, shutdown>>

\* autoSwitchAway() when TryLock() fails: never wait for connMu, because
\* teardown() holds it while it waits for this goroutine.
TryLockSpins(g) == HealthTo(g, "trylock")
TryLockFailed(g) == HealthTo(g, "failover")

\* autoSwitchAway(), from TryLock() on.
HealthWatchTryLock(g) ==
    /\ health[g].pc = "trylock"
    /\ \/ ~connMuFree /\ TryLockFailed(g) /\ UNCHANGED tx
       \/ /\ connMuFree
          /\ FALSE \in allowAutoRecovery(g) \/ state.node # health[g].active
          /\ HealthTo(g, "watch") /\ UNCHANGED tx
       \/ /\ connMuFree
          /\ TRUE \in allowAutoRecovery(g) /\ state.node = health[g].active
          /\ IF liveSwitchTarget(health[g].target)
             THEN /\ tx' = [NoTx EXCEPT !.pc = "select", !.why = "autoswitch", !.g = g,
                                        !.node = health[g].target, !.avoid = state.node]
                  /\ HealthTo(g, "switching")
             ELSE HealthTo(g, "failover") /\ UNCHANGED tx
    /\ UNCHANGED <<gen, state, settings, loop, watcher, tunwatch, off, cmd,
                   engine, relaunches, proxy, guard, shutdown, events>>

\* healthFailover(): a chain or a one-node profile has nowhere to go.
HealthFailover(g) ==
    /\ health[g].pc = "failover"
    /\ \E allowed \in allowAutoRecovery(g) :
          off' = IF allowed /\ chain = None /\ stored \ {health[g].active} # {}
                 THEN off \cup {[kind |-> "failover", gen |-> g,
                                 node |-> health[g].active, p |-> {}]}
                 ELSE off
    /\ HealthTo(g, "watch")
    /\ UNCHANGED <<gen, state, settings, loop, watcher, tunwatch, tx, cmd,
                   engine, relaunches, proxy, guard, shutdown, events>>

\* watchTunInterface(): reads the mode now in the settings, not the one the
\* connection was built with; gives up if the interface never appears.
WatchTunInit(g) ==
    /\ tunwatch[g] = "init"
    /\ \/ ~opts["system_proxy"] /\ tunwatch' = [tunwatch EXCEPT ![g] = "watch"]
       \/ tunwatch' = [tunwatch EXCEPT ![g] = "none"]
    /\ UNCHANGED <<gen, state, settings, loop, watcher, health, off, tx, cmd,
                   engine, relaunches, proxy, guard, shutdown, events>>

WatchTunExit(g) ==
    /\ tunwatch[g] = "watch" /\ ~isCurrent(g)
    /\ tunwatch' = [tunwatch EXCEPT ![g] = "none"]
    /\ UNCHANGED <<gen, state, settings, loop, watcher, health, off, tx, cmd,
                   engine, relaunches, proxy, guard, shutdown, events>>

WatchTunLost(g) ==
    /\ tunwatch[g] = "watch" /\ isCurrent(g)
    /\ events < MaxEvents /\ events' = events + 1
    /\ tunwatch' = [tunwatch EXCEPT ![g] = "lost"]
    /\ UNCHANGED <<gen, state, settings, loop, watcher, health, off, tx, cmd,
                   engine, relaunches, proxy, guard, shutdown>>

\* The interface is gone: stop the process, and let watchProcess() handle that.
\* (Stop() of every adapter returns nil, so the branch for its error is dead.)
WatchTunStop(g) ==
    /\ tunwatch[g] = "lost"
    /\ guard' = Interrupted(guard)
    /\ proc' = 0
    /\ tunwatch' = [tunwatch EXCEPT ![g] = "none"]
    /\ UNCHANGED <<gen, state, settings, loop, watcher, health, off, tx, cmd, sel,
                   live, relaunches, proxy, shutdown, events>>

-----------------------------------------------------------------------------
(* Detached reconnects, the environment, and shutdown.                       *)

\* The look startConnectIfCurrent() takes at the generation under connMu.
alwaysSuperseded(o) == isCurrent(o.gen + 1)
notSuperseded(o) == isCurrent(o.gen)

\* startConnectIfCurrent(): connMu, then the check.
StartConnectIfCurrent(o) ==
    /\ o \in off /\ o.kind # "failover" /\ connMuFree
    /\ off' = off \ {o}
    /\ tx' = IF notSuperseded(o)
             THEN [NoTx EXCEPT !.pc = "prepare", !.why = o.kind, !.p = o.p,
                               !.node = o.node]
             ELSE tx
    /\ UNCHANGED <<gen, state, settings, goroutines, cmd, engine, relaunches,
                   proxy, guard, shutdown, events>>

\* healthFailover()'s goroutine: everything is checked again under connMu.
FailoverStart(o) ==
    /\ o \in off /\ o.kind = "failover" /\ connMuFree
    /\ off' = off \ {o}
    /\ \E allowed \in allowAutoRecovery(o.gen) :
          IF allowed /\ state.node = o.node /\ stored # {}
          THEN /\ state' = Report("health_reconnecting", o.node)
               /\ tx' = [NoTx EXCEPT !.pc = "prepare", !.why = "failover",
                                     !.p = stored, !.avoid = o.node]
          ELSE UNCHANGED <<state, tx>>
    /\ UNCHANGED <<gen, settings, goroutines, cmd, engine, relaunches, proxy,
                   guard, shutdown, events>>

\* sing-box dies: by itself, or because the context it was started under was
\* cancelled.
ProcessDies ==
    /\ proc # 0
    /\ proc' = 0
    /\ IF isCurrent(proc) THEN events < MaxEvents /\ events' = events + 1
       ELSE UNCHANGED events
    /\ UNCHANGED <<gen, state, settings, goroutines, off, tx, cmd, sel, live,
                   relaunches, proxy, guard, shutdown>>

\* refreshProfile(), by command or by the timer: the subscription lists other
\* servers.  A list that would break the multihop chain is refused; then comes
\* lookupTier(), a call to the provider, before the list is stored.
RefreshProfile(servers) ==
    /\ "refresh" \in Commands /\ shutdown = "no" /\ refresh = {}
    /\ events < MaxEvents /\ events' = events + 1
    /\ stored # {} /\ servers # {} /\ servers # stored
    /\ (chain # None /\ {chain.entry, chain.exit} \cap stored # {}) =>
          validateMultihop(servers, chain)
    /\ refresh' = servers
    /\ UNCHANGED <<gen, state, stored, opts, chain, goroutines, off, tx, cmd, engine,
                   relaunches, proxy, guard, shutdown>>

\* Store.Update(): an error if the profile was removed meanwhile.
StoreUpdate ==
    /\ refresh # {}
    /\ stored' = IF stored = {} THEN {} ELSE refresh
    /\ refresh' = {}
    /\ UNCHANGED <<gen, state, opts, chain, goroutines, off, tx, cmd, engine,
                   relaunches, proxy, guard, shutdown, events>>

\* ReconcileSystemProxyWhenIdle(): at logon, retry a restore that is owed.
ReconcileSystemProxyWhenIdle ==
    /\ connMuFree /\ shutdown = "no" /\ proxy.armed
    /\ state.st \in {"idle", "error"}
    /\ \E r \in disarmSystemProxy(proxy) :
          /\ proxy' = r.px
          /\ state' = IF r.ok THEN state ELSE [state EXCEPT !.st = "error"]
    /\ UNCHANGED <<gen, settings, goroutines, off, tx, cmd, engine, relaunches,
                   guard, shutdown, events>>

\* Close(), after every session ended: teardown, a second restore, and wait for
\* the detached reconnects.
CloseBegin ==
    /\ shutdown = "no" /\ \A c \in Clients : cmd[c] = Ready
    /\ shutdown' = "teardown"
    /\ UNCHANGED <<gen, state, settings, goroutines, off, tx, cmd, engine,
                   relaunches, proxy, guard, events>>

CloseTeardown ==
    /\ shutdown = "teardown" /\ connMuFree
    /\ tx' = [NoTx EXCEPT !.pc = "bump", !.why = "close"]
    /\ shutdown' = "busy"
    /\ UNCHANGED <<gen, state, settings, goroutines, off, cmd, engine, relaunches,
                   proxy, guard, events>>

CloseRestore ==
    /\ shutdown = "restore"
    /\ \E r \in disarmSystemProxy(proxy) : proxy' = r.px
    /\ shutdown' = "join"
    /\ UNCHANGED <<gen, state, settings, goroutines, off, tx, cmd, engine,
                   relaunches, guard, events>>

CloseJoin ==
    /\ shutdown = "join" /\ off = {} /\ connMuFree
    /\ shutdown' = "closed"
    /\ UNCHANGED <<gen, state, settings, goroutines, off, tx, cmd, engine,
                   relaunches, proxy, guard, events>>

Closed == shutdown = "closed" /\ UNCHANGED vars

-----------------------------------------------------------------------------

Command(c) ==
    \/ \E n \in Picks : HandleConnect(c, n)
    \/ HandleDisconnect(c) \/ HandleRemoveProfile(c)
    \/ \E o \in Flips : HandleSetOption(c, o)
    \/ "kill_switch" \in Flips /\ \E on \in BOOLEAN : HandleSetKillSwitch(c, on)
    \/ \E ch \in Chains \cup {None} : HandleSetMultihop(c, ch)

Handler(c) ==
    \/ HandleConnectSwitch(c) \/ HandleConnectRefused(c) \/ HandleConnectRenews(c)
    \/ HandleConnectStart(c) \/ HandleDisconnectTeardown(c)
    \/ HandleRemoveProfileTeardown(c) \/ StoreRemove(c) \/ ReapplyLive(c)

Transaction ==
    \/ SwitchSelect \/ SwitchConfirm \/ SwitchCommit \/ StartConnectPrepare
    \/ TeardownSupersede \/ TeardownStop \/ TeardownDrained \/ DisconnectRelease

Loop(g) ==
    \/ RunFallbackNext(g) \/ AttemptNodeCheck(g) \/ AttemptNodeStart(g)
    \/ AttemptNodeProbe(g) \/ RecordSuccess(g) \/ ReconcileConnectingOptions(g)
    \/ AttemptNodeUndo(g) \/ AttemptsFailed(g)

WatchProcess(g) == WatchProcessExit(g) \/ WatchProcessDied(g) \/ WatchProcessHandle(g)

HealthWatcher(g) == HealthWatchExit(g) \/ HealthWatchTryLock(g) \/ HealthFailover(g)

TunWatcher(g) == WatchTunInit(g) \/ WatchTunExit(g) \/ WatchTunStop(g)

DetachedRun == \E o \in off : StartConnectIfCurrent(o) \/ FailoverStart(o)

Environment ==
    \/ ProcessDies \/ ReconcileSystemProxyWhenIdle
    \/ \E servers \in SUBSET scene.nodes : RefreshProfile(servers)
    \/ StoreUpdate
    \/ \E g \in Gens : HealthWatchDegraded(g) \/ WatchTunLost(g)

Close == CloseBegin \/ CloseTeardown \/ CloseRestore \/ CloseJoin

Next ==
    /\ UNCHANGED scene
    /\ \/ \E c \in Clients : Command(c) \/ Handler(c)
       \/ Transaction
       \/ \E g \in Gens : Loop(g) \/ WatchProcess(g) \/ HealthWatcher(g) \/ TunWatcher(g)
       \/ DetachedRun \/ Environment \/ Close \/ Closed

Spec == Init /\ [][Next]_<<vars, scene>>

-----------------------------------------------------------------------------
(* Fairness: goroutines and handlers that can move do move (the Go scheduler *)
(* runs every runnable goroutine, and every wait in the code has a timeout   *)
(* or is on another of these).  Nothing is assumed of users, of the network  *)
(* or of sing-box.                                                           *)

Fairness ==
    /\ \A c \in Clients : WF_vars(Handler(c))
    /\ WF_vars(Transaction)
    /\ \A g \in Gens : /\ WF_vars(Loop(g)) /\ WF_vars(WatchProcess(g))
                       /\ WF_vars(HealthWatcher(g)) /\ WF_vars(TunWatcher(g))
    /\ WF_vars(DetachedRun) /\ WF_vars(CloseTeardown \/ CloseRestore \/ CloseJoin)

FairSpec == Spec /\ Fairness

-----------------------------------------------------------------------------
(* Properties.                                                               *)

Outcomes == {"none", "next", "check", "start", "probe", "up", "reconcile", "undo", "fail"}

\* Type invariant.
TypeOK ==
    /\ scene \in Scenes
    /\ gen \in Gens /\ state \in States /\ stored \subseteq Nodes
    /\ refresh \subseteq Nodes
    /\ opts \in [Options -> BOOLEAN] /\ chain \in Chains \cup {None}
    /\ loop \in [Gens -> [pc : Outcomes, node : Nodes \cup {None},
                         todo : SUBSET Nodes, strat : 1..NStrategies,
                         p : SUBSET Nodes, opts : [Options -> BOOLEAN],
                         chain : Chains \cup {None}]]
    /\ watcher \in [Gens -> [pc : {"none", "watch", "died"}, node : Nodes \cup {None}]]
    /\ health \in [Gens -> [pc : {"none", "watch", "trylock", "switching", "failover"},
                           start : Nodes \cup {None}, active : Nodes \cup {None},
                           target : Nodes \cup {None}]]
    /\ tunwatch \in [Gens -> {"none", "init", "watch", "lost"}]
    /\ off \subseteq Detached
    /\ tx \in [pc : {"free", "select", "confirm", "commit", "prepare", "bump", "stop",
                    "drain", "release"},
              why : Starts \cup {"none", "switch", "autoswitch", "disconnect",
                                 "remove", "close"},
              c : Clients \cup {None}, g : Gens, p : SUBSET Nodes,
              node : Nodes \cup {None}, avoid : Nodes \cup {None},
              todo : SUBSET Nodes, opts : [Options -> BOOLEAN],
              chain : Chains \cup {None}]
    /\ cmd \in [Clients -> [pc : {"ready", "switch", "start", "lock", "wait",
                                 "disconnect", "teardown", "remove", "reapply"},
                           node : Nodes \cup {None}, p : SUBSET Nodes]]
    /\ proc \in Gens /\ sel \in Nodes \cup {None}
    /\ live \in [gen : Gens, nodes : SUBSET Nodes, built : [Options -> BOOLEAN],
                 chain : Chains \cup {None}]
    /\ relaunches \in 0..MaxRelaunches
    /\ proxy \in [armed : BOOLEAN, applied : BOOLEAN, os : BOOLEAN]
    /\ guard \in [status : Statuses, enforced : BOOLEAN,
                  tunnel : {NoTunnel, TunTunnel, ProxyTunnel}]
    /\ shutdown \in {"no", "teardown", "busy", "restore", "join", "closed"}
    /\ events \in 0..MaxEvents

\* Does generation g have a goroutine on Daemon.wg?
Running(g) == \/ loop[g].pc # "none" \/ watcher[g].pc # "none"
              \/ health[g].pc # "none" \/ tunwatch[g] # "none"

\* The fence: a goroutine or a process of a superseded generation exists only
\* while the teardown that superseded it is still waiting, and a process that
\* was started behind teardown's back has a loop left to stop it.  So no stale
\* goroutine ever meets the next connection (connect.go: teardown's Stop, Wait).
Fence ==
    /\ \A g \in Gens \ {gen} : Running(g) => tx.pc \in {"stop", "drain"}
    /\ proc \in {0, gen} \/ tx.pc = "stop" \/ (tx.pc = "drain" /\ loop[proc].pc # "none")

\* A session reported idle is down: no process, no goroutine, and the OS proxy
\* does not point at a port nobody serves (connect.go: teardown, Close).
IdleIsDown ==
    state.st = "idle" /\ connMuFree => proc = 0 /\ wgZero /\ ~proxy.os

\* May options be re-applied to a live tunnel?  Then startConnect may refuse
\* before its teardown, and reapplyLive reports an error over a live tunnel.
Reapplies == Commands \cap {"set_option", "set_multihop"} # {}

\* May a live switch or a failover report connected over an error?
LiveSwitches == HealthWatch \/ Picks \ {None} # {}

\* An error report means that no tunnel is running: the user who sees it and
\* the process agree (connect.go: reapplyLive, "Say the tunnel is down,
\* because it is").
ErrorMeansDown ==
    ~Reapplies /\ state.st = "error" /\ connMuFree => proc = 0

\* The OS proxy points at our port only while a process serves it; otherwise
\* somebody is on the way to restore it, or the failed restore is shown as an
\* error and stays owed (proxy.go: arm and disarm, every way down).
NoStrandedProxy ==
    proxy.os /\ proc = 0 /\ ~(ProxyFails /\ LiveSwitches) =>
        /\ proxy.armed
        /\ state.st = "error" \/ ~connMuFree \/ Running(gen)
           \/ \E o \in off : o.gen = gen

\* Protection shows green only over a tunnel: a process is watched, by a watcher
\* that takes the green away when it dies, and the session is connected (guard.go:
\* Accepted, Interrupted; connect.go: recordSuccess, watchProcess, teardown).
GreenMeansTunnel ==
    guard.status = "active" /\ connMuFree =>
        /\ watcher[gen].pc # "none"
        /\ state.st = "connected" \/ (Reapplies /\ state.st = "error")

\* A re-apply is due: a command waits for connMu, or holds it.
reapplyDue == tx.why = "reapply" \/ \E c \in Clients : cmd[c].pc = "reapply"

\* With the kill switch on and no error shown, a connected host is blocked but
\* for the tunnel, however the switch and the connect interleave, or the re-apply
\* that will block it is due (protection.go: prepareProtection,
\* activateProtectionLocked; daemon.go: handleSetKillSwitch).  Nothing is
\* re-applied to a profile that was removed.
KillSwitchEnforced ==
    Backend /\ opts["kill_switch"] /\ state.st = "connected" /\ guard.status # "error"
        => guard.enforced \/ reapplyDue \/ stored = {}

\* Everybody is done.
Quiet ==
    /\ connMuFree /\ off = {} /\ \A c \in Clients : cmd[c] = Ready
    /\ \A g \in Gens : loop[g].pc = "none" /\ health[g].pc \in {"none", "watch"}

\* Options that are to apply to a live tunnel do: when the dust settles, the
\* running config was built with the kill switch, the TLS and tun options and
\* the multihop chain the state advertises, even if they changed while it was
\* connecting (connect.go: reapplyLive, reconcileConnectingOptions).  A refresh
\* that takes the node away defers the change, and nothing is re-applied to a
\* profile that was removed, so this is for a profile that stays as it is.
LiveOptionsApplied ==
    /\ Quiet /\ state.st = "connected" /\ proc = gen /\ guard.status # "error"
    /\ stored # {} /\ "refresh" \notin Commands
    =>  /\ \A o \in {"kill_switch", "tls_fragment"} : live.built[o] = opts[o]
        /\ live.chain = chain

\* What is reported was earned.  A node is reported connected only when the
\* process is pointed at it: the report follows the proof (hotswitch.go:
\* switchNode, "The selector is pointed at the new exit, then traffic is confirmed
\* [...] and only then is the state told").  And a session that was ended stays
\* ended: only a holder of connMu leaves the idle state; no watcher, loop or
\* reconnect of the old session resurrects it (connect.go: startConnectIfCurrent).
\* The report that a refused failover puts back is not a new one.
ReportsAreEarned ==
    [][state' # state =>
          /\ state'.st = "connected" /\ tx.why # "failover" => sel' = state'.node
          /\ state.st = "idle" => /\ tx.pc = "drain"
                                  /\ tx.why \in {"connect", "autoconnect", "disconnect",
                                                  "remove", "close"}]_vars

\* After Close() nothing of the session is left: no process, no goroutine, no
\* reconnect that could still start one, no proxy unless its restore failed.
ClosedIsDown ==
    shutdown = "closed" =>
        proc = 0 /\ wgZero /\ off = {} /\ (proxy.os => ProxyFails /\ proxy.armed)

\* What the user is shown agrees with what runs.
StatusIsTrue == IdleIsDown /\ ErrorMeansDown /\ ClosedIsDown /\ GreenMeansTunnel

\* The kill switch holds: enforced under every connection that shows no error,
\* and lifted only when the user asks for it, by a disconnect or by turning the
\* switch off; no failed reconnect lifts it (protection.go; guard.go: Prepare,
\* Accepted, Release).
KillSwitchHolds ==
    [][/\ KillSwitchEnforced'
       /\ guard.enforced /\ ~guard'.enforced =>
              tx.why = "disconnect" \/ ~opts'["kill_switch"]]_vars

\* A connect always ends: connected, failed, or superseded by somebody.
ConnectSettles ==
    state.st \in {"connecting", "health_reconnecting"} ~>
        state.st \notin {"connecting", "health_reconnecting"}

\* The death of the process is reported or repaired (connect.go: watchProcess,
\* "A process exit while this is still the live generation becomes an error
\* state").  The commit of a live switch does not look again and can overwrite
\* the report, so this is for scenes without one.
DeathIsReported ==
    ~HealthWatch /\ state.st = "connected" /\ proc = 0 ~> state.st # "connected" \/ proc # 0

\* Close() returns, whatever is in flight when it is called.
CloseReturns == shutdown = "teardown" ~> shutdown = "closed"

-----------------------------------------------------------------------------
(* What a comment of the code says and the code does not keep: see the       *)
(* observations in README.md.                                                *)

\* A connection that gives up after teardown() has stopped the old process does
\* not report the old tunnel as connected (health.go: healthFailover,
\* "Validation errors leave the old engine up. Preserve that state").
GivingUpIsHonest ==
    [][tx.pc = "drain" /\ tx' = NoTx => state'.st # "connected"]_vars

\* A chain that was accepted stays connectable: no refresh takes one of its ends
\* away (daemon.go: refreshProfile, "Keep the last valid profile if this refresh
\* removes an enabled hop").
ChainStaysStored ==
    chain # None /\ stored # {} => validateMultihop(stored, chain)
=============================================================================
