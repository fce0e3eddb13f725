--------------------------- MODULE SessionProofs ---------------------------
(***************************************************************************)
(* The connection lifecycle, for every set of scenes: any number of        *)
(* clients, nodes, strategies, generations and events.                     *)
(***************************************************************************)
EXTENDS Session, TLAPS

\* The types of the state, less what depends on the scene.
NodeT == Nodes \cup {None}
ChainT == [entry : Nodes, exit : Nodes] \cup {None}
OptsT == [Options -> BOOLEAN]
LoopT == [pc : Outcomes, node : NodeT, todo : SUBSET Nodes, strat : Nat,
          p : SUBSET Nodes, opts : OptsT, chain : ChainT]
WatcherT == [pc : {"none", "watch", "died"}, node : NodeT]
HealthT == [pc : {"none", "watch", "trylock", "switching", "failover"},
            start : NodeT, active : NodeT, target : NodeT]
TxT == [pc : {"free", "select", "confirm", "commit", "prepare", "bump", "stop", "drain", "release"},
        why : Starts \cup {"none", "switch", "autoswitch", "disconnect", "remove", "close"},
        c : Clients \cup {None}, g : Gens, p : SUBSET Nodes, node : NodeT, avoid : NodeT,
        todo : SUBSET Nodes, opts : OptsT, chain : ChainT]
CmdT == [pc : {"ready", "switch", "start", "lock", "wait", "disconnect", "teardown", "remove", "reapply"},
         node : NodeT, p : SUBSET Nodes]
LiveT == [gen : Gens, nodes : SUBSET Nodes, built : OptsT, chain : ChainT]
ProxyT == [armed : BOOLEAN, applied : BOOLEAN, os : BOOLEAN]
GuardT == [status : Statuses, enforced : BOOLEAN, tunnel : {NoTunnel, TunTunnel, ProxyTunnel}]

Shape ==
  /\ scene \in Scenes
  /\ gen \in Gens /\ state \in States /\ stored \in SUBSET Nodes /\ refresh \in SUBSET Nodes
  /\ opts \in OptsT /\ chain \in ChainT
  /\ loop \in [Gens -> LoopT] /\ watcher \in [Gens -> WatcherT] /\ health \in [Gens -> HealthT]
  /\ tunwatch \in [Gens -> {"none", "init", "watch", "lost"}]
  /\ off \in SUBSET Detached /\ tx \in TxT /\ cmd \in [Clients -> CmdT]
  /\ proc \in Gens /\ sel \in NodeT /\ live \in LiveT
  /\ proxy \in ProxyT /\ guard \in GuardT
  /\ shutdown \in {"no", "teardown", "busy", "restore", "join", "closed"}

\* The records things start from.
LEMMA Blanks ==
  /\ NoLoop \in LoopT /\ NoLoop.pc = "none"
  /\ NoWatcher \in WatcherT /\ NoWatcher.pc = "none"
  /\ NoHealth \in HealthT /\ NoHealth.pc = "none"
  /\ NoLive \in LiveT /\ NoLive.gen = 0
  /\ NoTx \in TxT /\ NoTx.pc = "free" /\ NoTx.why = "none" /\ NoTx.c = None
  /\ Ready \in CmdT /\ Ready.pc = "ready"
  /\ Idle \in States /\ Idle.st = "idle"
  /\ NoProxy \in ProxyT /\ NoProxy.os = FALSE
  /\ AllOff \in OptsT
<1>1. AllOff \in OptsT
  BY DEF AllOff, OptsT
<1>2. 0 \in Gens
  BY BoundsAssumption DEF Gens
<1> HIDE DEF AllOff
<1>3. NoLoop \in LoopT /\ NoLoop.pc = "none"
  BY <1>1 DEF NoLoop, LoopT, NodeT, ChainT, Outcomes
<1>4. NoWatcher \in WatcherT /\ NoWatcher.pc = "none"
  BY DEF NoWatcher, WatcherT, NodeT
<1>5. NoHealth \in HealthT /\ NoHealth.pc = "none"
  BY DEF NoHealth, HealthT, NodeT
<1>6. NoLive \in LiveT /\ NoLive.gen = 0
  BY <1>1, <1>2 DEF NoLive, LiveT, ChainT
<1>7. NoTx \in TxT /\ NoTx.pc = "free" /\ NoTx.why = "none" /\ NoTx.c = None
  BY <1>1, <1>2 DEF NoTx, TxT, ChainT, NodeT
<1>8. Ready \in CmdT /\ Ready.pc = "ready"
  BY DEF Ready, CmdT, NodeT
<1>9. Idle \in States /\ Idle.st = "idle"
  BY DEF Idle, States, ConnStates
<1>10. NoProxy \in ProxyT /\ NoProxy.os = FALSE
  BY DEF NoProxy, ProxyT
<1> QED BY <1>1, <1>3, <1>4, <1>5, <1>6, <1>7, <1>8, <1>9, <1>10

\* What the guard's and the proxy's calls leave has their type.
LEMMA CallsTyped ==
  ASSUME guard \in GuardT
  PROVE  /\ \A t \in {NoTunnel, TunTunnel, ProxyTunnel} : Confirm(guard, t) \in GuardT
         /\ ConfirmOff(guard) \in GuardT /\ Fail(guard) \in GuardT /\ Interrupted(guard) \in GuardT
         /\ \A g \in GuardT : Accepted(g) \in GuardT
         /\ \A g \in GuardT : Interrupted(g) \in GuardT
BY DEF GuardT, Confirm, ConfirmOff, Fail, Interrupted, Accepted, Statuses

\* A restore leaves nothing armed, or fails and stays owed; the proxy of the OS is
\* never ours without a restore owed (disarmSystemProxy, armSystemProxy).
LEMMA ProxyCalls ==
  ASSUME NEW px \in ProxyT, px.os => px.armed
  PROVE  /\ \A r \in disarmSystemProxy(px) :
              /\ r.px \in ProxyT /\ r.ok \in BOOLEAN /\ (r.px.os => r.px.armed)
              /\ r.ok => ~r.px.os
              /\ ~r.ok => ProxyFails
              /\ r.px.os => px.os
         /\ \A r \in armSystemProxy(px) :
              r.px \in ProxyT /\ r.ok \in BOOLEAN /\ (r.px.os => r.px.armed)
<1>1. \A q \in ProxyT : (q.os => q.armed) => \A r \in disarmSystemProxy(q) :
         /\ r.px \in ProxyT /\ r.ok \in BOOLEAN /\ (r.px.os => r.px.armed)
         /\ r.ok => ~r.px.os
         /\ ~r.ok => ProxyFails
         /\ r.px.os => q.os
  <2> TAKE q \in ProxyT
  <2> HAVE q.os => q.armed
  <2> TAKE r \in disarmSystemProxy(q)
  <2> DEFINE cleared == [q EXCEPT !.applied = FALSE]
  <2>1. cleared \in ProxyT /\ cleared.os = q.os /\ cleared.armed = q.armed
    BY DEF ProxyT
  <2> HIDE DEF cleared
  <2>2. \/ ~q.armed /\ r.ok = TRUE /\ r.px = cleared
        \/ q.armed /\ r.ok = TRUE /\ r.px = NoProxy
        \/ q.armed /\ ProxyFails /\ r.ok = FALSE /\ r.px = cleared
    <3>1. CASE ~q.armed
      BY <3>1 DEF disarmSystemProxy, cleared
    <3>2. CASE q.armed
      BY <3>2 DEF disarmSystemProxy, cleared
    <3> QED BY <3>1, <3>2
  <2> QED BY <2>1, <2>2, Blanks
<1>2. \A r \in armSystemProxy(px) :
         r.px \in ProxyT /\ r.ok \in BOOLEAN /\ (r.px.os => r.px.armed)
  <2> DEFINE enabled == [armed |-> TRUE, applied |-> TRUE, os |-> TRUE]
             cleared == [enabled EXCEPT !.applied = FALSE]
  <2>1. enabled \in ProxyT /\ enabled.armed /\ cleared \in ProxyT /\ cleared.armed
    BY DEF ProxyT
  <2> HIDE DEF enabled, cleared
  <2>2. \A r \in armSystemProxy(px) :
           \/ r.px = px /\ r.ok = TRUE
           \/ r \in disarmSystemProxy(px)
           \/ r.px = enabled /\ r.ok = TRUE
           \/ r.ok = FALSE /\ \E q \in disarmSystemProxy(cleared) : r.px = q.px
    BY DEF armSystemProxy, enabled, cleared
  <2> QED BY <1>1, <2>1, <2>2
<1> QED BY <1>1, <1>2

\* Every native call of the guard leaves a guard.
LEMMA GuardCalls ==
  ASSUME guard \in GuardT
  PROVE  /\ \A r \in prepareProtection : r.g \in GuardT
         /\ \A built : \A r \in activateProtectionLocked(built) : r.g \in GuardT
         /\ \A r \in releaseProtection : r.g \in GuardT
         /\ \A on : \A r \in killSwitchProtection(on) : r.g \in GuardT
<1>1. \A good \in GuardT : \A r \in Native(good) : r.g \in GuardT
  BY CallsTyped DEF Native
<1> USE CallsTyped, <1>1
<1>2. \A r \in prepareProtection : r.g \in GuardT
  BY DEF prepareProtection
<1>3. \A built : \A r \in activateProtectionLocked(built) : r.g \in GuardT
  BY DEF activateProtectionLocked
<1>4. \A r \in releaseProtection : r.g \in GuardT
  BY DEF releaseProtection
<1>5. \A on : \A r \in killSwitchProtection(on) : r.g \in GuardT
  BY <1>4 DEF killSwitchProtection
<1> QED BY <1>2, <1>3, <1>4, <1>5

\* Whoever points the OS at our proxy owes the restore.
ProxyOwed == proxy.os => proxy.armed

-----------------------------------------------------------------------------
(* Every step keeps the types, handler by handler.                         *)

\* Every command, from its acceptance to its lock, keeps the types.
LEMMA CommandsTyped ==
  ASSUME Shape, scene' = scene, NEW c \in Clients, Command(c) \/ Handler(c)
  PROVE  Shape'
<1> USE DEF Shape
<1>0. /\ \A n \in Picks : n \in NodeT
      /\ \A ch \in Chains \cup {None} : ch \in ChainT
  BY ScenesAssumption DEF Picks, Chains, NodeT, ChainT
<1>1. ASSUME NEW n \in Picks, HandleConnect(c, n) PROVE Shape'
  BY <1>0, <1>1, Blanks DEF HandleConnect, Accepts, CmdT, settings, goroutines, engine
<1>2. CASE HandleDisconnect(c)
  BY <1>2 DEF HandleDisconnect, Goto, CmdT, settings, goroutines, engine
<1>3. CASE HandleRemoveProfile(c)
  BY <1>3 DEF HandleRemoveProfile, Goto, CmdT, settings, goroutines, engine
<1>4. ASSUME NEW o \in Flips, HandleSetOption(c, o) PROVE Shape'
  BY <1>4 DEF HandleSetOption, Goto, CmdT, OptsT, settings, goroutines, engine
<1>5. ASSUME NEW on \in BOOLEAN, HandleSetKillSwitch(c, on) PROVE Shape'
  <2>1. opts' \in OptsT
    BY <1>5 DEF HandleSetKillSwitch, OptsT
  <2>2. guard' \in GuardT
    BY <1>5, GuardCalls DEF HandleSetKillSwitch
  <2>3. cmd' \in [Clients -> CmdT]
    BY <1>5, Blanks DEF HandleSetKillSwitch, Goto, Reply, CmdT
  <2> QED BY <1>5, <2>1, <2>2, <2>3 DEF HandleSetKillSwitch, goroutines, engine
<1>6. ASSUME NEW ch \in Chains \cup {None}, HandleSetMultihop(c, ch) PROVE Shape'
  BY <1>0, <1>6 DEF HandleSetMultihop, Goto, CmdT, goroutines, engine
<1>7. CASE HandleConnectSwitch(c)
  <2>1. cmd' \in [Clients -> CmdT]
    BY <1>7 DEF HandleConnectSwitch, Goto, CmdT
  <2>2. cmd[c].node \in NodeT /\ state.node \in NodeT
    BY DEF CmdT, States, NodeT
  <2>3. tx' \in TxT
    <3>1. CASE liveSwitchTarget(cmd[c].node)
      <4>1. tx' = [NoTx EXCEPT !.pc = "select", !.why = "switch", !.c = c, !.node = cmd[c].node,
                               !.avoid = state.node]
        BY <1>7, <3>1 DEF HandleConnectSwitch
      <4> QED BY <2>2, <4>1, Blanks DEF TxT
    <3>2. CASE ~liveSwitchTarget(cmd[c].node)
      BY <1>7, <3>2 DEF HandleConnectSwitch
    <3> QED BY <3>1, <3>2
  <2> QED BY <1>7, <2>1, <2>3 DEF HandleConnectSwitch, settings, goroutines, engine
<1>8. CASE HandleConnectRefused(c)
  BY <1>8, Blanks DEF HandleConnectRefused, Reply, settings, goroutines, engine
<1>9. CASE HandleConnectRenews(c)
  BY <1>9 DEF HandleConnectRenews, Goto, CmdT, settings, goroutines, engine
<1>10. CASE HandleConnectStart(c)
  BY <1>10, Blanks, ZenonT(30) DEF HandleConnectStart, Goto, CmdT, TxT, Starts, settings, goroutines, engine
<1>11. CASE HandleDisconnectTeardown(c)
  BY <1>11, Blanks, ZenonT(30) DEF HandleDisconnectTeardown, Goto, CmdT, TxT, settings, goroutines, engine
<1>12. CASE HandleRemoveProfileTeardown(c)
  BY <1>12, Blanks, ZenonT(30) DEF HandleRemoveProfileTeardown, Goto, CmdT, TxT, settings, goroutines, engine
<1>13. CASE StoreRemove(c)
  BY <1>13, Blanks DEF StoreRemove, Reply, goroutines, engine
<1>14. CASE ReapplyLive(c)
  <2>1. cmd' \in [Clients -> CmdT]
    BY <1>14, Blanks DEF ReapplyLive, Goto, Reply, CmdT
  <2>2. state.node \in NodeT
    BY DEF States, NodeT
  <2>3. tx' \in TxT
    <3> DEFINE started == [NoTx EXCEPT !.pc = "prepare", !.why = "reapply", !.c = c, !.p = stored,
                                       !.node = state.node]
    <3>1. tx' = started \/ tx' = tx
      BY <1>14 DEF ReapplyLive
    <3>2. started \in TxT
      BY <2>2, Blanks DEF TxT, Starts
    <3> QED BY <3>1, <3>2
  <2> QED BY <1>14, <2>1, <2>3 DEF ReapplyLive, settings, goroutines, engine
<1> QED BY <1>1, <1>2, <1>3, <1>4, <1>5, <1>6, <1>7, <1>8, <1>9, <1>10, <1>11, <1>12, <1>13, <1>14
        DEF Command, Handler

\* The holder of connMu.
LEMMA TransactionTyped ==
  ASSUME Shape, scene' = scene, Transaction, ProxyOwed
  PROVE  Shape'
<1> USE DEF Shape
<1>0. /\ Idle \in States /\ CleanupFailed \in States /\ tx.node \in NodeT /\ tx.avoid \in NodeT
      /\ \A st \in ConnStates, n \in NodeT : Report(st, n) \in States
      /\ \A now \in States : OnError(now) \in States
  <2>1. tx.node \in NodeT /\ tx.avoid \in NodeT
    BY DEF TxT
  <2>2. \A st \in ConnStates, n \in NodeT : Report(st, n) \in States
    BY DEF Report, States, NodeT
  <2>3. CleanupFailed \in States
    BY DEF CleanupFailed, States, ConnStates
  <2>4. \A now \in States : OnError(now) \in States
    <3> TAKE now \in States
    <3>1. OnError(now) \in {now, Report("error", tx.node), Report("connected", tx.avoid)}
      BY DEF OnError
    <3> QED BY <2>1, <2>2, <3>1 DEF ConnStates
  <2> QED BY <2>1, <2>2, <2>3, <2>4, Blanks
<1>1. ASSUME NEW pc \in {"ready", "start", "remove"}, Unlock(pc)
      PROVE  tx' \in TxT /\ cmd' \in [Clients -> CmdT]
  BY <1>1, Blanks DEF Unlock, CmdT, TxT
<1>2. SwitchFailed => health' \in [Gens -> HealthT] /\ tx' \in TxT /\ cmd' \in [Clients -> CmdT]
  <2> SUFFICES ASSUME SwitchFailed PROVE health' \in [Gens -> HealthT] /\ tx' \in TxT /\ cmd' \in [Clients -> CmdT]
    OBVIOUS
  <2>1. Unlock("start")
    BY DEF SwitchFailed
  <2>2. health' \in [Gens -> HealthT]
    BY ZenonT(30) DEF SwitchFailed, HealthT
  <2> QED BY <1>1, <2>1, <2>2
<1>3. CASE SwitchSelect
  <2>1. sel' \in NodeT /\ tx' \in TxT /\ cmd' \in [Clients -> CmdT] /\ health' \in [Gens -> HealthT]
    BY <1>0, <1>2, <1>3 DEF SwitchSelect, TxT
  <2> QED BY <1>3, <2>1 DEF SwitchSelect, settings
<1>4. CASE SwitchConfirm
  <2>1. sel' \in NodeT /\ tx' \in TxT /\ cmd' \in [Clients -> CmdT] /\ health' \in [Gens -> HealthT]
    BY <1>0, <1>2, <1>4 DEF SwitchConfirm, TxT
  <2> QED BY <1>4, <2>1 DEF SwitchConfirm, settings
<1>5. CASE SwitchCommit
  <2>1. state' \in States /\ tx' \in TxT /\ cmd' \in [Clients -> CmdT] /\ health' \in [Gens -> HealthT]
    BY <1>0, <1>1, <1>5 DEF SwitchCommit, ConnStates, HealthT
  <2> QED BY <1>5, <2>1 DEF SwitchCommit, settings, engine
<1>6. CASE StartConnectPrepare
  <2>1. guard' \in GuardT
    BY <1>6, GuardCalls DEF StartConnectPrepare
  <2>2. candidates(tx, chain) \in SUBSET Nodes
    BY DEF candidates, TxT
  <2>3. \/ Unlock("ready") /\ state' = OnError(state)
        \/ /\ tx' = [tx EXCEPT !.pc = "bump", !.chain = chain, !.todo = candidates(tx, chain)]
           /\ UNCHANGED <<state, cmd>>
    BY <1>6 DEF StartConnectPrepare
  <2>4. tx' \in TxT /\ cmd' \in [Clients -> CmdT]
    BY <1>1, <2>2, <2>3 DEF TxT
  <2>5. state' \in States
    BY <1>0, <2>3
  <2> QED BY <1>6, <2>1, <2>4, <2>5 DEF StartConnectPrepare, settings, goroutines, engine
<1>7. CASE TeardownSupersede
  <2>1. gen' \in Gens
    BY <1>7, BoundsAssumption DEF TeardownSupersede, Gens
  <2> QED BY <1>7, <2>1, Blanks DEF TeardownSupersede, TxT, settings, goroutines
<1>8. CASE TeardownStop
  <2>1. proc' \in Gens
    BY <1>8, BoundsAssumption DEF TeardownStop, Gens
  <2> QED BY <1>8, <2>1 DEF TeardownStop, TxT, settings, goroutines
<1>9. CASE TeardownDrained
  <2>1. guard' \in GuardT
    BY <1>9, CallsTyped DEF TeardownDrained
  <2>2. proxy' \in ProxyT
    BY <1>9, ProxyCalls DEF TeardownDrained, ProxyOwed
  <2>3. gen' \in Gens /\ (gen' = gen \/ gen < MaxGen)
    BY <1>9, BoundsAssumption DEF TeardownDrained, Gens
  <2>4. state' \in States
    BY <1>0, <1>9 DEF TeardownDrained, ConnStates, NodeT
  <2>5. NewLoop(tx) \in LoopT
    BY Blanks DEF NewLoop, LoopT, TxT, Outcomes
  <2>6. loop' \in [Gens -> LoopT]
    BY <1>9, <2>5 DEF TeardownDrained
  <2>7. tx' \in TxT /\ cmd' \in [Clients -> CmdT]
    BY <1>1, <1>9 DEF TeardownDrained, TxT
  <2>8. shutdown' \in {"no", "teardown", "busy", "restore", "join", "closed"}
    BY <1>9 DEF TeardownDrained
  <2> QED BY <1>9, <2>1, <2>2, <2>3, <2>4, <2>6, <2>7, <2>8 DEF TeardownDrained, settings, engine
<1>10. CASE DisconnectRelease
  <2>1. guard' \in GuardT
    BY <1>10, GuardCalls DEF DisconnectRelease
  <2> QED BY <1>1, <1>10, <2>1 DEF DisconnectRelease, settings, goroutines, engine
<1> QED BY <1>3, <1>4, <1>5, <1>6, <1>7, <1>8, <1>9, <1>10 DEF Transaction

\* The fallback loop of a generation.
LEMMA LoopTyped ==
  ASSUME Shape, scene' = scene, NEW g \in Gens, Loop(g), ProxyOwed
  PROVE  Shape'
<1> USE DEF Shape
<1> DEFINE job == loop[g]
<1>0. job \in LoopT
  OBVIOUS
<1>1. 0 \in Gens
  BY BoundsAssumption DEF Gens
<1>2. ASSUME NEW pc \in Outcomes PROVE [job EXCEPT !.pc = pc] \in LoopT
  BY <1>0 DEF LoopT
<1>3. ASSUME NEW pc \in Outcomes, LoopTo(g, pc) PROVE loop' \in [Gens -> LoopT]
  BY <1>2, <1>3 DEF LoopTo
<1>4. Exit(g) => loop' \in [Gens -> LoopT]
  BY Blanks DEF Exit
<1>5. CASE RunFallbackNext(g)
  <2>1. ASSUME NEW n \in job.todo,
               loop' = [loop EXCEPT ![g].pc = "check", ![g].node = n, ![g].strat = 1,
                                    ![g].todo = @ \ {n}]
        PROVE  loop' \in [Gens -> LoopT]
    BY <2>1, <1>0 DEF LoopT, NodeT, Outcomes
  <2>2. loop' \in [Gens -> LoopT]
    <3>1. Exit(g) \/ LoopTo(g, "fail") \/ \E n \in job.todo :
             loop' = [loop EXCEPT ![g].pc = "check", ![g].node = n, ![g].strat = 1,
                                  ![g].todo = @ \ {n}]
      BY <1>5 DEF RunFallbackNext
    <3> QED BY <1>3, <1>4, <2>1, <3>1 DEF Outcomes
  <2>3. proc' \in Gens
    BY <1>1, <1>5 DEF RunFallbackNext
  <2> QED BY <1>5, <2>2, <2>3 DEF RunFallbackNext, settings
<1>6. CASE AttemptNodeCheck(g)
  BY <1>1, <1>3, <1>4, <1>6 DEF AttemptNodeCheck, settings, Outcomes
<1>7. CASE AttemptNodeStart(g)
  <2>1. job.node \in NodeT
    BY <1>0 DEF LoopT
  <2>2. loop' \in [Gens -> LoopT]
    BY <1>3, <1>4, <1>7 DEF AttemptNodeStart, Outcomes
  <2>3. proc' \in Gens /\ sel' \in NodeT
    BY <1>1, <1>7, <2>1 DEF AttemptNodeStart
  <2> QED BY <1>7, <2>2, <2>3 DEF AttemptNodeStart, settings
<1>8. CASE AttemptNodeProbe(g)
  <2>1. NextStrategy(job) \in LoopT
    <3> DEFINE next == job.strat + 1
    <3>1. next \in Nat
      BY <1>0 DEF LoopT
    <3>2. NextStrategy(job) = [job EXCEPT !.pc = "check", !.strat = next]
      BY DEF NextStrategy
    <3> HIDE DEF next
    <3> QED BY <1>0, <3>1, <3>2 DEF LoopT, Outcomes
  <2>2. loop' \in [Gens -> LoopT]
    BY <1>3, <1>4, <1>8, <2>1 DEF AttemptNodeProbe, GiveUpNode, Outcomes
  <2>3. proc' \in Gens
    BY <1>1, <1>8 DEF AttemptNodeProbe, GiveUpNode
  <2> QED BY <1>8, <2>2, <2>3 DEF AttemptNodeProbe, settings
<1>9. CASE RecordSuccess(g)
  <2>1. loop' \in [Gens -> LoopT]
    BY <1>3, <1>9 DEF RecordSuccess, Outcomes
  <2>2. guard' \in GuardT
    BY <1>9, GuardCalls, CallsTyped DEF RecordSuccess
  <2>3. proxy' \in ProxyT
    <3>1. \A built : \A e \in armEgress(built, proxy) : e.px \in ProxyT
      BY ProxyCalls DEF armEgress, ProxyOwed
    <3>2. proxy' = proxy \/ \E e \in armEgress(job.opts, proxy) : proxy' = e.px
      BY <1>9 DEF RecordSuccess
    <3> QED BY <3>1, <3>2
  <2>4. SelectorMembers(job) \in SUBSET Nodes
    <3>1. job.p \in SUBSET Nodes /\ job.chain \in ChainT
      BY <1>0 DEF LoopT
    <3>2. job.chain # None => job.chain.exit \in Nodes
      BY <3>1 DEF ChainT
    <3> QED BY <3>1, <3>2 DEF SelectorMembers
  <2>5. live' \in LiveT
    BY <1>0, <1>9, <2>4 DEF RecordSuccess, LiveT, LoopT
  <2>6. job.node \in NodeT
    BY <1>0 DEF LoopT
  <2>7. state' \in States
    <3>1. Report("connected", job.node) \in States
      BY <2>6 DEF Report, States, ConnStates, NodeT
    <3>2. state' = state \/ state' = Report("connected", job.node)
      BY <1>9 DEF RecordSuccess
    <3> QED BY <3>1, <3>2
  <2>8. watcher' \in [Gens -> WatcherT]
    BY <1>9, <2>6 DEF RecordSuccess, WatcherT
  <2>9. health' \in [Gens -> HealthT]
    BY <1>9, <2>6 DEF RecordSuccess, HealthT
  <2>10. tunwatch' \in [Gens -> {"none", "init", "watch", "lost"}]
    BY <1>9 DEF RecordSuccess
  <2> QED BY <1>9, <2>1, <2>2, <2>3, <2>5, <2>7, <2>8, <2>9, <2>10 DEF RecordSuccess, settings
<1>10. CASE ReconcileConnectingOptions(g)
  <2>1. [kind |-> "reconcile", gen |-> g, node |-> job.node, p |-> stored] \in Detached
    BY <1>0 DEF Detached, LoopT, NodeT
  <2> QED BY <1>4, <1>10, <2>1 DEF ReconcileConnectingOptions, settings, engine
<1>11. CASE AttemptNodeUndo(g)
  BY <1>1, <1>3, <1>4, <1>11, CallsTyped DEF AttemptNodeUndo, settings, Outcomes
<1>12. CASE AttemptsFailed(g)
  BY <1>4, <1>12 DEF AttemptsFailed, Report, States, ConnStates, settings, engine
<1> QED BY <1>5, <1>6, <1>7, <1>8, <1>9, <1>10, <1>11, <1>12 DEF Loop

\* The watchers of a generation.
LEMMA WatchersTyped ==
  ASSUME Shape, scene' = scene, NEW g \in Gens, ProxyOwed,
         WatchProcess(g) \/ HealthWatcher(g) \/ TunWatcher(g) \/ HealthWatchDegraded(g) \/ WatchTunLost(g)
  PROVE  Shape'
<1> USE DEF Shape
<1>0. 0 \in Gens
  BY BoundsAssumption DEF Gens
<1>1. \A n \in NodeT : liveNode(n) \in NodeT
  BY DEF liveNode, States, NodeT
<1>2. watcher[g].node \in NodeT /\ health[g].start \in NodeT /\ health[g].active \in NodeT
      /\ health[g].target \in NodeT /\ state.node \in NodeT
  BY DEF WatcherT, HealthT, States, NodeT
<1>3. \A pc \in {"none", "watch", "trylock", "switching", "failover"} :
         HealthTo(g, pc) => health' \in [Gens -> HealthT]
  BY DEF HealthTo, HealthT
<1>4. CASE WatchProcessExit(g)
  BY <1>4, Blanks DEF WatchProcessExit, settings, engine
<1>5. CASE WatchProcessDied(g)
  BY <1>5 DEF WatchProcessDied, WatcherT, settings, engine
<1>6. CASE WatchProcessHandle(g)
  <2> DEFINE node == liveNode(watcher[g].node)
  <2>1. node \in NodeT
    BY <1>1, <1>2
  <2>2. [kind |-> "relaunch", gen |-> g, node |-> node, p |-> stored] \in Detached
    BY <2>1 DEF Detached, NodeT
  <2>3. Report("error", node) \in States
    BY <2>1 DEF Report, States, ConnStates, NodeT
  <2> HIDE DEF node
  <2>4. /\ off' = off \/ off' = off \cup {[kind |-> "relaunch", gen |-> g, node |-> node, p |-> stored]}
        /\ state' = state \/ state' = Report("error", node)
    BY <1>6 DEF WatchProcessHandle, node
  <2>5. off' \in SUBSET Detached /\ state' \in States
    BY <2>2, <2>3, <2>4
  <2>6. proxy' \in ProxyT
    BY <1>6, ProxyCalls DEF WatchProcessHandle, ProxyOwed
  <2>7. guard' \in GuardT
    BY <1>6, CallsTyped DEF WatchProcessHandle
  <2>8. watcher' \in [Gens -> WatcherT]
    BY <1>6, Blanks DEF WatchProcessHandle
  <2> QED BY <1>6, <2>5, <2>6, <2>7, <2>8 DEF WatchProcessHandle, settings, engine
<1>7. CASE HealthWatchExit(g)
  BY <1>7, Blanks DEF HealthWatchExit, settings, engine
<1>8. CASE HealthWatchTryLock(g)
  <2> DEFINE started == [NoTx EXCEPT !.pc = "select", !.why = "autoswitch", !.g = g,
                                     !.node = health[g].target, !.avoid = state.node]
  <2>1. started \in TxT
    BY <1>2, Blanks DEF TxT
  <2> HIDE DEF started
  <2>2. tx' = tx \/ tx' = started
    BY <1>8 DEF HealthWatchTryLock, started
  <2>3. health' \in [Gens -> HealthT]
    BY <1>3, <1>8 DEF HealthWatchTryLock, TryLockFailed
  <2> QED BY <1>8, <2>1, <2>2, <2>3 DEF HealthWatchTryLock, settings, engine
<1>9. CASE HealthFailover(g)
  <2>1. [kind |-> "failover", gen |-> g, node |-> health[g].active, p |-> {}] \in Detached
    BY <1>2 DEF Detached, NodeT
  <2>2. off' \in SUBSET Detached
    BY <1>9, <2>1 DEF HealthFailover
  <2> QED BY <1>3, <1>9, <2>2 DEF HealthFailover, settings, engine
<1>10. CASE WatchTunInit(g)
  BY <1>10 DEF WatchTunInit, settings, engine
<1>11. CASE WatchTunExit(g)
  BY <1>11 DEF WatchTunExit, settings, engine
<1>12. CASE WatchTunStop(g)
  BY <1>0, <1>12, CallsTyped DEF WatchTunStop, settings
<1>13. CASE HealthWatchDegraded(g)
  <2> DEFINE active == liveNode(health[g].start)
  <2>1. active \in NodeT
    BY <1>1, <1>2
  <2>2. scanForExit(g, active) \subseteq NodeT
    BY DEF scanForExit, NodeT
  <2> HIDE DEF active
  <2>3. \/ health' = [health EXCEPT ![g].pc = "failover", ![g].active = active]
        \/ \E t \in scanForExit(g, active) :
              health' = [health EXCEPT ![g].pc = "trylock", ![g].active = active, ![g].target = t]
    BY <1>13 DEF HealthWatchDegraded, active
  <2>4. health' \in [Gens -> HealthT]
    BY <2>1, <2>2, <2>3, SMTT(30) DEF HealthT
  <2> QED BY <1>13, <2>4 DEF HealthWatchDegraded, settings, engine
<1>14. CASE WatchTunLost(g)
  BY <1>14 DEF WatchTunLost, settings, engine
<1> QED BY <1>4, <1>5, <1>6, <1>7, <1>8, <1>9, <1>10, <1>11, <1>12, <1>13, <1>14
        DEF WatchProcess, HealthWatcher, TunWatcher

\* Detached reconnects, the environment and Close().
LEMMA OthersTyped ==
  ASSUME Shape, scene' = scene, ProxyOwed,
         \/ DetachedRun \/ Close \/ Closed \/ ProcessDies \/ ReconcileSystemProxyWhenIdle
         \/ \E servers \in SUBSET scene.nodes : RefreshProfile(servers)
         \/ StoreUpdate
  PROVE  Shape'
<1> USE DEF Shape
<1>0. 0 \in Gens
  BY BoundsAssumption DEF Gens
<1>1. ASSUME NEW o \in off, StartConnectIfCurrent(o) PROVE Shape'
  <2> DEFINE started == [NoTx EXCEPT !.pc = "prepare", !.why = o.kind, !.p = o.p, !.node = o.node]
  <2>1. o \in Detached /\ o.kind # "failover"
    BY <1>1 DEF StartConnectIfCurrent
  <2>2. o.kind \in Starts /\ o.p \in SUBSET Nodes /\ o.node \in NodeT
    BY <2>1 DEF Detached, Starts, NodeT
  <2>3. started \in TxT
    BY <2>2, Blanks DEF TxT
  <2> HIDE DEF started
  <2>4. tx' = tx \/ tx' = started
    BY <1>1 DEF StartConnectIfCurrent, started
  <2> QED BY <1>1, <2>3, <2>4 DEF StartConnectIfCurrent, settings, goroutines, engine
<1>2. ASSUME NEW o \in off, FailoverStart(o) PROVE Shape'
  <2> DEFINE started == [NoTx EXCEPT !.pc = "prepare", !.why = "failover", !.p = stored, !.avoid = o.node]
             away == Report("health_reconnecting", o.node)
  <2>1. o.node \in NodeT
    BY DEF Detached, NodeT
  <2>2. started \in TxT
    BY <2>1, Blanks DEF TxT, Starts
  <2>3. away \in States
    BY <2>1 DEF Report, States, ConnStates, NodeT
  <2> HIDE DEF started, away
  <2>4. tx' = tx \/ tx' = started
    BY <1>2 DEF FailoverStart, started
  <2>5. state' = state \/ state' = away
    BY <1>2 DEF FailoverStart, away
  <2> QED BY <1>2, <2>2, <2>3, <2>4, <2>5 DEF FailoverStart, settings, goroutines, engine
<1>3. CASE ProcessDies
  BY <1>0, <1>3 DEF ProcessDies, settings, goroutines
<1>4. CASE ReconcileSystemProxyWhenIdle
  <2>1. proxy' \in ProxyT
    BY <1>4, ProxyCalls DEF ReconcileSystemProxyWhenIdle, ProxyOwed
  <2>2. [state EXCEPT !.st = "error"] \in States
    BY DEF States, ConnStates
  <2>3. state' = state \/ state' = [state EXCEPT !.st = "error"]
    BY <1>4 DEF ReconcileSystemProxyWhenIdle
  <2> QED BY <1>4, <2>1, <2>2, <2>3 DEF ReconcileSystemProxyWhenIdle, settings, goroutines, engine
<1>5. ASSUME NEW servers \in SUBSET scene.nodes, RefreshProfile(servers) PROVE Shape'
  BY <1>5, ScenesAssumption DEF RefreshProfile, goroutines, engine
<1>6. CASE StoreUpdate
  BY <1>6 DEF StoreUpdate, goroutines, engine
<1>7. CASE CloseBegin
  BY <1>7 DEF CloseBegin, settings, goroutines, engine
<1>8. CASE CloseTeardown
  <2>1. tx' \in TxT
    BY <1>8, Blanks DEF CloseTeardown, TxT
  <2> QED BY <1>8, <2>1 DEF CloseTeardown, settings, goroutines, engine
<1>9. CASE CloseRestore
  <2>1. proxy' \in ProxyT
    BY <1>9, ProxyCalls DEF CloseRestore, ProxyOwed
  <2> QED BY <1>9, <2>1 DEF CloseRestore, settings, goroutines, engine
<1>10. CASE CloseJoin
  BY <1>10 DEF CloseJoin, settings, goroutines, engine
<1>11. CASE Closed
  BY <1>11 DEF Closed, vars
<1> QED BY <1>1, <1>2, <1>3, <1>4, <1>5, <1>6, <1>7, <1>8, <1>9, <1>10, <1>11 DEF DetachedRun, Close

\* Every call that arms or restores the OS proxy leaves a restore owed as long as
\* the OS may point at it (armSystemProxy, disarmSystemProxy and their callers).
LEMMA ProxyStep ==
  ASSUME Shape, ProxyOwed, scene' = scene, Next
  PROVE  ProxyOwed'
<1>0. /\ \A r \in disarmSystemProxy(proxy) : r.px.os => r.px.armed
      /\ \A built : \A e \in armEgress(built, proxy) : e.px.os => e.px.armed
  BY ProxyCalls DEF Shape, ProxyOwed, armEgress
<1> DEFINE Called == \/ proxy' = proxy
                     \/ \E r \in disarmSystemProxy(proxy) : proxy' = r.px
                     \/ \E built : \E e \in armEgress(built, proxy) : proxy' = e.px
<1>1. SUFFICES Called
  BY <1>0 DEF ProxyOwed
<1>2. ASSUME NEW c \in Clients, Command(c) \/ Handler(c) PROVE proxy' = proxy
  BY <1>2 DEF Command, Handler, HandleConnect, HandleDisconnect, HandleRemoveProfile,
     HandleSetOption, HandleSetKillSwitch, HandleSetMultihop, HandleConnectSwitch,
     HandleConnectRefused, HandleConnectRenews, HandleConnectStart, HandleDisconnectTeardown,
     HandleRemoveProfileTeardown, StoreRemove, ReapplyLive
<1>3. CASE Transaction
  BY <1>3 DEF Transaction, SwitchSelect, SwitchConfirm, SwitchCommit, StartConnectPrepare,
     TeardownSupersede, TeardownStop, TeardownDrained, DisconnectRelease
<1>4. ASSUME NEW g \in Gens, Loop(g) PROVE Called
  BY <1>4 DEF Loop, RunFallbackNext, AttemptNodeCheck, AttemptNodeStart,
     AttemptNodeProbe, RecordSuccess, ReconcileConnectingOptions, AttemptNodeUndo, AttemptsFailed
<1>5. ASSUME NEW g \in Gens, WatchProcess(g) \/ HealthWatcher(g) \/ TunWatcher(g)
      PROVE  proxy' = proxy \/ \E r \in disarmSystemProxy(proxy) : proxy' = r.px
  BY <1>5 DEF WatchProcess, HealthWatcher, TunWatcher, WatchProcessExit, WatchProcessDied,
     WatchProcessHandle, HealthWatchExit, HealthWatchTryLock, HealthFailover, WatchTunInit,
     WatchTunExit, WatchTunStop
<1>6. CASE DetachedRun
  BY <1>6 DEF DetachedRun, StartConnectIfCurrent, FailoverStart
<1>7. CASE Environment
  BY <1>7 DEF Environment, ProcessDies, ReconcileSystemProxyWhenIdle, RefreshProfile, StoreUpdate,
     HealthWatchDegraded, WatchTunLost
<1>8. CASE Close \/ Closed
  BY <1>8 DEF Close, Closed, CloseBegin, CloseTeardown, CloseRestore, CloseJoin, vars
<1> QED BY <1>2, <1>3, <1>4, <1>5, <1>6, <1>7, <1>8 DEF Next

\* Types and the owed restore, for every step.
LEMMA ShapeStep ==
  ASSUME Shape, ProxyOwed, [Next]_<<vars, scene>>
  PROVE  Shape' /\ ProxyOwed'
<1>1. CASE UNCHANGED <<vars, scene>>
  BY <1>1 DEF vars, Shape, ProxyOwed
<1>2. CASE Next
  <2>1. scene' = scene
    BY <1>2 DEF Next
  <2>2. Shape'
    BY <1>2, <2>1, CommandsTyped, TransactionTyped, LoopTyped, WatchersTyped, OthersTyped
       DEF Next, Environment
  <2> QED BY <1>2, <2>1, <2>2, ProxyStep
<1> QED BY <1>1, <1>2

\* The initial states are typed.
LEMMA ShapeInit == Init => Shape /\ ProxyOwed
<1> SUFFICES ASSUME Init PROVE Shape /\ ProxyOwed
  OBVIOUS
<1>0. 0 \in Gens
  BY BoundsAssumption DEF Gens
<1>1. scene \in Scenes /\ stored \in SUBSET Nodes /\ Picks \subseteq NodeT
  BY ScenesAssumption DEF Init, Picks, NodeT
<1>2. opts \in OptsT
  BY Blanks DEF Init, OptsT
<1>3. off \in SUBSET Detached
  BY <1>0, <1>1 DEF Init, AutoconnectOnStart, Detached, NodeT
<1>4. guard \in GuardT
  <2>1. \A b \in BOOLEAN : NewGuard(b) \in GuardT
    BY DEF NewGuard, GuardT, Statuses
  <2>2. Backend \in BOOLEAN
    BY <1>1, ScenesAssumption DEF Backend
  <2>3. Confirm(NewGuard(TRUE), NoTunnel) \in GuardT /\ Fail(NewGuard(TRUE)) \in GuardT
    BY DEF NewGuard, Confirm, Fail, GuardT, Statuses
  <2> QED BY <2>1, <2>2, <2>3 DEF Init, RecoveredGuards
<1> QED BY <1>0, <1>1, <1>2, <1>3, <1>4, Blanks
        DEF Init, Shape, ProxyOwed, ChainT, NodeT

-----------------------------------------------------------------------------
(* The fence.                                                              *)

Superseding == tx.pc \in {"stop", "drain"}
Walking(g) == loop[g].pc \notin {"none", "reconcile"}

\* Goroutines run for one generation: the current one, or, while teardown() waits
\* for them, older ones only.
OneGeneration ==
  \A g \in Gens : Running(g) => IF Superseding THEN g < gen ELSE g = gen

\* Teardown() holds a generation of its own.
FreshGeneration == Superseding => gen > 0 /\ proc # gen

\* Whose process runs: the current generation's, or one that teardown() is about to
\* stop, or one whose loop will.
ProcessOwned ==
  /\ proc <= gen
  /\ proc \in {0, gen} \/ tx.pc = "stop" \/ (tx.pc = "drain" /\ loop[proc].pc # "none")

\* A loop between two attempts has no process.
Parked == proc # 0 => loop[proc].pc \notin {"next", "check", "start", "fail"}

\* reconcileConnectingOptions() holds protectionOp, which teardown() takes too.
ReconcilesFirst == \A g \in Gens : loop[g].pc = "reconcile" => g = gen /\ ~Superseding

\* The watchers start when the walk has ended.
WalkThenWatch ==
  \A g \in Gens : Walking(g) => watcher[g].pc = "none" /\ health[g].pc = "none" /\ tunwatch[g] = "none"

\* The health watcher that switches waits in switchNode().
SwitchIsWatched == tx.why = "autoswitch" => health[tx.g].pc = "switching"

FenceInv ==
  /\ OneGeneration /\ FreshGeneration /\ ProcessOwned /\ Parked
  /\ ReconcilesFirst /\ WalkThenWatch /\ SwitchIsWatched

\* Steps that start no goroutine and no process, and leave teardown() where it is.
LEMMA NothingStarts ==
  ASSUME Shape, FenceInv, gen' = gen, proc' \in {0, proc}, loop' = loop,
         Superseding' <=> Superseding, tx'.pc = tx.pc \/ (~Superseding /\ ~Superseding'),
         \A g \in Gens : watcher[g].pc = "none" => watcher'[g].pc = "none",
         \A g \in Gens : health[g].pc = "none" => health'[g].pc = "none",
         \A g \in Gens : tunwatch[g] = "none" => tunwatch'[g] = "none",
         SwitchIsWatched'
  PROVE  FenceInv'
<1>1. \A g \in Gens : Running(g)' => Running(g)
  BY DEF Running
<1>2. OneGeneration'
  BY <1>1 DEF FenceInv, OneGeneration
<1>3. FreshGeneration'
  BY DEF FenceInv, FreshGeneration
<1>4. ProcessOwned'
  BY DEF FenceInv, ProcessOwned, Superseding, Shape, Gens
<1>5. Parked' /\ ReconcilesFirst'
  BY DEF FenceInv, Parked, ReconcilesFirst
<1>6. WalkThenWatch'
  BY DEF FenceInv, WalkThenWatch, Walking
<1> QED BY <1>2, <1>3, <1>4, <1>5, <1>6 DEF FenceInv

\* Commands only take the lock.
LEMMA FenceCommands ==
  ASSUME Shape, FenceInv, NEW c \in Clients, Command(c) \/ Handler(c)
  PROVE  FenceInv'
<1>1. gen' = gen /\ proc' = proc /\ loop' = loop /\ watcher' = watcher /\ health' = health
      /\ tunwatch' = tunwatch
  BY DEF Command, Handler, HandleConnect, HandleDisconnect, HandleRemoveProfile,
     HandleSetOption, HandleSetKillSwitch, HandleSetMultihop, HandleConnectSwitch,
     HandleConnectRefused, HandleConnectRenews, HandleConnectStart, HandleDisconnectTeardown,
     HandleRemoveProfileTeardown, StoreRemove, ReapplyLive, goroutines, engine
<1>2. \/ tx' = tx
      \/ tx.pc = "free" /\ tx'.pc \in {"select", "prepare", "bump"} /\ tx'.why # "autoswitch"
  <2>1. CASE Command(c)
    BY <2>1 DEF Command, HandleConnect, HandleDisconnect, HandleRemoveProfile,
       HandleSetOption, HandleSetKillSwitch, HandleSetMultihop
  <2>2. CASE HandleConnectSwitch(c)
    BY <2>2, Blanks DEF HandleConnectSwitch, connMuFree, TxT
  <2>3. CASE HandleConnectStart(c)
    BY <2>3, Blanks DEF HandleConnectStart, connMuFree, TxT
  <2>4. CASE HandleDisconnectTeardown(c)
    BY <2>4, Blanks DEF HandleDisconnectTeardown, connMuFree, TxT
  <2>5. CASE HandleRemoveProfileTeardown(c)
    BY <2>5, Blanks DEF HandleRemoveProfileTeardown, connMuFree, TxT
  <2>6. CASE ReapplyLive(c)
    BY <2>6, Blanks DEF ReapplyLive, connMuFree, TxT
  <2>7. CASE HandleConnectRefused(c) \/ HandleConnectRenews(c) \/ StoreRemove(c)
    BY <2>7 DEF HandleConnectRefused, HandleConnectRenews, StoreRemove
  <2> QED BY <2>1, <2>2, <2>3, <2>4, <2>5, <2>6, <2>7 DEF Handler
<1>3. SwitchIsWatched'
  BY <1>1, <1>2 DEF FenceInv, SwitchIsWatched
<1>4. (Superseding' <=> Superseding) /\ (tx'.pc = tx.pc \/ (~Superseding /\ ~Superseding'))
  BY <1>2 DEF Superseding
<1> QED BY <1>1, <1>3, <1>4, NothingStarts

\* The transaction: teardown() supersedes, stops and drains before anything starts.
LEMMA FenceTransaction ==
  ASSUME Shape, FenceInv, Transaction
  PROVE  FenceInv'
<1> DEFINE Frame == gen' = gen /\ proc' = proc /\ loop' = loop /\ watcher' = watcher /\ tunwatch' = tunwatch
<1>1. \A pc : Unlock(pc) => tx' = NoTx
  BY DEF Unlock
<1>2. NoTx.pc = "free" /\ NoTx.why = "none"
  BY Blanks
<1>3. CASE SwitchSelect \/ SwitchConfirm \/ SwitchCommit
  <2>1. Frame
    BY <1>3 DEF SwitchSelect, SwitchConfirm, SwitchCommit, engine
  <2>2. tx.pc \in {"select", "confirm", "commit"}
        /\ \/ tx'.pc \in {"confirm", "commit"} /\ tx'.why = tx.why /\ tx'.g = tx.g /\ health' = health
           \/ /\ tx' = NoTx
              /\ \/ health' = health
                 \/ /\ tx.why = "autoswitch"
                    /\ health' = [health EXCEPT ![tx.g].pc = "failover"]
                       \/ health' = [health EXCEPT ![tx.g].pc = "watch"]
    <3>1. CASE SwitchSelect
      BY <1>1, <3>1 DEF SwitchSelect, SwitchFailed, Shape, TxT
    <3>2. CASE SwitchConfirm
      BY <1>1, <3>2 DEF SwitchConfirm, SwitchFailed, Shape, TxT
    <3>3. CASE SwitchCommit
      BY <1>1, <3>3 DEF SwitchCommit
    <3> QED BY <1>3, <3>1, <3>2, <3>3
  <2>3. \A g \in Gens : health[g].pc = "none" => health'[g].pc = "none"
    BY <2>2 DEF FenceInv, SwitchIsWatched, Shape
  <2>4. SwitchIsWatched'
    BY <1>2, <2>2 DEF FenceInv, SwitchIsWatched
  <2>5. ~Superseding /\ ~Superseding'
    BY <1>2, <2>2 DEF Superseding
  <2> QED BY <2>1, <2>3, <2>4, <2>5, NothingStarts
<1>4. CASE StartConnectPrepare \/ DisconnectRelease
  <2>1. Frame /\ health' = health
    BY <1>4 DEF StartConnectPrepare, DisconnectRelease, goroutines, engine
  <2>2. tx.pc \in {"prepare", "release"}
        /\ (tx' = NoTx \/ (tx'.pc = "bump" /\ tx'.why = tx.why /\ tx'.g = tx.g))
    BY <1>1, <1>4 DEF StartConnectPrepare, DisconnectRelease, Shape, TxT
  <2>3. SwitchIsWatched'
    BY <1>2, <2>1, <2>2 DEF FenceInv, SwitchIsWatched
  <2>4. ~Superseding /\ ~Superseding'
    BY <1>2, <2>2 DEF Superseding
  <2> QED BY <2>1, <2>3, <2>4, NothingStarts
<1>5. CASE TeardownSupersede
  <2>1. /\ gen' = gen + 1 /\ proc' = proc /\ loop' = loop /\ watcher' = watcher /\ health' = health
        /\ tunwatch' = tunwatch /\ tx.pc = "bump" /\ tx'.pc = "stop" /\ tx'.why = tx.why /\ tx'.g = tx.g
        /\ \A g \in Gens : loop[g].pc # "reconcile"
    BY <1>5 DEF TeardownSupersede, goroutines, protectionOpFree, Shape, TxT
  <2>2. gen \in Nat /\ gen + 1 \in Gens /\ proc <= gen /\ proc \in Nat /\ ~Superseding /\ Superseding'
    BY <1>5, <2>1, BoundsAssumption
       DEF TeardownSupersede, Shape, Gens, FenceInv, ProcessOwned, Superseding
  <2>3. \A g \in Gens : Running(g)' <=> Running(g)
    BY <2>1 DEF Running
  <2>4. OneGeneration'
    BY <2>1, <2>2, <2>3 DEF FenceInv, OneGeneration
  <2>5. FreshGeneration'
    BY <2>1, <2>2 DEF FreshGeneration
  <2>6. ProcessOwned'
    BY <2>1, <2>2 DEF ProcessOwned
  <2>7. Parked' /\ ReconcilesFirst' /\ WalkThenWatch' /\ SwitchIsWatched'
    BY <2>1 DEF FenceInv, Parked, ReconcilesFirst, WalkThenWatch, Walking, SwitchIsWatched
  <2> QED BY <2>4, <2>5, <2>6, <2>7 DEF FenceInv
<1>6. CASE TeardownStop
  <2>1. /\ gen' = gen /\ proc' = 0 /\ loop' = loop /\ watcher' = watcher /\ health' = health
        /\ tunwatch' = tunwatch /\ tx.pc = "stop" /\ tx'.pc = "drain" /\ tx'.why = tx.why /\ tx'.g = tx.g
    BY <1>6 DEF TeardownStop, goroutines, Shape, TxT
  <2>2. gen \in Nat /\ gen > 0 /\ Superseding /\ Superseding'
    BY <2>1, BoundsAssumption DEF Shape, Gens, FenceInv, FreshGeneration, Superseding
  <2>3. \A g \in Gens : Running(g)' <=> Running(g)
    BY <2>1 DEF Running
  <2>4. OneGeneration' /\ FreshGeneration' /\ ProcessOwned'
    BY <2>1, <2>2, <2>3 DEF FenceInv, OneGeneration, FreshGeneration, ProcessOwned
  <2>5. Parked' /\ ReconcilesFirst' /\ WalkThenWatch' /\ SwitchIsWatched'
    BY <2>1, <2>2 DEF FenceInv, Parked, ReconcilesFirst, WalkThenWatch, Walking, SwitchIsWatched
  <2> QED BY <2>4, <2>5 DEF FenceInv
<1>7. CASE TeardownDrained
  <2>1. /\ tx.pc = "drain" /\ proc' = proc /\ watcher' = watcher /\ health' = health /\ tunwatch' = tunwatch
        /\ \A g \in Gens : loop[g].pc = "none" /\ watcher[g].pc = "none" /\ health[g].pc = "none"
                           /\ tunwatch[g] = "none"
    BY <1>7 DEF TeardownDrained, engine, wgZero
  <2>2. proc = 0 /\ Superseding /\ gen \in Nat
    BY <2>1 DEF Shape, FenceInv, ProcessOwned, FreshGeneration, Superseding, Gens
  <2>3. ~Superseding' /\ tx'.why # "autoswitch"
    <3>1. tx' = NoTx \/ (tx' = [tx EXCEPT !.pc = "release"] /\ tx.why = "disconnect")
      BY <1>1, <1>7 DEF TeardownDrained
    <3> QED BY <1>2, <3>1 DEF Superseding, Shape, TxT
  <2>4. \/ gen' = gen /\ loop' = loop
        \/ gen < MaxGen /\ gen' = gen + 1 /\ loop' = [loop EXCEPT ![gen + 1] = NewLoop(tx)]
    BY <1>7 DEF TeardownDrained
  <2>5. NewLoop(tx).pc = "next"
    BY Blanks DEF NewLoop, LoopT
  <2>6. \A g \in Gens : loop'[g].pc # "none" => g = gen' /\ loop'[g].pc = "next"
    BY <2>1, <2>4, <2>5 DEF Shape
  <2>7. OneGeneration' /\ FreshGeneration'
    BY <2>1, <2>3, <2>6 DEF OneGeneration, FreshGeneration, Running
  <2>8. ProcessOwned' /\ Parked'
    BY <2>1, <2>2, <2>4 DEF ProcessOwned, Parked
  <2>9. ReconcilesFirst' /\ WalkThenWatch' /\ SwitchIsWatched'
    BY <2>1, <2>3, <2>6 DEF ReconcilesFirst, WalkThenWatch, SwitchIsWatched
  <2> QED BY <2>7, <2>8, <2>9 DEF FenceInv
<1> QED BY <1>3, <1>4, <1>5, <1>6, <1>7 DEF Transaction

\* A walk goes on, or ends, with its own process or none.
LEMMA WalkGoesOn ==
  ASSUME Shape, FenceInv, NEW g \in Gens, Walking(g), loop' \in [Gens -> LoopT],
         \A h \in Gens \ {g} : loop'[h] = loop[h], loop'[g].pc # "reconcile",
         gen' = gen, tx' = tx, watcher' = watcher, health' = health, tunwatch' = tunwatch,
         proc' \in {0, proc, g},
         proc' # 0 /\ proc' = g => loop'[g].pc \notin {"none", "next", "check", "start", "fail"}
  PROVE  FenceInv'
<1>1. Running(g)
  BY DEF Running, Walking
<1>2. Superseding' <=> Superseding
  BY DEF Superseding
<1>3. \A h \in Gens : Running(h)' => Running(h)
  BY <1>1 DEF Running
<1>4. OneGeneration'
  BY <1>2, <1>3 DEF FenceInv, OneGeneration
<1>5. g <= gen /\ (IF Superseding THEN g < gen ELSE g = gen) /\ gen \in Nat /\ g \in Nat
  BY <1>1 DEF FenceInv, OneGeneration, Shape, Gens
<1>6. FreshGeneration'
  BY <1>2, <1>5 DEF FenceInv, FreshGeneration
<1>7. ProcessOwned'
  BY <1>5 DEF FenceInv, ProcessOwned, Superseding, Shape
<1>8. Parked'
  BY DEF FenceInv, Parked, Shape
<1>9. ReconcilesFirst'
  BY <1>2 DEF FenceInv, ReconcilesFirst
<1>10. WalkThenWatch' /\ SwitchIsWatched'
  BY DEF FenceInv, WalkThenWatch, SwitchIsWatched, Walking
<1> QED BY <1>4, <1>6, <1>7, <1>8, <1>9, <1>10 DEF FenceInv

\* What a step of a loop does to the other loops.
LEMMA LoopMoves ==
  ASSUME Shape, NEW g \in Gens
  PROVE  /\ \A pc : LoopTo(g, pc) => loop'[g].pc = pc /\ \A h \in Gens \ {g} : loop'[h] = loop[h]
         /\ Exit(g) => loop'[g].pc = "none" /\ \A h \in Gens \ {g} : loop'[h] = loop[h]
BY Blanks DEF LoopTo, Exit, Shape, LoopT

\* The loop: a stale walk stops its own process, a walk that succeeded starts its watchers
\* while it is current.
LEMMA FenceLoop ==
  ASSUME Shape, Shape', FenceInv, NEW g \in Gens, Loop(g)
  PROVE  FenceInv'
<1> USE LoopMoves
<1>0. loop' \in [Gens -> LoopT] /\ loop \in [Gens -> LoopT] /\ proc \in Gens
  BY DEF Shape
<1>1. CASE RunFallbackNext(g)
  <2>1. /\ loop[g].pc = "next" /\ (proc # 0 => proc # g)
        /\ gen' = gen /\ tx' = tx /\ watcher' = watcher /\ health' = health /\ tunwatch' = tunwatch
    BY <1>1 DEF RunFallbackNext, FenceInv, Parked
  <2>2. /\ proc' \in {0, proc} /\ loop'[g].pc \in {"none", "fail", "check"}
        /\ \A h \in Gens \ {g} : loop'[h] = loop[h]
    <3>1. ASSUME NEW n \in loop[g].todo,
                 loop' = [loop EXCEPT ![g].pc = "check", ![g].node = n, ![g].strat = 1,
                                      ![g].todo = @ \ {n}]
          PROVE  loop'[g].pc = "check" /\ \A h \in Gens \ {g} : loop'[h] = loop[h]
      BY <1>0, <3>1 DEF LoopT
    <3> QED BY <1>1, <3>1 DEF RunFallbackNext
  <2> QED BY <1>0, <2>1, <2>2, WalkGoesOn DEF Walking
<1>2. CASE AttemptNodeCheck(g)
  <2>1. /\ loop[g].pc = "check" /\ (proc # 0 => proc # g)
        /\ gen' = gen /\ tx' = tx /\ watcher' = watcher /\ health' = health /\ tunwatch' = tunwatch
    BY <1>2 DEF AttemptNodeCheck, FenceInv, Parked
  <2>2. /\ proc' \in {0, proc} /\ loop'[g].pc \in {"none", "start"}
        /\ \A h \in Gens \ {g} : loop'[h] = loop[h]
    BY <1>2 DEF AttemptNodeCheck
  <2> QED BY <1>0, <2>1, <2>2, WalkGoesOn DEF Walking
<1>3. CASE AttemptNodeStart(g)
  <2>1. /\ loop[g].pc = "start" /\ (proc # 0 => proc # g)
        /\ gen' = gen /\ tx' = tx /\ watcher' = watcher /\ health' = health /\ tunwatch' = tunwatch
    BY <1>3 DEF AttemptNodeStart, FenceInv, Parked
  <2>2. /\ \/ proc' \in {0, proc} /\ loop'[g].pc \in {"none", "fail", "next"}
           \/ proc' = g /\ loop'[g].pc = "probe"
        /\ \A h \in Gens \ {g} : loop'[h] = loop[h]
    BY <1>3 DEF AttemptNodeStart
  <2> QED BY <1>0, <2>1, <2>2, WalkGoesOn DEF Walking
<1>4. CASE AttemptNodeProbe(g)
  <2>1. /\ loop[g].pc = "probe"
        /\ gen' = gen /\ tx' = tx /\ watcher' = watcher /\ health' = health /\ tunwatch' = tunwatch
    BY <1>4 DEF AttemptNodeProbe
  <2>2. NextStrategy(loop[g]).pc = "check"
    BY <1>0 DEF NextStrategy, LoopT
  <2>3. /\ \/ proc' = 0 /\ loop'[g].pc \in {"none", "check", "next"}
           \/ proc' = proc /\ loop'[g].pc = "up"
        /\ \A h \in Gens \ {g} : loop'[h] = loop[h]
    BY <1>0, <1>4, <2>2 DEF AttemptNodeProbe, GiveUpNode
  <2> QED BY <1>0, <2>1, <2>3, WalkGoesOn DEF Walking
<1>5. CASE RecordSuccess(g)
  <2>1. loop[g].pc = "up" /\ gen' = gen /\ tx' = tx /\ proc' = proc
        /\ (\A h \in Gens : loop[h].pc # "reconcile")
    BY <1>5 DEF RecordSuccess, protectionOpFree
  <2>2. CASE LoopTo(g, "undo") /\ watcher' = watcher /\ health' = health /\ tunwatch' = tunwatch
    BY <1>0, <2>1, <2>2, WalkGoesOn DEF Walking
  <2>3. CASE /\ isCurrent(g) /\ LoopTo(g, "reconcile")
             /\ \A h \in Gens \ {g} : /\ watcher'[h] = watcher[h] /\ health'[h] = health[h]
                                      /\ tunwatch'[h] = tunwatch[h]
    <3>1. Running(g) /\ g = gen /\ ~Superseding
      BY <2>1, <2>3 DEF Running, isCurrent, FenceInv, OneGeneration, Shape, Gens
    <3>2. \A h \in Gens : Running(h)' => Running(h)
      BY <2>3, <3>1 DEF Running
    <3>3. ~Superseding'
      BY <2>1, <3>1 DEF Superseding
    <3>4. OneGeneration' /\ FreshGeneration'
      BY <2>1, <3>1, <3>2, <3>3 DEF FenceInv, OneGeneration, FreshGeneration
    <3>5. ProcessOwned' /\ Parked'
      BY <2>1, <2>3, <3>1 DEF FenceInv, ProcessOwned, Parked, Superseding, Shape
    <3>6. ReconcilesFirst'
      BY <2>1, <2>3, <3>1, <3>3 DEF ReconcilesFirst
    <3>7. WalkThenWatch'
      BY <2>1, <2>3 DEF FenceInv, WalkThenWatch, Walking
    <3>8. SwitchIsWatched'
      <4>1. tx.why = "autoswitch" => tx.g # g
        BY <2>1 DEF FenceInv, SwitchIsWatched, WalkThenWatch, Walking
      <4> QED BY <2>1, <2>3, <4>1 DEF FenceInv, SwitchIsWatched, Shape, TxT
    <3> QED BY <3>4, <3>5, <3>6, <3>7, <3>8 DEF FenceInv
  <2> QED BY <1>5, <2>2, <2>3 DEF RecordSuccess, Shape
<1>6. CASE ReconcileConnectingOptions(g)
  <2>1. /\ loop[g].pc = "reconcile" /\ Exit(g) /\ gen' = gen /\ tx' = tx /\ proc' = proc
        /\ watcher' = watcher /\ health' = health /\ tunwatch' = tunwatch
    BY <1>6 DEF ReconcileConnectingOptions, engine
  <2>2. g = gen /\ ~Superseding /\ ~Superseding'
    BY <2>1 DEF FenceInv, ReconcilesFirst, Superseding
  <2>3. \A h \in Gens : Running(h)' => Running(h)
    BY <2>1 DEF Running
  <2>4. OneGeneration' /\ FreshGeneration'
    BY <2>1, <2>2, <2>3 DEF FenceInv, OneGeneration, FreshGeneration
  <2>5. ProcessOwned' /\ Parked'
    BY <2>1, <2>2 DEF FenceInv, ProcessOwned, Parked, Superseding, Shape
  <2>6. ReconcilesFirst' /\ WalkThenWatch' /\ SwitchIsWatched'
    BY <2>1, <2>2 DEF FenceInv, ReconcilesFirst, WalkThenWatch, SwitchIsWatched, Walking
  <2> QED BY <2>4, <2>5, <2>6 DEF FenceInv
<1>7. CASE AttemptNodeUndo(g)
  <2>1. /\ loop[g].pc = "undo" /\ proc' = 0
        /\ gen' = gen /\ tx' = tx /\ watcher' = watcher /\ health' = health /\ tunwatch' = tunwatch
    BY <1>7 DEF AttemptNodeUndo
  <2>2. loop'[g].pc \in {"none", "fail"} /\ \A h \in Gens \ {g} : loop'[h] = loop[h]
    BY <1>7 DEF AttemptNodeUndo
  <2> QED BY <1>0, <2>1, <2>2, WalkGoesOn DEF Walking
<1>8. CASE AttemptsFailed(g)
  <2>1. /\ loop[g].pc = "fail" /\ (proc # 0 => proc # g) /\ proc' = proc /\ Exit(g)
        /\ gen' = gen /\ tx' = tx /\ watcher' = watcher /\ health' = health /\ tunwatch' = tunwatch
    BY <1>8 DEF AttemptsFailed, FenceInv, Parked, engine
  <2> QED BY <1>0, <2>1, WalkGoesOn DEF Walking
<1> QED BY <1>1, <1>2, <1>3, <1>4, <1>5, <1>6, <1>7, <1>8 DEF Loop

\* The watchers end, or ask for the lock; none starts.
LEMMA FenceWatchers ==
  ASSUME Shape, FenceInv, NEW g \in Gens,
         WatchProcess(g) \/ HealthWatcher(g) \/ TunWatcher(g) \/ HealthWatchDegraded(g) \/ WatchTunLost(g)
  PROVE  FenceInv'
<1> DEFINE Frame == /\ gen' = gen /\ loop' = loop /\ proc' \in {0, proc}
                    /\ \A h \in Gens : watcher[h].pc = "none" => watcher'[h].pc = "none"
                    /\ \A h \in Gens : tunwatch[h] = "none" => tunwatch'[h] = "none"
<1>0. /\ watcher \in [Gens -> WatcherT] /\ health \in [Gens -> HealthT]
      /\ tunwatch \in [Gens -> {"none", "init", "watch", "lost"}]
  BY DEF Shape
<1>1. CASE WatchProcess(g) \/ TunWatcher(g) \/ WatchTunLost(g)
  <2>1. tx' = tx /\ health' = health
    BY <1>1 DEF WatchProcess, TunWatcher, WatchProcessExit, WatchProcessDied, WatchProcessHandle,
       WatchTunInit, WatchTunExit, WatchTunLost, WatchTunStop
  <2>2. Frame
    <3>1. CASE WatchProcess(g)
      BY <1>0, <3>1, Blanks DEF WatchProcess, WatchProcessExit, WatchProcessDied, WatchProcessHandle,
         WatcherT, engine
    <3>2. CASE TunWatcher(g) \/ WatchTunLost(g)
      BY <1>0, <3>2 DEF TunWatcher, WatchTunInit, WatchTunExit, WatchTunLost, WatchTunStop, engine
    <3> QED BY <1>1, <3>1, <3>2
  <2>3. SwitchIsWatched'
    BY <2>1 DEF FenceInv, SwitchIsWatched
  <2> QED BY <2>1, <2>2, <2>3, NothingStarts DEF Superseding
<1>2. CASE HealthWatcher(g) \/ HealthWatchDegraded(g)
  <2>1. Frame
    BY <1>2 DEF HealthWatcher, HealthWatchExit, HealthWatchTryLock, HealthFailover,
       HealthWatchDegraded, engine
  <2>2. /\ health[g].pc \in {"watch", "trylock", "failover"}
        /\ \A h \in Gens \ {g} : health'[h] = health[h]
        /\ \/ tx' = tx
           \/ /\ tx.pc = "free" /\ tx'.pc = "select" /\ tx'.g = g
              /\ health'[g].pc = "switching"
    <3>1. CASE HealthWatchExit(g)
      BY <1>0, <3>1 DEF HealthWatchExit
    <3>2. CASE HealthWatchTryLock(g)
      <4>1. \A pc \in {"watch", "switching", "failover"} :
               HealthTo(g, pc) => health'[g].pc = pc /\ \A h \in Gens \ {g} : health'[h] = health[h]
        BY <1>0 DEF HealthTo, HealthT
      <4>2. \/ tx' = tx /\ (HealthTo(g, "watch") \/ HealthTo(g, "failover"))
            \/ /\ tx' = [NoTx EXCEPT !.pc = "select", !.why = "autoswitch", !.g = g,
                                     !.node = health[g].target, !.avoid = state.node]
               /\ connMuFree /\ HealthTo(g, "switching")
        BY <3>2 DEF HealthWatchTryLock, TryLockFailed
      <4>3. health[g].pc = "trylock"
        BY <3>2 DEF HealthWatchTryLock
      <4> QED BY <4>1, <4>2, <4>3, Blanks DEF connMuFree, TxT
    <3>3. CASE HealthFailover(g)
      BY <1>0, <3>3 DEF HealthFailover, HealthTo
    <3>4. CASE HealthWatchDegraded(g)
      BY <1>0, <3>4 DEF HealthWatchDegraded, HealthT
    <3> QED BY <1>2, <3>1, <3>2, <3>3, <3>4 DEF HealthWatcher
  <2>3. \A h \in Gens : health[h].pc = "none" => health'[h].pc = "none"
    BY <2>2
  <2>4. SwitchIsWatched'
    BY <2>2 DEF FenceInv, SwitchIsWatched, Shape, TxT
  <2>5. (Superseding' <=> Superseding) /\ (tx'.pc = tx.pc \/ (~Superseding /\ ~Superseding'))
    BY <2>2 DEF Superseding
  <2> QED BY <2>1, <2>3, <2>4, <2>5, NothingStarts
<1> QED BY <1>1, <1>2 DEF HealthWatcher

\* Detached reconnects, the environment and Close().
LEMMA FenceOthers ==
  ASSUME Shape, FenceInv,
         \/ DetachedRun \/ Close \/ Closed \/ ProcessDies \/ ReconcileSystemProxyWhenIdle
         \/ \E servers \in SUBSET scene.nodes : RefreshProfile(servers)
         \/ StoreUpdate
  PROVE  FenceInv'
<1>1. /\ gen' = gen /\ proc' \in {0, proc} /\ loop' = loop /\ watcher' = watcher /\ health' = health
      /\ tunwatch' = tunwatch
  BY DEF DetachedRun, StartConnectIfCurrent, FailoverStart, Close, CloseBegin, CloseTeardown,
     CloseRestore, CloseJoin, Closed, ProcessDies, ReconcileSystemProxyWhenIdle, RefreshProfile,
     StoreUpdate, goroutines, engine, vars
<1> DEFINE TakesLock ==
      \/ tx' = tx
      \/ tx.pc = "free" /\ tx'.pc \in {"prepare", "bump"} /\ tx'.why # "autoswitch"
<1>2. TakesLock
  <2>1. ASSUME NEW o \in off, StartConnectIfCurrent(o) PROVE TakesLock
    <3>1. o.kind # "autoswitch"
      BY DEF Shape, Detached
    <3> QED BY <2>1, <3>1, Blanks DEF StartConnectIfCurrent, connMuFree, TxT
  <2>2. ASSUME NEW o \in off, FailoverStart(o) PROVE TakesLock
    BY <2>2, Blanks DEF FailoverStart, connMuFree, TxT
  <2>3. CASE CloseTeardown
    BY <2>3, Blanks DEF CloseTeardown, connMuFree, TxT
  <2>4. CASE Closed
    BY <2>4 DEF Closed, vars
  <2> QED BY <2>1, <2>2, <2>3, <2>4 DEF DetachedRun, Close, CloseBegin, CloseRestore, CloseJoin, ProcessDies,
             ReconcileSystemProxyWhenIdle, RefreshProfile, StoreUpdate
<1>3. SwitchIsWatched'
  BY <1>1, <1>2 DEF FenceInv, SwitchIsWatched
<1>4. (Superseding' <=> Superseding) /\ (tx'.pc = tx.pc \/ (~Superseding /\ ~Superseding'))
  BY <1>2 DEF Superseding
<1> QED BY <1>1, <1>3, <1>4, NothingStarts

\* The fence, for every step.
LEMMA FenceStep ==
  ASSUME Shape, Shape', FenceInv, [Next]_<<vars, scene>>
  PROVE  FenceInv'
<1>1. CASE UNCHANGED <<vars, scene>>
  BY <1>1 DEF vars, FenceInv, OneGeneration, FreshGeneration, ProcessOwned, Parked, ReconcilesFirst,
     WalkThenWatch, SwitchIsWatched, Running, Walking, Superseding
<1>2. CASE Next
  BY <1>2, FenceCommands, FenceTransaction, FenceLoop, FenceWatchers, FenceOthers DEF Next, Environment
<1> QED BY <1>1, <1>2

\* Nothing runs in a daemon that has just started.
LEMMA FenceInit == Init => FenceInv
BY Blanks, BoundsAssumption
   DEF Init, FenceInv, OneGeneration, FreshGeneration, ProcessOwned, Parked, ReconcilesFirst,
       WalkThenWatch, SwitchIsWatched, Running, Walking, Superseding, Gens

\* What a reader of the fence wants to know.
LEMMA FenceHolds == Shape /\ FenceInv => Fence
BY DEF FenceInv, OneGeneration, ProcessOwned, Superseding, Fence

\* The types hold in every reachable state, and so does the fence: no goroutine and no process of
\* an earlier connection is left when teardown() has returned (connect.go: teardown, attemptNode,
\* recordSuccess and the watchers' context).
THEOREM SessionFence == Spec => []Fence
<1> DEFINE Inv == Shape /\ ProxyOwed /\ FenceInv
<1>1. Init => Inv
  BY ShapeInit, FenceInit
<1>2. Inv /\ [Next]_<<vars, scene>> => Inv'
  BY ShapeStep, FenceStep
<1>3. Inv => Fence
  BY FenceHolds
<1> HIDE DEF Inv
<1> QED BY <1>1, <1>2, <1>3, PTL DEF Spec

-----------------------------------------------------------------------------
(* What is reported: the holder of connMu, the state and the process.      *)

\* Commands and the transaction agree about who holds connMu and why.
LockInv ==
  /\ tx.c # None => cmd[tx.c].pc = "wait"
  /\ tx.pc = "free" <=> tx.why = "none"
  /\ tx.pc \in {"select", "confirm", "commit"} <=> tx.why \in {"switch", "autoswitch"}
  /\ tx.pc = "prepare" => tx.why \in Starts
  /\ tx.pc = "release" => tx.why = "disconnect"
  /\ tx.why = "close" => shutdown = "busy"
  /\ reapplyDue => Reapplies
  /\ shutdown # "no" => \A c \in Clients : cmd[c] = Ready

\* Where a node must be named, it is.
NodesNamed ==
  /\ state.st \in {"connected", "health_reconnecting"} => state.prof /\ state.node \in Nodes
  /\ \A g \in Gens : loop[g].pc \in {"check", "start", "probe", "up"} => loop[g].node \in Nodes
  /\ tx.pc \in {"select", "confirm", "commit"} => tx.node \in Nodes /\ tx.avoid \in Nodes
  /\ tx.why = "failover" => tx.avoid \in Nodes

\* A session that was ended is down.
IdleDown ==
  state.st = "idle" =>
    /\ proc = 0 /\ wgZero /\ ~proxy.os /\ ~proxy.armed
    /\ \A o \in off : o.gen = gen => o.kind = "autoconnect"
    /\ tx.why \in {"none", "connect", "autoconnect", "disconnect", "remove", "close"}

\* A walk is reported as one, and nobody who may report something else holds connMu.
WalkIsReported ==
  Walking(gen) =>
    /\ state.st = "connecting"
    /\ tx.pc \notin {"select", "confirm", "commit"}
    /\ tx.pc = "prepare" => tx.why \notin {"reapply", "relaunch", "failover"}

\* Detached reconnects are of a generation that was, and teardown() outdates them all.
OffIsOutdated == \A o \in off : o.gen <= gen /\ (Superseding => o.gen < gen)

\* A relaunch follows the death of a process that nobody watches any more.
RelaunchIsDue ==
  (\E o \in off : o.kind = "relaunch" /\ o.gen = gen) \/ (tx.why = "relaunch" /\ tx.pc = "prepare") =>
    ~Walking(gen) /\ watcher[gen].pc = "none" /\ proc = 0

DeathIsSeen == proc # 0 => watcher[proc].pc # "died"

\* A watched connection is reported connected, but where a failover or a refused re-apply says
\* otherwise.
WatchedIsConnected ==
  watcher[gen].pc # "none" =>
    \/ state.st = "connected"
    \/ tx.why = "failover" /\ tx.pc \in {"prepare", "bump"}
    \/ Reapplies /\ state.st = "error"

GreenIsWatched == guard.status = "active" => Superseding \/ watcher[gen].pc # "none"

ErrorIsDown == ~Reapplies /\ state.st = "error" => Superseding \/ proc = 0

\* After the teardown of Close() nothing is left, and nothing that may come back.
CloseIsFinal ==
  /\ shutdown \in {"restore", "join", "closed"} =>
       tx.pc = "free" /\ proc = 0 /\ wgZero /\ \A o \in off : o.gen < gen
  /\ shutdown \in {"join", "closed"} => (proxy.os => ProxyFails)
  /\ shutdown = "closed" => off = {}

StatusInv ==
  /\ IdleDown /\ WalkIsReported /\ OffIsOutdated /\ RelaunchIsDue /\ DeathIsSeen
  /\ WatchedIsConnected /\ GreenIsWatched /\ ErrorIsDown /\ CloseIsFinal

\* Whose duty the restore of the proxy is.
RestoreIsDue ==
  \/ Walking(gen) \/ state.st = "error"
  \/ \E o \in off : o.kind = "relaunch" /\ o.gen = gen
  \/ tx.why = "relaunch" /\ tx.pc \in {"prepare", "bump"}
ProxyIsWatched ==
  proxy.os /\ ~(ProxyFails /\ LiveSwitches) =>
    Superseding \/ watcher[gen].pc # "none" \/ (ProxyFails /\ RestoreIsDue)

\* Without live switches there is nobody to overwrite an error.
NoSwitches ==
  ~LiveSwitches =>
    /\ tx.why \notin {"switch", "autoswitch", "failover"}
    /\ \A c \in Clients : cmd[c].pc # "switch"
    /\ \A g \in Gens : health[g].pc = "none"
    /\ \A o \in off : o.kind # "failover"

\* Under the kill switch, a host that is connected, or will be reported so without another walk,
\* is blocked, or a re-apply is due.
BlockedOrDue ==
  Backend /\ opts["kill_switch"] /\ guard.status # "error"
  /\ (state.st = "connected" \/ tx.why \in {"failover", "switch", "autoswitch"}) =>
    guard.enforced \/ reapplyDue \/ stored = {}

\* Host protection is lifted when the session is down.
ReleaseIsDown == tx.pc = "release" => wgZero /\ state.st # "connected"

\* What the process is pointed at is what will be reported.
SelIsPointed ==
  /\ tx.pc \in {"confirm", "commit"} => sel = tx.node
  /\ loop[gen].pc \in {"probe", "up"} => sel = loop[gen].node

\* What a command that was accepted has done so far.
LEMMA CommandMoves ==
  ASSUME Shape, NEW c \in Clients, Command(c)
  PROVE  /\ UNCHANGED <<gen, state, stored, goroutines, off, tx, engine, proxy, shutdown>>
         /\ shutdown = "no" /\ cmd[c] = Ready /\ \A d \in Clients \ {c} : cmd'[d] = cmd[d]
         /\ cmd'[c].pc \in {"ready", "switch", "start", "disconnect", "teardown", "remove", "reapply"}
         /\ cmd'[c].pc = "switch" => Picks \ {None} # {}
         /\ cmd'[c].pc = "reapply" => Reapplies
<1> USE DEF Shape
<1>1. ASSUME NEW n \in Picks, HandleConnect(c, n)
      PROVE  cmd'[c].pc \in {"start", "switch"} /\ (cmd'[c].pc = "switch" => n # None)
             /\ \A d \in Clients \ {c} : cmd'[d] = cmd[d]
  BY <1>1 DEF HandleConnect
<1>2. \A pc : Goto(c, pc) => cmd'[c].pc = pc /\ \A d \in Clients \ {c} : cmd'[d] = cmd[d]
  BY DEF Goto, CmdT
<1>3. Reply(c) => cmd'[c].pc = "ready" /\ \A d \in Clients \ {c} : cmd'[d] = cmd[d]
  BY Blanks DEF Reply
<1>4. \A name : Accepts(c, name) => shutdown = "no" /\ cmd[c] = Ready /\ name \in Commands
  BY DEF Accepts
<1>5. UNCHANGED <<gen, state, stored, goroutines, off, tx, engine, proxy, shutdown>>
  BY DEF Command, HandleConnect, HandleDisconnect, HandleRemoveProfile,
     HandleSetOption, HandleSetKillSwitch, HandleSetMultihop, settings
<1>6. CASE \E n \in Picks : HandleConnect(c, n)
  BY <1>1, <1>4, <1>5, <1>6 DEF HandleConnect
<1>7. CASE HandleDisconnect(c) \/ HandleRemoveProfile(c)
  BY <1>2, <1>4, <1>5, <1>7 DEF HandleDisconnect, HandleRemoveProfile
<1>8. CASE \E o \in Flips : HandleSetOption(c, o)
  BY <1>2, <1>4, <1>5, <1>8 DEF HandleSetOption, Reapplies
<1>9. CASE \E on \in BOOLEAN : HandleSetKillSwitch(c, on)
  <2>1. (Goto(c, "reapply") \/ Reply(c)) /\ Accepts(c, "set_option")
    BY <1>9 DEF HandleSetKillSwitch
  <2> QED BY <1>2, <1>3, <1>4, <1>5, <2>1 DEF Reapplies
<1>10. CASE \E ch \in Chains \cup {None} : HandleSetMultihop(c, ch)
  BY <1>2, <1>4, <1>5, <1>10 DEF HandleSetMultihop, Reapplies
<1> QED BY <1>6, <1>7, <1>8, <1>9, <1>10 DEF Command

\* What a command that goes on does: it waits, replies, or takes connMu.
LEMMA HandlerMoves ==
  ASSUME Shape, NEW c \in Clients, Handler(c)
  PROVE  /\ UNCHANGED <<gen, state, opts, goroutines, off, engine, proxy, guard, shutdown>>
         /\ stored' = stored \/ stored' = {}
         /\ cmd[c].pc \notin {"ready", "wait"} /\ \A d \in Clients \ {c} : cmd'[d] = cmd[d]
         /\ \/ /\ tx' = tx /\ (cmd'[c] = Ready \/ cmd'[c].pc \in {"start", "lock"})
               /\ cmd[c].pc = "reapply" =>
                    tx.pc = "free" /\ ~(state.st = "connected" /\ state.prof /\ state.node # None /\ stored # {})
            \/ /\ tx.pc = "free" /\ tx'.c = c /\ cmd'[c].pc = "wait"
               /\ \/ /\ tx'.pc = "select" /\ tx'.why = "switch" /\ tx'.node = cmd[c].node
                     /\ tx'.avoid = state.node /\ cmd[c].pc = "switch" /\ liveSwitchTarget(cmd[c].node)
                  \/ tx'.pc = "prepare" /\ tx'.why = "connect" /\ cmd[c].pc = "lock"
                  \/ tx'.pc = "bump" /\ tx'.why \in {"disconnect", "remove"} /\ cmd[c].pc # "reapply"
                  \/ /\ tx'.pc = "prepare" /\ tx'.why = "reapply" /\ cmd[c].pc = "reapply"
                     /\ state.st = "connected"
<1> USE DEF Shape
<1>2. \A pc : Goto(c, pc) => cmd'[c].pc = pc /\ \A d \in Clients \ {c} : cmd'[d] = cmd[d]
  BY DEF Goto, CmdT
<1>3. Reply(c) => cmd'[c] = Ready /\ \A d \in Clients \ {c} : cmd'[d] = cmd[d]
  BY DEF Reply
<1>4. UNCHANGED <<gen, state, opts, goroutines, off, engine, proxy, guard, shutdown>>
      /\ (stored' = stored \/ stored' = {})
  BY DEF Handler, HandleConnectSwitch, HandleConnectRefused, HandleConnectRenews, HandleConnectStart,
     HandleDisconnectTeardown, HandleRemoveProfileTeardown, StoreRemove, ReapplyLive, settings
<1> HIDE DEF Shape
<1>5. CASE HandleConnectSwitch(c)
  <2>1. CASE liveSwitchTarget(cmd[c].node)
    <3>1. /\ tx' = [NoTx EXCEPT !.pc = "select", !.why = "switch", !.c = c, !.node = cmd[c].node,
                               !.avoid = state.node]
          /\ Goto(c, "wait") /\ cmd[c].pc = "switch" /\ connMuFree
      BY <1>5, <2>1 DEF HandleConnectSwitch
    <3>2. tx'.pc = "select" /\ tx'.why = "switch" /\ tx'.c = c /\ tx'.node = cmd[c].node
          /\ tx'.avoid = state.node
      BY <3>1, Blanks DEF TxT
    <3> QED BY <1>2, <1>4, <2>1, <3>1, <3>2 DEF connMuFree
  <2>2. CASE ~liveSwitchTarget(cmd[c].node)
    BY <1>2, <1>4, <1>5, <2>2 DEF HandleConnectSwitch
  <2> QED BY <2>1, <2>2
<1>6. CASE HandleConnectRefused(c) \/ HandleConnectRenews(c) \/ StoreRemove(c)
  BY <1>2, <1>3, <1>4, <1>6 DEF HandleConnectRefused, HandleConnectRenews, StoreRemove
<1>7. CASE HandleConnectStart(c)
  <2>1. tx'.pc = "prepare" /\ tx'.why = "connect" /\ tx'.c = c
    BY <1>7, Blanks DEF HandleConnectStart, TxT
  <2> QED BY <1>2, <1>4, <1>7, <2>1 DEF HandleConnectStart, connMuFree
<1>8. CASE HandleDisconnectTeardown(c)
  <2>1. tx'.pc = "bump" /\ tx'.why = "disconnect" /\ tx'.c = c
    BY <1>8, Blanks DEF HandleDisconnectTeardown, TxT
  <2> QED BY <1>2, <1>4, <1>8, <2>1 DEF HandleDisconnectTeardown, connMuFree
<1>9. CASE HandleRemoveProfileTeardown(c)
  <2>1. tx'.pc = "bump" /\ tx'.why = "remove" /\ tx'.c = c
    BY <1>9, Blanks DEF HandleRemoveProfileTeardown, TxT
  <2> QED BY <1>2, <1>4, <1>9, <2>1 DEF HandleRemoveProfileTeardown, connMuFree
<1>10. CASE ReapplyLive(c)
  <2> DEFINE started == [NoTx EXCEPT !.pc = "prepare", !.why = "reapply", !.c = c, !.p = stored,
                                     !.node = state.node]
  <2>1. started.pc = "prepare" /\ started.why = "reapply" /\ started.c = c
    BY Blanks DEF TxT
  <2> HIDE DEF started
  <2>2. CASE state.st = "connected" /\ state.prof /\ state.node # None /\ stored # {}
    <3>1. tx' = started /\ Goto(c, "wait") /\ cmd[c].pc = "reapply" /\ connMuFree
      BY <1>10, <2>2 DEF ReapplyLive, started
    <3> QED BY <1>2, <1>4, <2>1, <2>2, <3>1 DEF connMuFree
  <2>3. CASE ~(state.st = "connected" /\ state.prof /\ state.node # None /\ stored # {})
    <3>1. tx' = tx /\ Reply(c) /\ cmd[c].pc = "reapply" /\ connMuFree
      BY <1>10, <2>3 DEF ReapplyLive
    <3> QED BY <1>3, <1>4, <2>3, <3>1 DEF connMuFree
  <2> QED BY <2>2, <2>3
<1> QED BY <1>5, <1>6, <1>7, <1>8, <1>9, <1>10 DEF Handler

\* The end of a transaction sets free the lock and the command that held it.
LEMMA UnlockMoves ==
  ASSUME Shape, LockInv, NEW pc \in {"ready", "start", "remove"}, Unlock(pc)
  PROVE  /\ tx' = NoTx /\ \A d \in Clients : d # tx.c => cmd'[d] = cmd[d]
         /\ tx.c # None => tx.c \in Clients /\ cmd'[tx.c].pc = pc
         /\ tx.c = None => cmd' = cmd
<1>1. cmd \in [Clients -> CmdT] /\ (tx.c # None => tx.c \in Clients)
  BY DEF Shape, TxT
<1> QED BY <1>1, Blanks DEF Unlock, CmdT

\* How a transaction goes on, or ends.
LEMMA TransactionMoves ==
  ASSUME Shape, LockInv, Transaction
  PROVE  /\ UNCHANGED <<stored, opts, off>>
         /\ \/ /\ cmd' = cmd /\ shutdown' = shutdown /\ tx'.c = tx.c /\ tx'.why = tx.why /\ tx'.g = tx.g
               /\ tx'.node = tx.node /\ tx'.avoid = tx.avoid
               /\ \/ tx.pc = "select" /\ tx'.pc = "confirm"
                  \/ tx.pc = "confirm" /\ tx'.pc = "commit"
                  \/ tx.pc = "prepare" /\ tx'.pc = "bump"
                  \/ tx.pc = "bump" /\ tx'.pc = "stop"
                  \/ tx.pc = "stop" /\ tx'.pc = "drain"
                  \/ tx.pc = "drain" /\ tx'.pc = "release" /\ tx.why = "disconnect"
            \/ /\ tx' = NoTx /\ tx.pc \in {"select", "confirm", "commit", "prepare", "drain", "release"}
               /\ \E pc \in {"ready", "start", "remove"} : Unlock(pc)
               /\ shutdown' = IF tx.pc = "drain" /\ tx.why = "close" THEN "restore" ELSE shutdown
<1> DEFINE Ends == tx' = NoTx /\ \E pc \in {"ready", "start", "remove"} : Unlock(pc)
           Goes(pc) == /\ cmd' = cmd /\ tx'.pc = pc /\ tx'.c = tx.c /\ tx'.why = tx.why /\ tx'.g = tx.g
                       /\ tx'.node = tx.node /\ tx'.avoid = tx.avoid
<1>0. tx \in TxT
  BY DEF Shape
<1>1. \A pc \in {"ready", "start", "remove"} : Unlock(pc) => Ends
  BY DEF Unlock
<1>2. \A pc : cmd' = cmd /\ tx' = [tx EXCEPT !.pc = pc] => Goes(pc)
  BY <1>0 DEF TxT
<1>3. CASE SwitchSelect
  <2>1. tx.pc = "select" /\ shutdown' = shutdown /\ UNCHANGED <<stored, opts, off>>
    BY <1>3 DEF SwitchSelect, settings
  <2>2. Unlock("start") \/ (cmd' = cmd /\ tx' = [tx EXCEPT !.pc = "confirm"])
    BY <1>3 DEF SwitchSelect, SwitchFailed
  <2> QED BY <1>1, <1>2, <2>1, <2>2
<1>4. CASE SwitchConfirm
  <2>1. tx.pc = "confirm" /\ shutdown' = shutdown /\ UNCHANGED <<stored, opts, off>>
    BY <1>4 DEF SwitchConfirm, settings
  <2>2. Unlock("start") \/ (cmd' = cmd /\ tx' = [tx EXCEPT !.pc = "commit"])
    BY <1>4 DEF SwitchConfirm, SwitchFailed
  <2> QED BY <1>1, <1>2, <2>1, <2>2
<1>5. CASE SwitchCommit
  BY <1>1, <1>5 DEF SwitchCommit, settings
<1>6. CASE StartConnectPrepare
  <2>1. tx.pc = "prepare" /\ shutdown' = shutdown /\ UNCHANGED <<stored, opts, off>>
    BY <1>6 DEF StartConnectPrepare, settings
  <2>2. \/ Unlock("ready")
        \/ /\ tx' = [tx EXCEPT !.pc = "bump", !.chain = chain, !.todo = candidates(tx, chain)]
           /\ cmd' = cmd
    BY <1>6 DEF StartConnectPrepare
  <2>3. CASE Unlock("ready")
    BY <1>1, <2>1, <2>3
  <2>4. CASE /\ tx' = [tx EXCEPT !.pc = "bump", !.chain = chain, !.todo = candidates(tx, chain)]
             /\ cmd' = cmd
    <3> DEFINE found == candidates(tx, chain)
    <3>1. tx' = [tx EXCEPT !.pc = "bump", !.chain = chain, !.todo = found] /\ cmd' = cmd
      BY <2>4
    <3> HIDE DEF found
    <3>2. Goes("bump")
      BY <1>0, <3>1 DEF TxT
    <3> QED BY <2>1, <3>2
  <2> QED BY <2>2, <2>3, <2>4
<1>7. CASE TeardownSupersede
  <2>1. Goes("stop")
    BY <1>0, <1>7 DEF TeardownSupersede, TxT
  <2> QED BY <1>7, <2>1 DEF TeardownSupersede, settings
<1>8. CASE TeardownStop
  BY <1>2, <1>8 DEF TeardownStop, settings
<1>9. CASE TeardownDrained
  <2>1. tx.pc = "drain" /\ UNCHANGED <<stored, opts, off>>
    BY <1>9 DEF TeardownDrained, settings
  <2>2. \/ Unlock("ready") /\ shutdown' = shutdown /\ tx.why \in Starts
        \/ Unlock("remove") /\ shutdown' = IF tx.why = "close" THEN "restore" ELSE shutdown
        \/ tx.why = "disconnect" /\ tx' = [tx EXCEPT !.pc = "release"] /\ cmd' = cmd /\ shutdown' = shutdown
    BY <1>9 DEF TeardownDrained
  <2> QED BY <1>1, <1>2, <2>1, <2>2 DEF Starts
<1>10. CASE DisconnectRelease
  BY <1>1, <1>10 DEF DisconnectRelease, settings
<1> QED BY <1>3, <1>4, <1>5, <1>6, <1>7, <1>8, <1>9, <1>10 DEF Transaction

\* Who else takes connMu: a health watcher, a detached reconnect, Close().
LEMMA OthersMove ==
  ASSUME Shape, Next, ~Transaction, \A c \in Clients : ~Command(c) /\ ~Handler(c)
  PROVE  /\ cmd' = cmd /\ opts' = opts
         /\ \/ tx' = tx
            \/ /\ tx.pc = "free" /\ tx'.c = None
               /\ \/ \E g \in Gens : /\ HealthWatchTryLock(g) /\ tx'.pc = "select" /\ tx'.why = "autoswitch"
                                     /\ tx'.g = g /\ tx'.node = health[g].target
                                     /\ tx'.avoid = state.node /\ state.node = health[g].active
                                     /\ liveSwitchTarget(health[g].target)
                  \/ \E o \in off : /\ StartConnectIfCurrent(o) /\ tx'.pc = "prepare" /\ tx'.why = o.kind
                                    /\ isCurrent(o.gen) /\ o.kind \in Starts
                  \/ \E o \in off : /\ FailoverStart(o) /\ tx'.pc = "prepare" /\ tx'.why = "failover"
                                    /\ isCurrent(o.gen) /\ state.st = "connected" /\ state.node = o.node
                                    /\ tx'.avoid = o.node /\ state' = Report("health_reconnecting", o.node)
                                    /\ stored # {}
                  \/ CloseTeardown /\ tx'.pc = "bump" /\ tx'.why = "close"
         /\ shutdown' # shutdown =>
              CloseTeardown \/ (tx' = tx /\ (CloseBegin \/ CloseRestore \/ CloseJoin))
<1> DEFINE Keeps == cmd' = cmd /\ opts' = opts /\ tx' = tx /\ shutdown' = shutdown
<1>1. ASSUME NEW g \in Gens, Loop(g) PROVE Keeps
  BY <1>1 DEF Loop, RunFallbackNext, AttemptNodeCheck, AttemptNodeStart, AttemptNodeProbe,
     RecordSuccess, ReconcileConnectingOptions, AttemptNodeUndo, AttemptsFailed, settings
<1>2. ASSUME NEW g \in Gens, WatchProcess(g) \/ TunWatcher(g) \/ HealthWatchExit(g) \/ HealthFailover(g)
      PROVE  Keeps
  BY <1>2 DEF WatchProcess, TunWatcher, WatchProcessExit, WatchProcessDied, WatchProcessHandle,
     WatchTunInit, WatchTunExit, WatchTunStop, HealthWatchExit, HealthFailover, settings
<1>3. CASE Environment
  BY <1>3 DEF Environment, ProcessDies, ReconcileSystemProxyWhenIdle, RefreshProfile, StoreUpdate,
     HealthWatchDegraded, WatchTunLost, settings
<1>4. ASSUME NEW g \in Gens, HealthWatchTryLock(g), tx' # tx
      PROVE  /\ tx'.pc = "select" /\ tx'.why = "autoswitch" /\ tx'.g = g /\ tx'.node = health[g].target
             /\ tx'.avoid = state.node /\ state.node = health[g].active /\ tx.pc = "free" /\ tx'.c = None
             /\ liveSwitchTarget(health[g].target)
  <2>1. /\ tx' = [NoTx EXCEPT !.pc = "select", !.why = "autoswitch", !.g = g, !.node = health[g].target,
                              !.avoid = state.node]
        /\ connMuFree /\ liveSwitchTarget(health[g].target) /\ state.node = health[g].active
    BY <1>4 DEF HealthWatchTryLock
  <2> QED BY <2>1, Blanks DEF TxT, connMuFree
<1>5. ASSUME NEW o \in off, StartConnectIfCurrent(o), tx' # tx
      PROVE  /\ tx'.pc = "prepare" /\ tx'.why = o.kind /\ tx.pc = "free" /\ tx'.c = None
             /\ isCurrent(o.gen) /\ o.kind \in Starts
  <2>1. tx' = [NoTx EXCEPT !.pc = "prepare", !.why = o.kind, !.p = o.p, !.node = o.node]
        /\ connMuFree /\ isCurrent(o.gen) /\ o.kind # "failover"
    BY <1>5 DEF StartConnectIfCurrent, notSuperseded
  <2>2. o.kind \in Starts
    BY <2>1 DEF Shape, Detached, Starts
  <2> QED BY <2>1, <2>2, Blanks DEF TxT, connMuFree
<1>6. ASSUME NEW o \in off, FailoverStart(o), tx' # tx
      PROVE  /\ tx'.pc = "prepare" /\ tx'.why = "failover" /\ tx.pc = "free" /\ tx'.c = None
             /\ isCurrent(o.gen) /\ state.st = "connected" /\ state.node = o.node
             /\ tx'.avoid = o.node /\ state' = Report("health_reconnecting", o.node) /\ stored # {}
  <2>1. /\ tx' = [NoTx EXCEPT !.pc = "prepare", !.why = "failover", !.p = stored, !.avoid = o.node]
        /\ state' = Report("health_reconnecting", o.node)
        /\ connMuFree /\ isCurrent(o.gen) /\ state.st = "connected" /\ state.node = o.node /\ stored # {}
    BY <1>6 DEF FailoverStart, allowAutoRecovery
  <2> QED BY <2>1, Blanks DEF TxT, connMuFree
<1>7. CloseTeardown => tx'.pc = "bump" /\ tx'.why = "close" /\ tx.pc = "free" /\ tx'.c = None
  BY Blanks DEF CloseTeardown, TxT, connMuFree
<1>8. ASSUME NEW g \in Gens, HealthWatchTryLock(g)
      PROVE  cmd' = cmd /\ opts' = opts /\ shutdown' = shutdown
  BY <1>8 DEF HealthWatchTryLock, settings
<1>9. DetachedRun => cmd' = cmd /\ opts' = opts /\ shutdown' = shutdown
  BY DEF DetachedRun, StartConnectIfCurrent, FailoverStart, settings
<1>10. Close \/ Closed =>
         /\ cmd' = cmd /\ opts' = opts
         /\ CloseTeardown \/ tx' = tx
         /\ shutdown' # shutdown => CloseBegin \/ CloseTeardown \/ CloseRestore \/ CloseJoin
  BY DEF Close, Closed, CloseBegin, CloseTeardown, CloseRestore, CloseJoin, settings, vars
<1>11. CASE Close \/ Closed
  BY <1>7, <1>10, <1>11 DEF CloseBegin, CloseRestore, CloseJoin
<1>12. CASE \E g \in Gens : HealthWatchTryLock(g)
  BY <1>4, <1>8, <1>12
<1>13. CASE DetachedRun
  BY <1>5, <1>6, <1>9, <1>13 DEF DetachedRun
<1>14. CASE \E g \in Gens : Loop(g) \/ WatchProcess(g) \/ TunWatcher(g) \/ HealthWatchExit(g) \/ HealthFailover(g)
  BY <1>1, <1>2, <1>14
<1> QED BY <1>3, <1>11, <1>12, <1>13, <1>14 DEF Next, HealthWatcher

\* Commands, the transaction and Close() stay agreed.
LEMMA LockStep ==
  ASSUME Shape, LockInv, [Next]_<<vars, scene>>
  PROVE  LockInv'
<1>0. /\ cmd \in [Clients -> CmdT] /\ None \notin Clients /\ (tx.c # None => tx.c \in Clients)
      /\ Ready.pc = "ready" /\ NoTx.pc = "free" /\ NoTx.why = "none" /\ NoTx.c = None
  BY Blanks, NoneAssumption DEF Shape, TxT
<1>1. CASE UNCHANGED <<vars, scene>>
  BY <1>1 DEF vars, LockInv, reapplyDue, Reapplies, Commands
<1> SUFFICES ASSUME Next PROVE LockInv'
  BY <1>1
<1>2. Reapplies' <=> Reapplies
  BY DEF Next, Reapplies, Commands
<1>3. ASSUME NEW c \in Clients, Command(c) PROVE LockInv'
  <2>1. /\ tx' = tx /\ shutdown' = "no" /\ shutdown = "no" /\ cmd[c] = Ready /\ tx.c # c
        /\ \A d \in Clients \ {c} : cmd'[d] = cmd[d]
        /\ cmd'[c].pc = "reapply" => Reapplies
    BY <1>0, <1>3, CommandMoves DEF LockInv
  <2>2. reapplyDue' => reapplyDue \/ Reapplies
    BY <2>1 DEF reapplyDue
  <2> QED BY <1>0, <1>2, <2>1, <2>2 DEF LockInv
<1>4. ASSUME NEW c \in Clients, Handler(c) PROVE LockInv'
  <2>1. shutdown = "no" /\ shutdown' = "no"
    BY <1>0, <1>4, HandlerMoves DEF LockInv
  <2>2. /\ cmd[c].pc # "wait" /\ \A d \in Clients \ {c} : cmd'[d] = cmd[d]
        /\ \/ tx' = tx /\ cmd'[c].pc \in {"ready", "start", "lock"}
           \/ /\ tx.pc = "free" /\ tx'.c = c /\ cmd'[c].pc = "wait"
              /\ \/ tx'.pc = "select" /\ tx'.why = "switch"
                 \/ tx'.pc = "prepare" /\ tx'.why = "connect"
                 \/ tx'.pc = "bump" /\ tx'.why \in {"disconnect", "remove"}
                 \/ tx'.pc = "prepare" /\ tx'.why = "reapply" /\ cmd[c].pc = "reapply"
    BY <1>0, <1>4, HandlerMoves
  <2>3. reapplyDue' => reapplyDue
    BY <2>2 DEF reapplyDue
  <2> QED BY <1>0, <1>2, <2>1, <2>2, <2>3 DEF LockInv, Starts
<1>5. CASE Transaction
  <2>1. CASE tx' # NoTx
    <3>1. /\ cmd' = cmd /\ shutdown' = shutdown /\ tx'.c = tx.c /\ tx'.why = tx.why
          /\ \/ tx.pc = "select" /\ tx'.pc = "confirm"
             \/ tx.pc = "confirm" /\ tx'.pc = "commit"
             \/ tx.pc = "prepare" /\ tx'.pc = "bump"
             \/ tx.pc = "bump" /\ tx'.pc = "stop"
             \/ tx.pc = "stop" /\ tx'.pc = "drain"
             \/ tx.pc = "drain" /\ tx'.pc = "release" /\ tx.why = "disconnect"
      BY <1>5, <2>1, TransactionMoves
    <3> QED BY <1>0, <1>2, <3>1 DEF LockInv, reapplyDue, Starts
  <2>2. CASE tx' = NoTx
    <3>1. tx.pc # "free" /\ (shutdown' = "no" <=> shutdown = "no")
      BY <1>0, <1>5, <2>2, TransactionMoves DEF LockInv
    <3>2. PICK pc \in {"ready", "start", "remove"} : Unlock(pc)
      BY <1>0, <1>5, <2>2, TransactionMoves
    <3>3. \A d \in Clients : d # tx.c => cmd'[d] = cmd[d]
      BY <3>2, UnlockMoves
    <3>4. tx.c # None => tx.c \in Clients /\ cmd'[tx.c].pc = pc /\ cmd[tx.c].pc = "wait"
      BY <3>2, UnlockMoves DEF LockInv
    <3>5. reapplyDue' => reapplyDue
      BY <1>0, <2>2, <3>3, <3>4 DEF reapplyDue
    <3>6. shutdown' # "no" => \A d \in Clients : cmd'[d] = Ready
      BY <1>0, <3>1, <3>3, <3>4 DEF LockInv
    <3> QED BY <1>0, <1>2, <2>2, <3>5, <3>6 DEF LockInv
  <2> QED BY <2>1, <2>2
<1>6. CASE ~Transaction /\ \A c \in Clients : ~Command(c) /\ ~Handler(c)
  <2>1. cmd' = cmd
    BY <1>6, OthersMove
  <2>2. shutdown' # "no" => \A c \in Clients : cmd'[c] = Ready
    BY <1>6, <2>1, OthersMove DEF LockInv, CloseBegin, CloseTeardown, CloseRestore, CloseJoin
  <2>3. CASE tx' = tx
    <3>1. tx.why = "close" => shutdown' = shutdown
      BY <1>0, <1>6, <2>3, OthersMove
         DEF LockInv, CloseBegin, CloseTeardown, CloseRestore, CloseJoin, connMuFree
    <3> QED BY <1>2, <2>1, <2>2, <2>3, <3>1 DEF LockInv, reapplyDue
  <2>4. CASE tx' # tx
    <3>1. /\ tx.pc = "free" /\ tx'.c = None
          /\ \/ tx'.pc = "select" /\ tx'.why = "autoswitch"
             \/ tx'.pc = "prepare" /\ tx'.why \in Starts /\ tx'.why # "reapply"
             \/ tx'.pc = "bump" /\ tx'.why = "close" /\ shutdown' = "busy"
      <4>1. \A o \in off : o.kind # "reapply"
        BY DEF Shape, Detached
      <4> QED BY <1>6, <2>4, <4>1, OthersMove DEF Starts, CloseTeardown
    <3> QED BY <1>0, <1>2, <2>1, <2>2, <3>1 DEF LockInv, reapplyDue, Starts
  <2> QED BY <2>3, <2>4
<1> QED BY <1>3, <1>4, <1>5, <1>6

\* Nobody holds the lock of a daemon that has just started.
LEMMA LockInit == Init => LockInv
BY Blanks DEF Init, LockInv, reapplyDue

\* Only Accepted() turns protection green: no native call does, and no other step.
LEMMA NothingGreens ==
  ASSUME Shape
  PROVE  /\ \A r \in prepareProtection : r.g.status = "active" => guard.status = "active"
         /\ \A r \in releaseProtection : r.g.status = "active" => guard.status = "active"
         /\ \A on : \A r \in killSwitchProtection(on) : r.g.status = "active" => guard.status = "active"
         /\ Interrupted(guard).status # "active"
<1>1. guard \in GuardT
  BY DEF Shape
<1>2. /\ \A t : Confirm(guard, t).status # "active"
      /\ ConfirmOff(guard).status # "active" /\ Fail(guard).status # "active"
      /\ Interrupted(guard).status # "active"
  BY <1>1 DEF GuardT, Confirm, ConfirmOff, Fail, Interrupted
<1>3. \A good : good.status # "active" => \A r \in Native(good) : r.g.status # "active"
  BY <1>2 DEF Native
<1>4. \A r \in prepareProtection : r.g.status = "active" => guard.status = "active"
  BY <1>2, <1>3 DEF prepareProtection
<1>5. \A r \in releaseProtection : r.g.status = "active" => guard.status = "active"
  BY <1>2, <1>3 DEF releaseProtection
<1>6. \A on : \A r \in killSwitchProtection(on) : r.g.status = "active" => guard.status = "active"
  BY <1>2, <1>3, <1>5 DEF killSwitchProtection
<1> QED BY <1>2, <1>4, <1>5, <1>6

\* Commands change no report; they may only take the lock.
LEMMA StatusCommands ==
  ASSUME Shape, FenceInv, LockInv, StatusInv, scene' = scene, NEW c \in Clients, Command(c) \/ Handler(c)
  PROVE  StatusInv'
<1>0. /\ UNCHANGED <<gen, state, goroutines, off, engine, proxy, shutdown>> /\ (Reapplies' <=> Reapplies)
      /\ (ProxyFails' <=> ProxyFails)
  BY CommandMoves, HandlerMoves DEF Reapplies, Commands, ProxyFails
<1>1. shutdown = "no"
  BY CommandMoves, HandlerMoves, Blanks DEF LockInv
<1>2. \/ tx' = tx
      \/ /\ tx.pc = "free"
         /\ \/ tx'.pc = "select" /\ tx'.why = "switch" /\ state.st = "connected"
            \/ tx'.pc = "prepare" /\ tx'.why = "connect"
            \/ tx'.pc = "bump" /\ tx'.why \in {"disconnect", "remove"}
            \/ tx'.pc = "prepare" /\ tx'.why = "reapply" /\ state.st = "connected"
  BY CommandMoves, HandlerMoves DEF liveSwitchTarget
<1>3. guard'.status = "active" => guard.status = "active"
  <2>1. CASE Handler(c)
    BY <2>1, HandlerMoves
  <2>2. CASE Command(c)
    BY <2>2, NothingGreens DEF Command, HandleConnect, HandleDisconnect, HandleRemoveProfile, HandleSetOption,
       HandleSetKillSwitch, HandleSetMultihop
  <2> QED BY <2>1, <2>2
<1>4. (Superseding' <=> Superseding) /\ (tx.pc = "free" => tx.why = "none" /\ ~Superseding)
  BY <1>2 DEF Superseding, LockInv
<1>5. (wgZero' <=> wgZero) /\ \A g \in Gens : Walking(g)' <=> Walking(g)
  BY <1>0 DEF goroutines, wgZero, Walking
<1>6. gen \in Gens /\ UNCHANGED <<gen, state, off, proc, watcher, proxy, shutdown>>
  BY <1>0 DEF Shape, goroutines, engine
<1>7. IdleDown' /\ WalkIsReported'
  BY <1>2, <1>5, <1>6 DEF StatusInv, IdleDown, WalkIsReported
<1>8. OffIsOutdated' /\ RelaunchIsDue' /\ DeathIsSeen'
  BY <1>2, <1>4, <1>5, <1>6 DEF StatusInv, OffIsOutdated, RelaunchIsDue, DeathIsSeen
<1>9. WatchedIsConnected' /\ GreenIsWatched' /\ ErrorIsDown'
  BY <1>0, <1>2, <1>3, <1>4, <1>6 DEF StatusInv, WatchedIsConnected, GreenIsWatched, ErrorIsDown
<1>10. CloseIsFinal'
  BY <1>1, <1>6 DEF CloseIsFinal
<1> QED BY <1>7, <1>8, <1>9, <1>10 DEF StatusInv

\* What the callers of startConnect() report.
LEMMA OnErrorReports ==
  ASSUME NEW now
  PROVE  /\ tx.why \in {"reapply", "relaunch"} => OnError(now).st = "error"
         /\ tx.why = "failover" => OnError(now).st = "connected" /\ OnError(now).node = tx.avoid /\ OnError(now).prof
         /\ tx.why \notin {"reapply", "relaunch", "failover"} => OnError(now) = now
<1>1. \A st, n : Report(st, n).st = st /\ Report(st, n).node = n /\ Report(st, n).prof
  BY DEF Report
<1>2. CASE tx.why = "reapply"
  BY <1>1, <1>2 DEF OnError
<1>3. CASE tx.why = "relaunch"
  BY <1>1, <1>3 DEF OnError
<1>4. CASE tx.why = "failover"
  BY <1>1, <1>4 DEF OnError
<1>5. CASE tx.why \notin {"reapply", "relaunch", "failover"}
  BY <1>5 DEF OnError
<1> QED BY <1>2, <1>3, <1>4, <1>5

\* The transaction: a switch keeps the connection it moves, a refused start leaves what was there,
\* and teardown() ends everything before it reports.
LEMMA StatusTransaction ==
  ASSUME Shape, FenceInv, LockInv, StatusInv, ProxyOwed, scene' = scene, Transaction, Shape', FenceInv'
  PROVE  StatusInv'
<1>0. /\ off' = off /\ (Reapplies' <=> Reapplies) /\ (ProxyFails' <=> ProxyFails)
      /\ NoTx.pc = "free" /\ NoTx.why = "none" /\ gen \in Gens /\ gen \in Nat
  BY Blanks, TransactionMoves, BoundsAssumption DEF Reapplies, Commands, ProxyFails, Shape, Gens
<1>1. shutdown \notin {"restore", "join", "closed"}
  BY DEF StatusInv, CloseIsFinal, Transaction, SwitchSelect, SwitchConfirm, SwitchCommit, StartConnectPrepare,
     TeardownSupersede, TeardownStop, TeardownDrained, DisconnectRelease
<1>2. \A st, n : Report(st, n).st = st
  BY DEF Report
<1>3. CASE SwitchSelect \/ SwitchConfirm \/ SwitchCommit
  <2>1. /\ UNCHANGED <<gen, loop, watcher, off, proc, proxy, guard, shutdown>>
        /\ tx.pc \in {"select", "confirm", "commit"}
        /\ state' = state \/ state'.st = "connected"
    BY <1>2, <1>3 DEF SwitchSelect, SwitchConfirm, SwitchCommit, engine
  <2>2. /\ tx'.pc \in {"confirm", "commit", "free"} /\ (tx'.pc = "free" => tx'.why = "none")
        /\ tx'.pc # "free" => tx'.why = tx.why
    BY <1>0, <2>1, TransactionMoves
  <2>3. tx.why \in {"switch", "autoswitch"} /\ state.st # "idle" /\ ~Walking(gen)
    BY <2>1 DEF LockInv, StatusInv, IdleDown, WalkIsReported
  <2>4. ~Superseding /\ ~Superseding' /\ (Walking(gen)' <=> Walking(gen))
    BY <2>1, <2>2 DEF Superseding, Walking
  <2>5. IdleDown' /\ WalkIsReported' /\ OffIsOutdated'
    BY <2>1, <2>3, <2>4 DEF StatusInv, IdleDown, WalkIsReported, OffIsOutdated
  <2>6. RelaunchIsDue' /\ DeathIsSeen'
    BY <2>1, <2>2, <2>3, <2>4 DEF StatusInv, RelaunchIsDue, DeathIsSeen
  <2>7. WatchedIsConnected' /\ GreenIsWatched' /\ ErrorIsDown' /\ CloseIsFinal'
    BY <1>0, <1>1, <2>1, <2>3, <2>4
       DEF StatusInv, WatchedIsConnected, GreenIsWatched, ErrorIsDown, CloseIsFinal
  <2> QED BY <2>5, <2>6, <2>7 DEF StatusInv
<1>4. CASE StartConnectPrepare
  <2>1. /\ UNCHANGED <<gen, loop, watcher, health, tunwatch, off, proc, proxy, shutdown>> /\ tx.pc = "prepare"
        /\ tx.why \in Starts
    BY <1>4 DEF StartConnectPrepare, goroutines, engine, LockInv
  <2>2. guard'.status = "active" => guard.status = "active"
    BY <1>4, NothingGreens DEF StartConnectPrepare
  <2>3. \/ tx'.pc = "free" /\ tx'.why = "none" /\ state' = OnError(state)
        \/ tx'.pc = "bump" /\ tx'.why = tx.why /\ state' = state
    <3>1. \/ tx' = NoTx /\ state' = OnError(state)
          \/ tx'.pc = "bump" /\ state' = state
      BY <1>4 DEF StartConnectPrepare, Unlock, Shape, TxT
    <3> QED BY <1>0, <2>1, <3>1, TransactionMoves
  <2>4. ~Superseding /\ ~Superseding' /\ (wgZero' <=> wgZero) /\ \A g \in Gens : Walking(g)' <=> Walking(g)
    BY <2>1, <2>3 DEF Superseding, Walking, wgZero
  <2>5. CASE state' = state
    <3>1. IdleDown' /\ WalkIsReported'
      BY <1>0, <2>1, <2>3, <2>4, <2>5 DEF StatusInv, IdleDown, WalkIsReported, Starts
    <3>2. OffIsOutdated' /\ RelaunchIsDue' /\ DeathIsSeen'
      BY <1>0, <2>1, <2>3, <2>4 DEF StatusInv, OffIsOutdated, RelaunchIsDue, DeathIsSeen
    <3>3. tx.why = "failover" /\ tx'.pc = "free" => state.st = "connected"
      BY <2>3, <2>5, OnErrorReports
    <3>4. WatchedIsConnected'
      BY <1>0, <2>1, <2>3, <2>5, <3>3 DEF StatusInv, WatchedIsConnected
    <3>5. GreenIsWatched' /\ ErrorIsDown' /\ CloseIsFinal'
      BY <1>0, <1>1, <2>1, <2>2, <2>4, <2>5 DEF StatusInv, GreenIsWatched, ErrorIsDown, CloseIsFinal
    <3> QED BY <3>1, <3>2, <3>4, <3>5 DEF StatusInv
  <2>6. CASE state' # state
    <3>1. /\ tx'.pc = "free" /\ tx'.why = "none" /\ state' = OnError(state)
          /\ tx.why \in {"reapply", "relaunch", "failover"}
      BY <2>3, <2>6, OnErrorReports
    <3>2. ~Walking(gen)
      BY <2>1, <3>1 DEF StatusInv, WalkIsReported
    <3>3. state'.st \in {"error", "connected"} /\ (state'.st = "error" => tx.why \in {"reapply", "relaunch"})
      BY <3>1, OnErrorReports
    <3>4. IdleDown' /\ WalkIsReported' /\ OffIsOutdated' /\ RelaunchIsDue' /\ DeathIsSeen'
      BY <1>0, <2>1, <2>4, <3>1, <3>2, <3>3
         DEF StatusInv, IdleDown, WalkIsReported, OffIsOutdated, RelaunchIsDue, DeathIsSeen
    <3>5. tx.why = "reapply" => Reapplies
      BY DEF LockInv, reapplyDue
    <3>6. tx.why = "relaunch" => watcher[gen].pc = "none" /\ proc = 0
      BY <2>1, <2>4 DEF StatusInv, RelaunchIsDue, FenceInv, ProcessOwned, Superseding
    <3>7. WatchedIsConnected' /\ ErrorIsDown'
      BY <1>0, <2>1, <3>3, <3>5, <3>6 DEF WatchedIsConnected, ErrorIsDown
    <3>8. GreenIsWatched' /\ CloseIsFinal'
      BY <1>0, <1>1, <2>1, <2>2, <2>4 DEF StatusInv, GreenIsWatched, CloseIsFinal
    <3> QED BY <3>4, <3>7, <3>8 DEF StatusInv
  <2> QED BY <2>5, <2>6
<1>5. CASE TeardownSupersede
  <2>1. /\ gen' = gen + 1 /\ UNCHANGED <<state, loop, watcher, health, tunwatch, off, proc, proxy, guard, shutdown>>
        /\ tx.pc = "bump" /\ tx'.pc = "stop" /\ tx'.why = tx.why /\ gen + 1 \in Gens
    BY <1>5, <1>0, BoundsAssumption DEF TeardownSupersede, goroutines, Shape, TxT, Gens
  <2>2. ~Superseding /\ Superseding' /\ (wgZero' <=> wgZero)
    BY <2>1 DEF Superseding, wgZero
  <2>3. \A o \in off : o.gen <= gen' /\ o.gen < gen' /\ o.gen # gen'
    <3>1. \A o \in off : o.gen <= gen /\ o.gen \in Nat
      BY DEF StatusInv, OffIsOutdated, Shape, Detached, Gens
    <3> QED BY <1>0, <2>1, <3>1
  <2>4. ~Walking(gen)' /\ watcher'[gen'].pc = "none"
    BY <1>0, <2>1, <2>2 DEF FenceInv, OneGeneration, Running, Walking
  <2>5. IdleDown' /\ WalkIsReported' /\ OffIsOutdated'
    BY <1>0, <2>1, <2>2, <2>3, <2>4 DEF StatusInv, IdleDown, WalkIsReported, OffIsOutdated
  <2>6. RelaunchIsDue' /\ DeathIsSeen'
    BY <1>0, <2>1, <2>3 DEF StatusInv, RelaunchIsDue, DeathIsSeen
  <2>7. WatchedIsConnected' /\ GreenIsWatched' /\ ErrorIsDown' /\ CloseIsFinal'
    BY <1>1, <2>1, <2>2, <2>4 DEF WatchedIsConnected, GreenIsWatched, ErrorIsDown, CloseIsFinal
  <2> QED BY <2>5, <2>6, <2>7 DEF StatusInv
<1>6. CASE TeardownStop
  <2>1. /\ UNCHANGED <<gen, state, loop, watcher, health, tunwatch, off, proxy, guard, shutdown>> /\ proc' = 0
        /\ tx.pc = "stop" /\ tx'.pc = "drain" /\ tx'.why = tx.why
    BY <1>6 DEF TeardownStop, goroutines, Shape, TxT
  <2>2. Superseding /\ Superseding' /\ (wgZero' <=> wgZero) /\ (Walking(gen)' <=> Walking(gen))
    BY <2>1 DEF Superseding, wgZero, Walking
  <2>3. IdleDown' /\ WalkIsReported' /\ OffIsOutdated'
    BY <2>1, <2>2 DEF StatusInv, IdleDown, WalkIsReported, OffIsOutdated
  <2>4. RelaunchIsDue' /\ DeathIsSeen'
    BY <2>1, <2>2 DEF StatusInv, RelaunchIsDue, DeathIsSeen
  <2>5. WatchedIsConnected' /\ GreenIsWatched' /\ ErrorIsDown' /\ CloseIsFinal'
    BY <1>0, <1>1, <2>1, <2>2 DEF StatusInv, WatchedIsConnected, GreenIsWatched, ErrorIsDown, CloseIsFinal
  <2> QED BY <2>3, <2>4, <2>5 DEF StatusInv
<1>7. CASE TeardownDrained
  <2>1. /\ UNCHANGED <<watcher, health, tunwatch, off, proc>> /\ tx.pc = "drain" /\ wgZero
        /\ guard' = Interrupted(guard)
    BY <1>7 DEF TeardownDrained, engine
  <2>2. proc = 0 /\ Superseding /\ watcher[gen].pc = "none"
    BY <1>0, <2>1 DEF wgZero, Shape, FenceInv, ProcessOwned, FreshGeneration, Superseding, Gens
  <2>3. guard'.status # "active"
    BY <2>1, NothingGreens
  <2>4. \A o \in off : o.gen < gen /\ o.gen \in Nat
    BY <2>2 DEF StatusInv, OffIsOutdated, Shape, Detached, Gens
  <2>5. PICK r \in disarmSystemProxy(proxy) :
          /\ proxy' = r.px
          /\ \/ /\ tx.why \in Starts /\ gen < MaxGen /\ gen' = gen + 1 /\ r.ok
                /\ state' = Report("connecting", None) /\ Unlock("ready") /\ shutdown' = shutdown
             \/ /\ tx.why \in Starts /\ ~r.ok
                /\ state' = OnError(CleanupFailed) /\ Unlock("ready")
                /\ UNCHANGED <<gen, loop, shutdown>>
             \/ /\ tx.why \notin Starts
                /\ state' = IF r.ok THEN Idle ELSE CleanupFailed
                /\ IF tx.why = "disconnect"
                   THEN tx' = [tx EXCEPT !.pc = "release"] /\ UNCHANGED cmd
                   ELSE Unlock("remove")
                /\ shutdown' = IF tx.why = "close" THEN "restore" ELSE shutdown
                /\ UNCHANGED <<gen, loop>>
    BY <1>7 DEF TeardownDrained
  <2>6. r.ok => ~proxy'.os /\ ~proxy'.armed
    <3>1. proxy \in ProxyT
      BY DEF Shape
    <3>2. r.ok => (r.px = [proxy EXCEPT !.applied = FALSE] /\ ~proxy.armed) \/ r.px = NoProxy
      <4>1. CASE ~proxy.armed
        BY <4>1 DEF disarmSystemProxy
      <4>2. CASE proxy.armed
        BY <4>2 DEF disarmSystemProxy
      <4> QED BY <4>1, <4>2
    <3>3. ~proxy.armed => ~proxy.os
      BY DEF ProxyOwed
    <3> QED BY <2>5, <3>1, <3>2, <3>3 DEF NoProxy, ProxyT
  <2>7. ~Superseding' /\ tx'.pc \in {"free", "release"} /\ (tx'.pc = "free" => tx'.why = "none")
        /\ (tx'.pc = "release" => tx'.why = "disconnect" /\ tx.why = "disconnect")
    BY <1>0, <2>1, TransactionMoves DEF Superseding
  <2>8. DeathIsSeen' /\ GreenIsWatched'
    BY <2>1, <2>2, <2>3 DEF DeathIsSeen, GreenIsWatched
  <2>9. CASE gen' = gen + 1 /\ state' = Report("connecting", None) /\ shutdown' = shutdown
    <3>1. state'.st = "connecting"
      BY <1>2, <2>9
    <3>2. watcher'[gen'].pc = "none"
      <4>1. gen' \in Gens
        BY DEF Shape
      <4> QED BY <2>1, <4>1 DEF wgZero
    <3>3. IdleDown' /\ WalkIsReported' /\ WatchedIsConnected' /\ ErrorIsDown'
      BY <2>7, <3>1, <3>2 DEF IdleDown, WalkIsReported, WatchedIsConnected, ErrorIsDown
    <3>4. OffIsOutdated' /\ RelaunchIsDue'
      BY <1>0, <2>1, <2>4, <2>7, <2>9 DEF OffIsOutdated, RelaunchIsDue
    <3>5. CloseIsFinal'
      BY <1>1, <2>9 DEF CloseIsFinal
    <3> QED BY <2>8, <3>3, <3>4, <3>5 DEF StatusInv
  <2>10. CASE UNCHANGED <<gen, loop>>
    <3>1. ~Walking(gen)' /\ wgZero'
      BY <1>0, <2>1, <2>10 DEF Walking, wgZero
    <3>2. state'.st = "idle" => r.ok /\ tx.why \notin Starts
      <4>1. CleanupFailed.st = "error"
        BY DEF CleanupFailed
      <4>2. OnError(CleanupFailed).st # "idle"
        BY <4>1, OnErrorReports
      <4> QED BY <1>2, <2>5, <4>1, <4>2
    <3>3. IdleDown'
      BY <2>1, <2>2, <2>4, <2>6, <2>7, <2>10, <3>1, <3>2 DEF IdleDown
    <3>4. WalkIsReported' /\ WatchedIsConnected' /\ ErrorIsDown'
      BY <2>1, <2>2, <2>10, <3>1 DEF WalkIsReported, WatchedIsConnected, ErrorIsDown
    <3>5. OffIsOutdated' /\ RelaunchIsDue'
      BY <1>0, <2>1, <2>4, <2>7, <2>10 DEF OffIsOutdated, RelaunchIsDue
    <3>6. shutdown' = shutdown \/ (shutdown' = "restore" /\ tx'.pc = "free")
      BY <2>5, <1>0 DEF Unlock
    <3>7. CloseIsFinal'
      BY <1>0, <1>1, <2>1, <2>2, <2>4, <2>10, <3>1, <3>6 DEF CloseIsFinal
    <3> QED BY <2>8, <3>3, <3>4, <3>5, <3>7 DEF StatusInv
  <2> QED BY <2>5, <2>9, <2>10
<1>8. CASE DisconnectRelease
  <2>1. /\ UNCHANGED <<gen, state, loop, watcher, health, tunwatch, off, proc, proxy, shutdown>> /\ tx.pc = "release"
    BY <1>8 DEF DisconnectRelease, goroutines, engine
  <2>2. guard'.status = "active" => guard.status = "active"
    BY <1>8, NothingGreens DEF DisconnectRelease
  <2>3. tx'.pc = "free" /\ tx'.why = "none"
    BY <1>0, <1>8 DEF DisconnectRelease, Unlock
  <2>4. ~Superseding /\ ~Superseding' /\ (wgZero' <=> wgZero) /\ (Walking(gen)' <=> Walking(gen))
    BY <2>1, <2>3 DEF Superseding, wgZero, Walking
  <2>5. IdleDown' /\ WalkIsReported' /\ OffIsOutdated' /\ RelaunchIsDue' /\ DeathIsSeen'
    BY <2>1, <2>3, <2>4 DEF StatusInv, IdleDown, WalkIsReported, OffIsOutdated, RelaunchIsDue, DeathIsSeen
  <2>6. WatchedIsConnected' /\ GreenIsWatched' /\ ErrorIsDown' /\ CloseIsFinal'
    BY <1>0, <1>1, <2>1, <2>2, <2>4 DEF StatusInv, WatchedIsConnected, GreenIsWatched, ErrorIsDown, CloseIsFinal
  <2> QED BY <2>5, <2>6 DEF StatusInv
<1> QED BY <1>3, <1>4, <1>5, <1>6, <1>7, <1>8 DEF Transaction

\* A walk reports nothing while it goes on, and turns nothing green.
LEMMA StatusWalks ==
  ASSUME Shape, FenceInv, LockInv, StatusInv, scene' = scene, NEW g \in Gens, Walking(g),
         UNCHANGED <<gen, state, watcher, health, tunwatch, off, tx, shutdown>>,
         \A h \in Gens \ {g} : loop'[h] = loop[h],
         proc' \in {0, proc, g}, guard'.status = "active" => guard.status = "active"
  PROVE  StatusInv'
<1>1. /\ Running(g) /\ gen \in Gens /\ (Reapplies' <=> Reapplies)
      /\ state.st # "idle" /\ shutdown \notin {"restore", "join", "closed"}
  BY DEF Running, Walking, Shape, Reapplies, Commands, StatusInv, IdleDown, CloseIsFinal, wgZero
<1>2. (Superseding' <=> Superseding) /\ (~Superseding => g = gen)
  BY <1>1 DEF Superseding, FenceInv, OneGeneration
<1>3. Walking(gen)' => Walking(gen)
  BY <1>1 DEF Walking
<1>4. IdleDown' /\ WalkIsReported' /\ OffIsOutdated'
  BY <1>1, <1>2, <1>3 DEF StatusInv, IdleDown, WalkIsReported, OffIsOutdated
<1>5. RelaunchIsDue'
  <2> SUFFICES ASSUME (\E o \in off : o.kind = "relaunch" /\ o.gen = gen) \/ (tx.why = "relaunch" /\ tx.pc = "prepare")
               PROVE  FALSE
    BY DEF RelaunchIsDue
  <2>1. ~Walking(gen) /\ gen \in Nat
    BY DEF StatusInv, RelaunchIsDue, Shape, Gens
  <2>2. Superseding
    BY <1>2, <2>1
  <2> QED BY <2>1, <2>2 DEF StatusInv, OffIsOutdated, Superseding
<1>6. DeathIsSeen'
  BY DEF StatusInv, DeathIsSeen, FenceInv, WalkThenWatch
<1>7. WatchedIsConnected' /\ GreenIsWatched'
  BY <1>1, <1>2 DEF StatusInv, WatchedIsConnected, GreenIsWatched
<1>8. ErrorIsDown' /\ CloseIsFinal'
  BY <1>1, <1>2 DEF StatusInv, ErrorIsDown, WalkIsReported, CloseIsFinal
<1> QED BY <1>4, <1>5, <1>6, <1>7, <1>8 DEF StatusInv

\* The loop: it reports connected when it starts the watchers, and an error when nothing of it is left.
LEMMA StatusLoop ==
  ASSUME Shape, Shape', FenceInv, LockInv, StatusInv, scene' = scene, NEW g \in Gens, Loop(g)
  PROVE  StatusInv'
<1> USE LoopMoves
<1>0. /\ loop \in [Gens -> LoopT] /\ gen \in Gens /\ proc \in Gens /\ gen \in Nat
      /\ (Reapplies' <=> Reapplies)
  BY DEF Shape, Gens, Reapplies, Commands
<1>1. CASE RunFallbackNext(g)
  <2>1. /\ Walking(g) /\ UNCHANGED <<gen, state, watcher, health, tunwatch, off, tx, shutdown, guard>>
        /\ proc' \in {0, proc} /\ \A h \in Gens \ {g} : loop'[h] = loop[h]
    <3>1. ASSUME NEW n \in loop[g].todo,
                 loop' = [loop EXCEPT ![g].pc = "check", ![g].node = n, ![g].strat = 1,
                                      ![g].todo = @ \ {n}]
          PROVE  \A h \in Gens \ {g} : loop'[h] = loop[h]
      BY <1>0, <3>1 DEF LoopT
    <3> QED BY <1>1, <3>1 DEF RunFallbackNext, Walking
  <2> QED BY <2>1, StatusWalks
<1>2. CASE AttemptNodeCheck(g) \/ AttemptNodeStart(g)
  BY <1>2, StatusWalks DEF AttemptNodeCheck, AttemptNodeStart, Walking
<1>3. CASE AttemptNodeProbe(g)
  <2>1. /\ Walking(g) /\ UNCHANGED <<gen, state, watcher, health, tunwatch, off, tx, shutdown, guard>>
        /\ proc' \in {0, proc} /\ \A h \in Gens \ {g} : loop'[h] = loop[h]
    BY <1>0, <1>3 DEF AttemptNodeProbe, GiveUpNode, Walking
  <2> QED BY <2>1, StatusWalks
<1>4. CASE AttemptNodeUndo(g)
  <2>1. guard'.status # "active"
    BY <1>4, NothingGreens DEF AttemptNodeUndo
  <2> QED BY <1>4, <2>1, StatusWalks DEF AttemptNodeUndo, Walking
<1>5. CASE RecordSuccess(g)
  <2>1. /\ Walking(g) /\ UNCHANGED <<gen, off, tx, shutdown, proc>>
        /\ \A h \in Gens : loop[h].pc # "reconcile"
    BY <1>5 DEF RecordSuccess, Walking, protectionOpFree
  <2>3. \A built : \A a \in activateProtectionLocked(built) : a.g.status = "active" => guard.status = "active"
    <3>1. \A t : Confirm(guard, t).status # "active" /\ Fail(guard).status # "active"
      BY DEF Confirm, Fail, Shape, GuardT
    <3> QED BY <3>1, ZenonT(30) DEF activateProtectionLocked, Native
  <2>4. CASE /\ LoopTo(g, "undo") /\ UNCHANGED <<state, watcher, health, tunwatch>>
             /\ guard'.status = "active" => guard.status = "active"
    BY <2>1, <2>4, StatusWalks
  <2>5. CASE /\ isCurrent(g) /\ LoopTo(g, "reconcile") /\ state' = Report("connected", loop[g].node)
             /\ watcher' = [watcher EXCEPT ![g] = [pc |-> "watch", node |-> loop[g].node]]
    <3>1. g = gen /\ ~Walking(gen)' /\ state'.st = "connected" /\ watcher'[gen].pc = "watch"
          /\ \A h \in Gens \ {gen} : watcher'[h] = watcher[h]
      <4>1. state'.st = "connected" /\ g = gen /\ loop'[g].pc = "reconcile" /\ watcher \in [Gens -> WatcherT]
        BY <2>5 DEF isCurrent, Report, Shape
      <4>2. watcher'[g].pc = "watch" /\ \A h \in Gens \ {g} : watcher'[h] = watcher[h]
        BY <2>5, <4>1
      <4> QED BY <2>1, <4>1, <4>2 DEF Walking
    <3>2. shutdown' \notin {"restore", "join", "closed"} /\ (Superseding' <=> Superseding)
      BY <2>1 DEF StatusInv, CloseIsFinal, wgZero, Walking, Superseding
    <3>3. IdleDown' /\ WalkIsReported' /\ OffIsOutdated'
      BY <2>1, <3>1, <3>2 DEF StatusInv, IdleDown, WalkIsReported, OffIsOutdated
    <3>4. RelaunchIsDue' /\ DeathIsSeen'
      BY <1>0, <2>1, <3>1 DEF StatusInv, RelaunchIsDue, DeathIsSeen
    <3>5. WatchedIsConnected' /\ GreenIsWatched' /\ ErrorIsDown' /\ CloseIsFinal'
      BY <2>1, <3>1, <3>2 DEF WatchedIsConnected, GreenIsWatched, ErrorIsDown, CloseIsFinal
    <3> QED BY <3>3, <3>4, <3>5 DEF StatusInv
  <2> QED BY <1>5, <2>3, <2>4, <2>5 DEF RecordSuccess
<1>6. CASE ReconcileConnectingOptions(g)
  <2>1. /\ loop[g].pc = "reconcile" /\ Exit(g) /\ UNCHANGED <<gen, state, watcher, tx, proc, guard, shutdown>>
        /\ \A o \in off' : o \in off \/ (o.kind = "reconcile" /\ o.gen = g)
    BY <1>6 DEF ReconcileConnectingOptions, engine
  <2>2. g = gen /\ ~Superseding /\ ~Superseding' /\ ~Walking(gen)'
    BY <1>0, <2>1 DEF FenceInv, ReconcilesFirst, Superseding, Walking
  <2>3. state.st # "idle" /\ shutdown \notin {"restore", "join", "closed"}
    BY <2>1 DEF StatusInv, IdleDown, CloseIsFinal, wgZero
  <2>4. IdleDown' /\ WalkIsReported' /\ OffIsOutdated'
    BY <1>0, <2>1, <2>2, <2>3 DEF StatusInv, IdleDown, WalkIsReported, OffIsOutdated
  <2>5. RelaunchIsDue' /\ DeathIsSeen'
    BY <1>0, <2>1, <2>2 DEF StatusInv, RelaunchIsDue, DeathIsSeen
  <2>6. WatchedIsConnected' /\ GreenIsWatched' /\ ErrorIsDown' /\ CloseIsFinal'
    BY <1>0, <2>1, <2>2, <2>3 DEF StatusInv, WatchedIsConnected, GreenIsWatched, ErrorIsDown, CloseIsFinal
  <2> QED BY <2>4, <2>5, <2>6 DEF StatusInv
<1>7. CASE AttemptsFailed(g)
  <2>1. /\ Walking(g) /\ Exit(g) /\ state'.st = "error" /\ (proc # 0 => proc # g)
        /\ UNCHANGED <<gen, watcher, off, tx, proc, guard, shutdown>>
    BY <1>7 DEF AttemptsFailed, Walking, engine, Report, FenceInv, Parked
  <2>2. Running(g) /\ (~Superseding => g = gen) /\ (Superseding => ~Running(gen))
    BY <1>0, <2>1 DEF Walking, Running, FenceInv, OneGeneration
  <2>3. watcher[gen].pc = "none" /\ ~Walking(gen)' /\ (Superseding' <=> Superseding)
    BY <1>0, <2>1, <2>2 DEF FenceInv, WalkThenWatch, Running, Walking, Superseding
  <2>4. Superseding \/ proc = 0
    BY <2>1, <2>2 DEF FenceInv, ProcessOwned, Superseding
  <2>5. shutdown \notin {"restore", "join", "closed"}
    BY <2>1 DEF StatusInv, CloseIsFinal, wgZero, Walking
  <2>6. IdleDown' /\ WalkIsReported' /\ OffIsOutdated'
    BY <2>1, <2>3 DEF StatusInv, IdleDown, WalkIsReported, OffIsOutdated
  <2>7. RelaunchIsDue' /\ DeathIsSeen'
    BY <2>1, <2>3 DEF StatusInv, RelaunchIsDue, DeathIsSeen
  <2>8. WatchedIsConnected' /\ GreenIsWatched' /\ ErrorIsDown' /\ CloseIsFinal'
    BY <2>1, <2>3, <2>4, <2>5 DEF StatusInv, WatchedIsConnected, GreenIsWatched, ErrorIsDown, CloseIsFinal
  <2> QED BY <2>6, <2>7, <2>8 DEF StatusInv
<1> QED BY <1>1, <1>2, <1>3, <1>4, <1>5, <1>6, <1>7 DEF Loop

\* The watchers: the process watcher reports a death once the process is gone, the health watcher
\* switches only what is connected.
LEMMA StatusWatchers ==
  ASSUME Shape, Shape', FenceInv, LockInv, StatusInv, scene' = scene, NEW g \in Gens,
         WatchProcess(g) \/ HealthWatcher(g) \/ TunWatcher(g) \/ HealthWatchDegraded(g) \/ WatchTunLost(g)
  PROVE  StatusInv'
<1>0. /\ gen \in Gens /\ proc \in Gens /\ gen \in Nat /\ watcher \in [Gens -> WatcherT]
      /\ (Reapplies' <=> Reapplies)
  BY DEF Shape, Gens, Reapplies, Commands
<1>1. /\ UNCHANGED <<gen, loop, shutdown>>
      /\ \/ watcher[g].pc # "none" \/ health[g].pc # "none" \/ tunwatch[g] # "none"
  BY DEF WatchProcess, HealthWatcher, TunWatcher, WatchProcessExit, WatchProcessDied, WatchProcessHandle,
     HealthWatchExit, HealthWatchTryLock, HealthFailover, HealthWatchDegraded, WatchTunInit, WatchTunExit,
     WatchTunStop, WatchTunLost
<1>2. /\ Running(g) /\ g <= gen /\ (Superseding => g < gen /\ ~Running(gen)) /\ (~Superseding => g = gen)
      /\ state.st # "idle" /\ shutdown' \notin {"restore", "join", "closed"}
      /\ \A h \in Gens : Walking(h)' <=> Walking(h)
  BY <1>0, <1>1 DEF Running, FenceInv, OneGeneration, StatusInv, IdleDown, CloseIsFinal, wgZero, Walking
<1>3. CASE WatchProcessHandle(g)
  <2>1. /\ watcher[g].pc = "died" /\ watcher' = [watcher EXCEPT ![g] = NoWatcher]
        /\ guard' = Interrupted(guard) /\ tx' = tx /\ proc' = proc
        /\ state' = state \/ state'.st = "error"
        /\ \A o \in off' : o \in off \/ o.gen = g
    BY <1>3 DEF WatchProcessHandle, Report, engine
  <2>2. guard'.status # "active" /\ (Superseding' <=> Superseding)
        /\ watcher'[g].pc = "none" /\ \A h \in Gens \ {g} : watcher'[h] = watcher[h]
    BY <1>0, <2>1, NothingGreens, Blanks DEF Superseding
  <2>3. watcher'[gen].pc = "none" /\ ~Walking(gen) /\ (Superseding \/ proc = 0)
    <3>1. CASE Superseding
      BY <1>0, <1>2, <2>2, <3>1 DEF Running, Walking
    <3>2. CASE ~Superseding
      BY <1>0, <1>2, <2>1, <2>2, <3>2 DEF FenceInv, WalkThenWatch, ProcessOwned, StatusInv, DeathIsSeen, Superseding
    <3> QED BY <3>1, <3>2
  <2>4. IdleDown' /\ WalkIsReported' /\ OffIsOutdated'
    BY <1>0, <1>1, <1>2, <2>1, <2>2, <2>3 DEF StatusInv, IdleDown, WalkIsReported, OffIsOutdated
  <2>5. RelaunchIsDue'
    <3>1. CASE Superseding
      BY <1>0, <1>1, <1>2, <2>1, <2>3, <3>1 DEF StatusInv, RelaunchIsDue, Superseding
    <3>2. CASE ~Superseding
      BY <1>1, <1>2, <2>1, <2>3, <3>2 DEF RelaunchIsDue
    <3> QED BY <3>1, <3>2
  <2>6. DeathIsSeen' /\ WatchedIsConnected' /\ GreenIsWatched' /\ ErrorIsDown' /\ CloseIsFinal'
    BY <1>0, <1>1, <1>2, <2>1, <2>2, <2>3
       DEF StatusInv, DeathIsSeen, WatchedIsConnected, GreenIsWatched, ErrorIsDown, CloseIsFinal
  <2> QED BY <2>4, <2>5, <2>6 DEF StatusInv
<1>4. CASE WatchProcessExit(g) \/ WatchProcessDied(g)
  <2>1. /\ UNCHANGED <<state, off, tx, proc, guard>>
        /\ watcher[g].pc = "watch" /\ \A h \in Gens \ {g} : watcher'[h] = watcher[h]
        /\ \/ g # gen /\ watcher'[g].pc = "none"
           \/ g = gen /\ proc # gen /\ watcher'[g].pc = "died"
    BY <1>0, <1>4, Blanks DEF WatchProcessExit, WatchProcessDied, isCurrent, engine, WatcherT
  <2>2. Superseding' <=> Superseding
    BY <2>1 DEF Superseding
  <2>3. IdleDown' /\ WalkIsReported' /\ OffIsOutdated'
    BY <1>0, <1>1, <1>2, <2>1, <2>2 DEF StatusInv, IdleDown, WalkIsReported, OffIsOutdated
  <2>4. RelaunchIsDue' /\ DeathIsSeen'
    BY <1>0, <1>1, <1>2, <2>1 DEF StatusInv, RelaunchIsDue, DeathIsSeen
  <2>5. WatchedIsConnected' /\ GreenIsWatched' /\ ErrorIsDown' /\ CloseIsFinal'
    BY <1>0, <1>1, <1>2, <2>1, <2>2
       DEF StatusInv, WatchedIsConnected, GreenIsWatched, ErrorIsDown, CloseIsFinal
  <2> QED BY <2>3, <2>4, <2>5 DEF StatusInv
<1>5. CASE HealthWatcher(g) \/ TunWatcher(g) \/ HealthWatchDegraded(g) \/ WatchTunLost(g)
  <2>1. /\ UNCHANGED <<state, watcher>> /\ proc' \in {0, proc}
        /\ guard' = guard \/ guard' = Interrupted(guard)
        /\ \A o \in off' : o \in off \/ (o.gen = g /\ o.kind = "failover")
    <3>1. CASE HealthWatcher(g) \/ HealthWatchDegraded(g)
      <4>1. CASE HealthFailover(g)
        <5>1. PICK r : \/ off' = off \cup {[kind |-> "failover", gen |-> g, node |-> health[g].active, p |-> r]}
                       \/ off' = off
          BY <4>1 DEF HealthFailover
        <5> QED BY <4>1, <5>1 DEF HealthFailover, engine
      <4>2. CASE HealthWatchExit(g) \/ HealthWatchTryLock(g) \/ HealthWatchDegraded(g)
        BY <4>2 DEF HealthWatchExit, HealthWatchTryLock, HealthWatchDegraded, engine
      <4> QED BY <3>1, <4>1, <4>2 DEF HealthWatcher
    <3>2. CASE TunWatcher(g) \/ WatchTunLost(g)
      BY <3>2 DEF TunWatcher, WatchTunInit, WatchTunExit, WatchTunStop, WatchTunLost, engine
    <3> QED BY <1>5, <3>1, <3>2
  <2>2. guard'.status = "active" => guard.status = "active"
    BY <2>1, NothingGreens
  <2>3. \/ tx' = tx
        \/ tx.pc = "free" /\ tx'.pc = "select" /\ tx'.why = "autoswitch" /\ state.st = "connected"
    <3>1. CASE HealthWatchTryLock(g)
      <4>1. \/ tx' = tx
            \/ /\ tx' = [NoTx EXCEPT !.pc = "select", !.why = "autoswitch", !.g = g,
                                     !.node = health[g].target, !.avoid = state.node]
               /\ connMuFree /\ state.st = "connected"
        BY <3>1 DEF HealthWatchTryLock, liveSwitchTarget
      <4> QED BY <4>1, Blanks DEF TxT, connMuFree
    <3>2. CASE HealthWatchExit(g) \/ HealthFailover(g) \/ TunWatcher(g) \/ HealthWatchDegraded(g) \/ WatchTunLost(g)
      BY <3>2 DEF TunWatcher, HealthWatchExit, HealthFailover, HealthWatchDegraded, WatchTunInit, WatchTunExit,
         WatchTunStop, WatchTunLost
    <3> QED BY <1>5, <3>1, <3>2 DEF HealthWatcher
  <2>4. (Superseding' <=> Superseding) /\ (tx'.pc = tx.pc \/ ~Superseding)
    BY <2>3 DEF Superseding
  <2>5. IdleDown' /\ WalkIsReported'
    BY <1>0, <1>1, <1>2, <2>1, <2>3 DEF StatusInv, IdleDown, WalkIsReported
  <2>6. OffIsOutdated'
    BY <1>0, <1>1, <1>2, <2>1, <2>4 DEF StatusInv, OffIsOutdated
  <2>7. RelaunchIsDue' /\ DeathIsSeen'
    BY <1>0, <1>1, <1>2, <2>1, <2>3 DEF StatusInv, RelaunchIsDue, DeathIsSeen
  <2>8. WatchedIsConnected' /\ GreenIsWatched' /\ ErrorIsDown' /\ CloseIsFinal'
    BY <1>0, <1>1, <1>2, <2>1, <2>2, <2>3, <2>4
       DEF StatusInv, WatchedIsConnected, GreenIsWatched, ErrorIsDown, CloseIsFinal
  <2> QED BY <2>5, <2>6, <2>7, <2>8 DEF StatusInv
<1> QED BY <1>3, <1>4, <1>5 DEF WatchProcess

\* Detached reconnects find what they left or do nothing, and nothing comes back after Close().
LEMMA StatusOthers ==
  ASSUME Shape, Shape', FenceInv, LockInv, StatusInv, ProxyOwed, scene' = scene,
         \/ DetachedRun \/ Close \/ Closed \/ ProcessDies \/ ReconcileSystemProxyWhenIdle
         \/ \E servers \in SUBSET scene.nodes : RefreshProfile(servers)
         \/ StoreUpdate
  PROVE  StatusInv'
<1>0. /\ gen \in Gens /\ gen \in Nat /\ (Reapplies' <=> Reapplies) /\ (ProxyFails' <=> ProxyFails)
      /\ tx.pc = "free" => tx.why = "none" /\ ~Superseding
  BY DEF Shape, Gens, Reapplies, Commands, ProxyFails, LockInv, Superseding
<1>1. /\ UNCHANGED <<gen, loop, watcher, health, tunwatch, guard>> /\ proc' \in {0, proc}
      /\ (wgZero' <=> wgZero) /\ \A h \in Gens : Walking(h)' <=> Walking(h)
  <2>1. UNCHANGED <<gen, loop, watcher, health, tunwatch, guard>> /\ proc' \in {0, proc}
    BY DEF DetachedRun, StartConnectIfCurrent, FailoverStart, Close, CloseBegin, CloseTeardown,
       CloseRestore, CloseJoin, Closed, ProcessDies, ReconcileSystemProxyWhenIdle, RefreshProfile,
       StoreUpdate, goroutines, engine, vars
  <2> QED BY <2>1 DEF wgZero, Walking
<1>2. DeathIsSeen'
  BY <1>1 DEF StatusInv, DeathIsSeen
<1>3. CASE tx' = tx /\ off' \subseteq off
  <2>1. /\ Superseding' <=> Superseding
        /\ state' = state \/ (state.st = "error" /\ state'.st = "error")
    <3>1. CASE ReconcileSystemProxyWhenIdle
      <4>1. state.st = "error"
        BY <3>1 DEF ReconcileSystemProxyWhenIdle, StatusInv, IdleDown
      <4>2. [state EXCEPT !.st = "error"].st = "error"
        BY DEF Shape, States
      <4> QED BY <1>3, <3>1, <4>1, <4>2 DEF ReconcileSystemProxyWhenIdle, Superseding
    <3>2. CASE DetachedRun
      <4>1. \A o : FailoverStart(o) /\ tx' = tx => state' = state
        <5> SUFFICES ASSUME NEW o, FailoverStart(o), tx' = tx, state' # state PROVE FALSE
          OBVIOUS
        <5>1. tx' = [NoTx EXCEPT !.pc = "prepare", !.why = "failover", !.p = stored, !.avoid = o.node]
              /\ tx.pc = "free"
          BY DEF FailoverStart, connMuFree
        <5> QED BY <5>1, Blanks DEF TxT
      <4> QED BY <1>3, <3>2, <4>1 DEF DetachedRun, StartConnectIfCurrent, Superseding
    <3>3. CASE \/ Close \/ Closed \/ ProcessDies \/ StoreUpdate
               \/ \E servers \in SUBSET scene.nodes : RefreshProfile(servers)
      BY <1>3, <3>3 DEF Close, CloseBegin, CloseTeardown, CloseRestore, CloseJoin, Closed, ProcessDies,
         RefreshProfile, StoreUpdate, vars, Superseding
    <3> QED BY <3>1, <3>2, <3>3
  <2>2. /\ proxy' = proxy \/ \E r \in disarmSystemProxy(proxy) : proxy' = r.px
        /\ \A r \in disarmSystemProxy(proxy) : r.px.armed => proxy.armed
    <3>1. proxy' = proxy \/ \E r \in disarmSystemProxy(proxy) : proxy' = r.px
      BY DEF DetachedRun, StartConnectIfCurrent, FailoverStart, Close, CloseBegin, CloseTeardown,
         CloseRestore, CloseJoin, Closed, ProcessDies, ReconcileSystemProxyWhenIdle, RefreshProfile,
         StoreUpdate, vars
    <3>2. ASSUME ~proxy.armed, NEW r \in disarmSystemProxy(proxy) PROVE ~r.px.armed
      BY <3>2 DEF disarmSystemProxy, Shape, ProxyT
    <3> QED BY <3>1, <3>2
  <2>3. proxy.os => proxy.armed
    BY DEF ProxyOwed
  <2>4. proxy'.os => proxy.os
    BY <2>2, <2>3, ProxyCalls DEF Shape
  <2>5. IdleDown'
    BY <1>0, <1>1, <1>3, <2>1, <2>2, <2>4 DEF StatusInv, IdleDown
  <2>6. WalkIsReported' /\ OffIsOutdated' /\ RelaunchIsDue'
    BY <1>0, <1>1, <1>3, <2>1 DEF StatusInv, WalkIsReported, OffIsOutdated, RelaunchIsDue
  <2>7. WatchedIsConnected' /\ GreenIsWatched' /\ ErrorIsDown'
    BY <1>0, <1>1, <1>3, <2>1 DEF StatusInv, WatchedIsConnected, GreenIsWatched, ErrorIsDown
  <2>8. CloseIsFinal'
    <3>1. /\ shutdown' = shutdown \/ CloseBegin \/ CloseRestore \/ CloseJoin
      <4>1. CloseTeardown => tx' # tx
        <5>1. [NoTx EXCEPT !.pc = "bump", !.why = "close"].pc = "bump"
          BY Blanks DEF TxT
        <5> QED BY <5>1 DEF CloseTeardown, connMuFree
      <4> QED BY <1>3, <4>1 DEF DetachedRun, StartConnectIfCurrent, FailoverStart, Close, Closed, ProcessDies,
              ReconcileSystemProxyWhenIdle, RefreshProfile, StoreUpdate, vars
    <3>2. /\ shutdown' \in {"restore", "join", "closed"} => shutdown \in {"restore", "join", "closed"}
          /\ shutdown' \in {"join", "closed"} =>
               shutdown \in {"join", "closed"} \/ CloseRestore
          /\ shutdown' = "closed" => shutdown = "closed" \/ off = {}
      BY <3>1 DEF CloseBegin, CloseRestore, CloseJoin
    <3>3. CloseRestore => (proxy'.os => ProxyFails)
      BY <2>3, ProxyCalls DEF CloseRestore, Shape
    <3> QED BY <1>0, <1>1, <1>3, <2>4, <3>2, <3>3 DEF StatusInv, CloseIsFinal
  <2> QED BY <1>2, <2>5, <2>6, <2>7, <2>8 DEF StatusInv
<1>4. CASE ~(tx' = tx /\ off' \subseteq off)
  <2>1. /\ tx.pc = "free" /\ off' \subseteq off /\ proxy' = proxy /\ proc' = proc
        /\ \/ /\ shutdown' = shutdown /\ state' = state /\ tx'.pc = "prepare"
              /\ \E o \in off : o.gen = gen /\ tx'.why = o.kind /\ o.kind # "failover"
           \/ /\ shutdown' = shutdown /\ state'.st = "health_reconnecting" /\ state.st = "connected"
              /\ tx'.pc = "prepare" /\ tx'.why = "failover" /\ \E o \in off : o.gen = gen
           \/ /\ shutdown = "teardown" /\ shutdown' = "busy" /\ state' = state
              /\ tx'.pc = "bump" /\ tx'.why = "close"
    <3>1. ASSUME NEW o \in off, StartConnectIfCurrent(o), ~(tx' = tx /\ off' \subseteq off)
          PROVE  /\ tx.pc = "free" /\ off' \subseteq off /\ proxy' = proxy /\ proc' = proc /\ o.gen = gen
                 /\ shutdown' = shutdown /\ state' = state /\ tx'.pc = "prepare" /\ tx'.why = o.kind
                 /\ o.kind # "failover"
      <4>1. /\ tx' = [NoTx EXCEPT !.pc = "prepare", !.why = o.kind, !.p = o.p, !.node = o.node]
            /\ UNCHANGED <<proxy, proc, shutdown, state>> /\ o.gen = gen /\ tx.pc = "free" /\ o.kind # "failover"
            /\ off' \subseteq off
        BY <3>1 DEF StartConnectIfCurrent, notSuperseded, isCurrent, connMuFree, engine
      <4> QED BY <4>1, Blanks DEF TxT
    <3>2. ASSUME NEW o \in off, FailoverStart(o), ~(tx' = tx /\ off' \subseteq off)
          PROVE  /\ tx.pc = "free" /\ off' \subseteq off /\ proxy' = proxy /\ proc' = proc /\ o.gen = gen
                 /\ shutdown' = shutdown /\ state'.st = "health_reconnecting" /\ state.st = "connected"
                 /\ tx'.pc = "prepare" /\ tx'.why = "failover"
      <4>1. /\ tx' = [NoTx EXCEPT !.pc = "prepare", !.why = "failover", !.p = stored, !.avoid = o.node]
            /\ UNCHANGED <<proxy, proc, shutdown>> /\ state' = Report("health_reconnecting", o.node)
            /\ o.gen = gen /\ tx.pc = "free" /\ state.st = "connected" /\ off' \subseteq off
        BY <3>2 DEF FailoverStart, allowAutoRecovery, isCurrent, connMuFree, engine
      <4> QED BY <4>1, Blanks DEF TxT, Report
    <3>3. CASE CloseTeardown
      BY <3>3, Blanks DEF CloseTeardown, connMuFree, TxT, engine
    <3>4. CASE DetachedRun
      BY <1>4, <3>1, <3>2, <3>4 DEF DetachedRun
    <3>5. CASE \/ CloseBegin \/ CloseRestore \/ CloseJoin \/ Closed \/ ProcessDies \/ ReconcileSystemProxyWhenIdle
               \/ StoreUpdate \/ \E servers \in SUBSET scene.nodes : RefreshProfile(servers)
      BY <1>4, <3>5 DEF CloseBegin, CloseRestore, CloseJoin, Closed, ProcessDies,
         ReconcileSystemProxyWhenIdle, RefreshProfile, StoreUpdate, vars
    <3> QED BY <3>3, <3>4, <3>5 DEF Close
  <2>2. ~Superseding /\ ~Superseding' /\ shutdown' \notin {"restore", "join", "closed"}
    BY <1>0, <2>1 DEF Superseding, StatusInv, CloseIsFinal
  <2>3. IdleDown'
    BY <1>0, <1>1, <2>1 DEF StatusInv, IdleDown
  <2>4. WalkIsReported' /\ OffIsOutdated' /\ RelaunchIsDue'
    <3>1. \A o \in off : o.kind # "reapply"
      BY DEF Shape, Detached
    <3>2. WalkIsReported'
      BY <1>0, <1>1, <2>1, <3>1 DEF StatusInv, WalkIsReported, RelaunchIsDue
    <3>3. OffIsOutdated' /\ RelaunchIsDue'
      BY <1>0, <1>1, <2>1, <2>2 DEF StatusInv, OffIsOutdated, RelaunchIsDue
    <3> QED BY <3>2, <3>3
  <2>5. WatchedIsConnected' /\ GreenIsWatched' /\ ErrorIsDown' /\ CloseIsFinal'
    BY <1>0, <1>1, <2>1, <2>2 DEF StatusInv, WatchedIsConnected, GreenIsWatched, ErrorIsDown, CloseIsFinal
  <2> QED BY <1>2, <2>3, <2>4, <2>5 DEF StatusInv
<1> QED BY <1>3, <1>4

\* What is reported and what runs, for every step.
LEMMA StatusStep ==
  ASSUME Shape, Shape', ProxyOwed, FenceInv, FenceInv', LockInv, StatusInv, [Next]_<<vars, scene>>
  PROVE  StatusInv'
<1>1. CASE UNCHANGED <<vars, scene>>
  BY <1>1 DEF vars, StatusInv, IdleDown, WalkIsReported, OffIsOutdated, RelaunchIsDue, DeathIsSeen,
     WatchedIsConnected, GreenIsWatched, ErrorIsDown, CloseIsFinal, Superseding, Walking, wgZero,
     Reapplies, Commands, ProxyFails
<1>2. CASE Next
  BY <1>2, StatusCommands, StatusTransaction, StatusLoop, StatusWatchers, StatusOthers DEF Next, Environment
<1> QED BY <1>1, <1>2

\* A daemon that has just started is idle, and says so.
LEMMA StatusInit == Init => StatusInv
<1> SUFFICES ASSUME Init PROVE StatusInv
  OBVIOUS
<1>1. /\ gen = 0 /\ 0 \in Gens /\ state.st = "idle" /\ proc = 0 /\ wgZero /\ ~proxy.os /\ ~proxy.armed
      /\ \A g \in Gens : loop[g].pc = "none" /\ watcher[g].pc = "none"
      /\ tx.pc = "free" /\ tx.why = "none" /\ shutdown = "no"
  BY Blanks, BoundsAssumption DEF Init, wgZero, Gens, NoProxy
<1>2. \A o \in off : o.kind = "autoconnect" /\ o.gen = 0
  BY DEF Init, AutoconnectOnStart
<1>3. guard.status # "active"
  <2>1. \A b : NewGuard(b).status # "active"
    BY DEF NewGuard
  <2>2. Confirm(NewGuard(TRUE), NoTunnel).status # "active" /\ Fail(NewGuard(TRUE)).status # "active"
    BY DEF NewGuard, Confirm, Fail
  <2> QED BY <2>1, <2>2 DEF Init, RecoveredGuards
<1>4. IdleDown /\ WalkIsReported /\ OffIsOutdated /\ RelaunchIsDue /\ DeathIsSeen
  BY <1>1, <1>2 DEF IdleDown, WalkIsReported, OffIsOutdated, RelaunchIsDue, DeathIsSeen, Walking, Superseding
<1>5. WatchedIsConnected /\ GreenIsWatched /\ ErrorIsDown /\ CloseIsFinal
  BY <1>1, <1>3 DEF WatchedIsConnected, GreenIsWatched, ErrorIsDown, CloseIsFinal
<1> QED BY <1>4, <1>5 DEF StatusInv

\* The inductive invariant says what a client may believe.
LEMMA StatusHolds ==
  ASSUME Shape, ProxyOwed, FenceInv, LockInv, StatusInv
  PROVE  StatusIsTrue
<1>0. connMuFree => ~Superseding /\ tx.pc = "free"
  BY DEF connMuFree, Superseding
<1>1. IdleIsDown
  BY DEF StatusInv, IdleDown, IdleIsDown
<1>2. ErrorMeansDown
  BY <1>0 DEF StatusInv, ErrorIsDown, ErrorMeansDown
<1>3. ClosedIsDown
  BY DEF StatusInv, CloseIsFinal, ClosedIsDown, ProxyOwed
<1>4. GreenMeansTunnel
  BY <1>0 DEF StatusInv, GreenIsWatched, WatchedIsConnected, GreenMeansTunnel
<1> QED BY <1>1, <1>2, <1>3, <1>4 DEF StatusIsTrue

\* What the user is shown agrees with what runs, for every scene: idle, error and closed mean down,
\* and green means a watched connection (connect.go: teardown, recordSuccess, watchProcess,
\* startConnectIfCurrent; daemon.go: Close).
THEOREM SessionStatus == Spec => []StatusIsTrue
<1> DEFINE Inv == Shape /\ ProxyOwed /\ FenceInv /\ LockInv /\ StatusInv
<1>1. Init => Inv
  BY ShapeInit, FenceInit, LockInit, StatusInit
<1>2. Inv /\ [Next]_<<vars, scene>> => Inv'
  BY ShapeStep, FenceStep, LockStep, StatusStep
<1>3. Inv => StatusIsTrue
  BY StatusHolds
<1> HIDE DEF Inv
<1> QED BY <1>1, <1>2, <1>3, PTL DEF Spec

-----------------------------------------------------------------------------
(* The reports are earned.                                                 *)

\* The process stays pointed at what is about to be reported: no walk and no live switch move it at
\* the same time.
LEMMA SelStep ==
  ASSUME Shape, FenceInv, LockInv, StatusInv, SelIsPointed, [Next]_<<vars, scene>>
  PROVE  SelIsPointed'
<1>0. /\ gen \in Gens /\ gen \in Nat /\ loop \in [Gens -> LoopT] /\ NoTx.pc = "free" /\ tx \in TxT
  BY Blanks DEF Shape, Gens
<1>1. CASE UNCHANGED <<vars, scene>>
  BY <1>1 DEF vars, SelIsPointed
<1>2. ASSUME NEW c \in Clients, Command(c) \/ Handler(c) PROVE SelIsPointed'
  <2>1. UNCHANGED <<gen, loop, sel>> /\ (tx' = tx \/ tx'.pc \notin {"confirm", "commit"})
    BY <1>2, CommandMoves, HandlerMoves DEF goroutines, engine
  <2> QED BY <2>1 DEF SelIsPointed
<1>3. CASE Transaction
  <2>1. CASE SwitchSelect \/ SwitchConfirm \/ SwitchCommit
    <3>1. /\ UNCHANGED <<gen, loop>> /\ tx.pc \in {"select", "confirm", "commit"}
          /\ \/ tx' = NoTx
             \/ sel' = tx.node /\ tx' = [tx EXCEPT !.pc = "confirm"]
             \/ sel' = sel /\ tx' = [tx EXCEPT !.pc = "commit"] /\ tx.pc = "confirm"
      BY <2>1 DEF SwitchSelect, SwitchConfirm, SwitchCommit, SwitchFailed, Unlock
    <3>2. tx'.pc \in {"confirm", "commit"} => sel' = tx'.node
      BY <1>0, <3>1 DEF SelIsPointed, TxT
    <3>3. loop'[gen'].pc \notin {"probe", "up"}
      BY <3>1 DEF StatusInv, WalkIsReported, Walking
    <3> QED BY <3>2, <3>3 DEF SelIsPointed
  <2>2. CASE StartConnectPrepare \/ TeardownSupersede \/ TeardownStop \/ TeardownDrained \/ DisconnectRelease
    <3>1. sel' = sel /\ tx.pc \notin {"select", "confirm", "commit"}
      BY <2>2 DEF StartConnectPrepare, TeardownSupersede, TeardownStop, TeardownDrained, DisconnectRelease, engine
    <3>2. tx'.pc \notin {"confirm", "commit"}
      BY <1>0, <1>3, <3>1, TransactionMoves
    <3>3. \/ gen' = gen /\ loop' = loop
          \/ loop'[gen'].pc \notin {"probe", "up"}
      <4>1. CASE StartConnectPrepare \/ TeardownStop \/ DisconnectRelease
        BY <4>1 DEF StartConnectPrepare, TeardownStop, DisconnectRelease, goroutines
      <4>2. CASE TeardownSupersede
        <5>1. gen' = gen + 1 /\ gen + 1 \in Gens /\ loop' = loop /\ ~Superseding
          BY <1>0, <4>2, BoundsAssumption DEF TeardownSupersede, goroutines, Superseding, Gens
        <5>2. ~Running(gen + 1)
          BY <1>0, <5>1 DEF FenceInv, OneGeneration
        <5> QED BY <5>1, <5>2 DEF Running
      <4>3. CASE TeardownDrained
        <5>1. \/ gen' = gen /\ loop' = loop
              \/ gen' = gen + 1 /\ gen < MaxGen /\ loop' = [loop EXCEPT ![gen + 1] = NewLoop(tx)]
          BY <4>3 DEF TeardownDrained
        <5>2. gen < MaxGen => gen + 1 \in Gens
          BY <1>0, BoundsAssumption DEF Gens
        <5>3. NewLoop(tx).pc = "next"
          BY Blanks DEF NewLoop, LoopT
        <5> QED BY <1>0, <5>1, <5>2, <5>3
      <4> QED BY <2>2, <4>1, <4>2, <4>3
    <3> QED BY <3>1, <3>2, <3>3 DEF SelIsPointed
  <2> QED BY <1>3, <2>1, <2>2 DEF Transaction
<1>4. ASSUME NEW g \in Gens, Loop(g) PROVE SelIsPointed'
  <2>1. UNCHANGED <<gen, tx>> /\ loop[g].pc # "none"
    BY <1>4 DEF Loop, RunFallbackNext, AttemptNodeCheck, AttemptNodeStart, AttemptNodeProbe, RecordSuccess,
       ReconcileConnectingOptions, AttemptNodeUndo, AttemptsFailed
  <2>2. /\ \A h \in Gens \ {g} : loop'[h] = loop[h]
        /\ \/ sel' = sel /\ loop'[g].pc \notin {"probe", "up"}
           \/ sel' = sel /\ loop[g].pc = "probe" /\ loop'[g].node = loop[g].node
           \/ sel' = loop[g].node /\ loop'[g].node = loop[g].node /\ loop[g].pc = "start"
    <3>1. \A pc : LoopTo(g, pc) => /\ loop'[g].pc = pc /\ loop'[g].node = loop[g].node
                                   /\ \A h \in Gens \ {g} : loop'[h] = loop[h]
      BY <1>0 DEF LoopTo, LoopT
    <3>2. Exit(g) => loop'[g].pc = "none" /\ \A h \in Gens \ {g} : loop'[h] = loop[h]
      BY <1>0, Blanks DEF Exit
    <3>3. CASE RunFallbackNext(g)
      <4>1. ASSUME NEW n \in loop[g].todo,
                   loop' = [loop EXCEPT ![g].pc = "check", ![g].node = n, ![g].strat = 1,
                                        ![g].todo = @ \ {n}]
            PROVE  loop'[g].pc = "check" /\ \A h \in Gens \ {g} : loop'[h] = loop[h]
        BY <1>0, <4>1 DEF LoopT
      <4> QED BY <3>1, <3>2, <3>3, <4>1 DEF RunFallbackNext
    <3>4. CASE AttemptNodeCheck(g) \/ AttemptNodeStart(g)
      BY <3>1, <3>2, <3>4 DEF AttemptNodeCheck, AttemptNodeStart
    <3>5. CASE AttemptNodeProbe(g)
      <4>1. NextStrategy(loop[g]).pc = "check"
        BY <1>0 DEF NextStrategy, LoopT
      <4> QED BY <1>0, <3>1, <3>2, <3>5, <4>1 DEF AttemptNodeProbe, GiveUpNode
    <3>6. CASE RecordSuccess(g)
      BY <3>1, <3>6 DEF RecordSuccess
    <3>7. CASE ReconcileConnectingOptions(g) \/ AttemptNodeUndo(g) \/ AttemptsFailed(g)
      BY <3>1, <3>2, <3>7 DEF ReconcileConnectingOptions, AttemptNodeUndo, AttemptsFailed, engine
    <3> QED BY <1>4, <3>3, <3>4, <3>5, <3>6, <3>7 DEF Loop
  <2>3. loop[g].pc = "start" => /\ tx.pc \notin {"confirm", "commit"}
                                /\ g = gen \/ loop[gen].pc = "none"
    <3> HAVE loop[g].pc = "start"
    <3>1. CASE Superseding
      BY <1>0, <2>1, <3>1 DEF Superseding, FenceInv, OneGeneration, Running
    <3>2. CASE ~Superseding
      BY <2>1, <3>2 DEF FenceInv, OneGeneration, Running, StatusInv, WalkIsReported, Walking
    <3> QED BY <3>1, <3>2
  <2> QED BY <1>0, <2>1, <2>2, <2>3 DEF SelIsPointed
<1>5. CASE Next /\ ~Transaction /\ (\A c \in Clients : ~Command(c) /\ ~Handler(c)) /\ \A g \in Gens : ~Loop(g)
  <2>1. UNCHANGED <<gen, loop, sel>>
    BY <1>5 DEF Next, WatchProcess, WatchProcessExit, WatchProcessDied, WatchProcessHandle, HealthWatcher,
       HealthWatchExit, HealthWatchTryLock, HealthFailover, TunWatcher, WatchTunInit, WatchTunExit, WatchTunStop,
       DetachedRun, StartConnectIfCurrent, FailoverStart, Environment, ProcessDies, ReconcileSystemProxyWhenIdle,
       RefreshProfile, StoreUpdate, HealthWatchDegraded, WatchTunLost, Close, CloseBegin, CloseTeardown,
       CloseRestore, CloseJoin, Closed, vars, goroutines, engine
  <2>2. tx' = tx \/ tx'.pc \notin {"confirm", "commit"}
    BY <1>5, OthersMove
  <2> QED BY <2>1, <2>2 DEF SelIsPointed
<1> QED BY <1>1, <1>2, <1>3, <1>4, <1>5

\* Who reports what.
LEMMA ReportsStep ==
  ASSUME Shape, FenceInv, LockInv, StatusInv, SelIsPointed, Next, state' # state
  PROVE  /\ state'.st = "connected" /\ tx.why # "failover" => sel' = state'.node
         /\ state.st = "idle" => /\ tx.pc = "drain"
                                 /\ tx.why \in {"connect", "autoconnect", "disconnect", "remove", "close"}
<1>0. /\ \A st, n : Report(st, n).st = st /\ Report(st, n).node = n
      /\ CleanupFailed.st = "error" /\ Idle.st = "idle" /\ gen \in Gens
  BY Blanks DEF Report, CleanupFailed, Shape
<1>1. CASE SwitchCommit
  BY <1>0, <1>1 DEF SwitchCommit, engine, SelIsPointed, LockInv, StatusInv, IdleDown
<1>2. CASE StartConnectPrepare
  <2>1. state' = OnError(state)
    BY <1>2 DEF StartConnectPrepare
  <2> QED BY <2>1, OnErrorReports DEF StatusInv, IdleDown
<1>3. CASE TeardownDrained
  <2>1. /\ tx.pc = "drain"
        /\ state' \in {Report("connecting", None), OnError(CleanupFailed), Idle, CleanupFailed}
    BY <1>3 DEF TeardownDrained
  <2>2. state'.st = "connected" => tx.why = "failover"
    BY <1>0, <2>1, OnErrorReports
  <2>3. state.st = "idle" => tx.why \in {"connect", "autoconnect", "disconnect", "remove", "close"}
    BY <2>1 DEF StatusInv, IdleDown, LockInv
  <2> QED BY <2>1, <2>2, <2>3
<1>4. ASSUME NEW g \in Gens, RecordSuccess(g)
      PROVE  state'.st = "connected" /\ sel' = state'.node /\ state.st # "idle"
  <2>1. loop[g].pc = "up" /\ isCurrent(g) /\ state' = Report("connected", loop[g].node) /\ sel' = sel
    BY <1>4 DEF RecordSuccess
  <2> QED BY <1>0, <2>1 DEF isCurrent, SelIsPointed, StatusInv, IdleDown, wgZero
<1>5. ASSUME NEW g \in Gens, AttemptsFailed(g) \/ WatchProcessHandle(g)
      PROVE  state'.st = "error" /\ state.st # "idle"
  BY <1>0, <1>5 DEF AttemptsFailed, WatchProcessHandle, StatusInv, IdleDown, wgZero
<1>6. ASSUME NEW o \in off, FailoverStart(o)
      PROVE  state'.st = "health_reconnecting" /\ state.st # "idle"
  <2>1. PICK allowed \in allowAutoRecovery(o.gen) : allowed /\ state' = Report("health_reconnecting", o.node)
    BY <1>6 DEF FailoverStart
  <2>2. state.st = "connected"
    BY <2>1 DEF allowAutoRecovery
  <2> QED BY <1>0, <2>1, <2>2
<1>7. CASE ReconcileSystemProxyWhenIdle
  BY <1>7 DEF ReconcileSystemProxyWhenIdle, StatusInv, IdleDown, Shape, States
<1>8. CASE Transaction
  BY <1>1, <1>2, <1>3, <1>8 DEF Transaction, SwitchSelect, SwitchConfirm, TeardownSupersede, TeardownStop,
     DisconnectRelease
<1>9. ASSUME NEW c \in Clients, Command(c) \/ Handler(c) PROVE FALSE
  BY <1>9, CommandMoves, HandlerMoves
<1>10. ASSUME NEW g \in Gens, Loop(g) PROVE RecordSuccess(g) \/ AttemptsFailed(g)
  BY <1>10 DEF Loop, RunFallbackNext, AttemptNodeCheck, AttemptNodeStart, AttemptNodeProbe,
     ReconcileConnectingOptions, AttemptNodeUndo
<1>11. ASSUME NEW g \in Gens, WatchProcess(g) \/ HealthWatcher(g) \/ TunWatcher(g) PROVE WatchProcessHandle(g)
  BY <1>11 DEF WatchProcess, WatchProcessExit, WatchProcessDied, HealthWatcher, HealthWatchExit,
     HealthWatchTryLock, HealthFailover, TunWatcher, WatchTunInit, WatchTunExit, WatchTunStop
<1>12. CASE DetachedRun \/ Environment \/ Close \/ Closed
  <2>1. (\E o \in off : FailoverStart(o)) \/ ReconcileSystemProxyWhenIdle
    BY <1>12 DEF DetachedRun, StartConnectIfCurrent, Environment, ProcessDies, RefreshProfile, StoreUpdate,
       HealthWatchDegraded, WatchTunLost, Close, CloseBegin, CloseTeardown, CloseRestore, CloseJoin, Closed, vars
  <2> QED BY <1>6, <1>7, <2>1
<1> QED BY <1>4, <1>5, <1>8, <1>9, <1>10, <1>11, <1>12 DEF Next

\* What is reported was earned, for every scene: a node is reported connected only when the process is
\* pointed at it, and only a holder of connMu takes a session out of the idle state (hotswitch.go:
\* switchNode; connect.go: recordSuccess, startConnectIfCurrent).
THEOREM SessionReports == Spec => ReportsAreEarned
<1> DEFINE Inv == Shape /\ ProxyOwed /\ FenceInv /\ LockInv /\ StatusInv /\ SelIsPointed
           Earned == state' # state =>
             /\ state'.st = "connected" /\ tx.why # "failover" => sel' = state'.node
             /\ state.st = "idle" => /\ tx.pc = "drain"
                                     /\ tx.why \in {"connect", "autoconnect", "disconnect", "remove", "close"}
<1>1. Init => Inv
  <2>1. Init => SelIsPointed
    BY Blanks, BoundsAssumption DEF Init, SelIsPointed, Gens
  <2> QED BY <2>1, ShapeInit, FenceInit, LockInit, StatusInit
<1>2. Inv /\ [Next]_<<vars, scene>> => Inv'
  BY ShapeStep, FenceStep, LockStep, StatusStep, SelStep
<1>3. Inv /\ [Next]_<<vars, scene>> => [Earned]_vars
  <2>1. Inv /\ Next => Earned
    BY ReportsStep
  <2> QED BY <2>1 DEF vars
<1>4. ReportsAreEarned <=> [][Earned]_vars
  BY DEF ReportsAreEarned
<1> HIDE DEF Inv, Earned
<1> QED BY <1>1, <1>2, <1>3, <1>4, PTL DEF Spec

-----------------------------------------------------------------------------
(* The kill switch.                                                        *)

\* Whoever reports a connection, or is about to, names its node.
LEMMA NamedStep ==
  ASSUME Shape, Shape', LockInv, NodesNamed, [Next]_<<vars, scene>>
  PROVE  NodesNamed'
<1>0. /\ gen \in Gens /\ gen \in Nat /\ loop \in [Gens -> LoopT] /\ tx \in TxT
      /\ NoTx.pc = "free" /\ NoTx.why = "none"
      /\ \A st, n : Report(st, n).st = st /\ Report(st, n).node = n /\ Report(st, n).prof
      /\ CleanupFailed.st = "error" /\ Idle.st = "idle"
  BY Blanks DEF Shape, Gens, Report, CleanupFailed
<1> DEFINE Says == \/ state' = state
                   \/ state'.st \notin {"connected", "health_reconnecting"}
                   \/ state'.prof /\ state'.node \in Nodes
<1>1. CASE UNCHANGED <<vars, scene>>
  BY <1>1 DEF vars, NodesNamed
<1>2. ASSUME NEW node, liveSwitchTarget(node) PROVE node \in Nodes /\ state.node \in Nodes
  BY <1>2 DEF liveSwitchTarget, Shape, LiveT, NodesNamed
<1>3. ASSUME NEW c \in Clients, Command(c) \/ Handler(c) PROVE NodesNamed'
  <2>1. UNCHANGED <<state, loop>>
    BY <1>3, CommandMoves, HandlerMoves DEF goroutines
  <2>2. \/ tx' = tx
        \/ tx'.pc = "select" /\ tx'.node \in Nodes /\ tx'.avoid \in Nodes /\ tx'.why = "switch"
        \/ tx'.pc \in {"prepare", "bump"} /\ tx'.why # "failover"
    BY <1>2, <1>3, CommandMoves, HandlerMoves
  <2> QED BY <2>1, <2>2 DEF NodesNamed
<1>4. CASE Transaction
  <2>1. Says
    <3>1. CASE SwitchCommit
      BY <1>0, <3>1 DEF SwitchCommit, NodesNamed
    <3>2. CASE StartConnectPrepare
      <4>1. state' = state \/ state' = OnError(state)
        BY <3>2 DEF StartConnectPrepare
      <4> QED BY <4>1, OnErrorReports DEF NodesNamed
    <3>3. CASE TeardownDrained
      <4>1. state' \in {Report("connecting", None), OnError(CleanupFailed), Idle, CleanupFailed}
        BY <3>3 DEF TeardownDrained
      <4> QED BY <1>0, <4>1, OnErrorReports DEF NodesNamed
    <3> QED BY <1>4, <3>1, <3>2, <3>3 DEF Transaction, SwitchSelect, SwitchConfirm, TeardownSupersede,
            TeardownStop, DisconnectRelease
  <2>2. \A g \in Gens : loop'[g] = loop[g] \/ loop'[g].pc = "next"
    <3>1. loop' = loop \/ \E h \in Gens : loop' = [loop EXCEPT ![h] = NewLoop(tx)]
      <4>1. gen < MaxGen => gen + 1 \in Gens
        BY <1>0, BoundsAssumption DEF Gens
      <4> QED BY <1>4, <4>1 DEF Transaction, SwitchSelect, SwitchConfirm, SwitchCommit, StartConnectPrepare,
              TeardownSupersede, TeardownStop, TeardownDrained, DisconnectRelease, goroutines
    <3>2. NewLoop(tx).pc = "next"
      BY Blanks DEF NewLoop, LoopT
    <3> QED BY <1>0, <3>1, <3>2
  <2>3. \/ tx'.pc = "free" /\ tx'.why = "none"
        \/ /\ tx'.why = tx.why /\ tx'.node = tx.node /\ tx'.avoid = tx.avoid
           /\ tx'.pc \in {"confirm", "commit"} => tx.pc \in {"select", "confirm"}
           /\ tx'.pc # "select"
    BY <1>0, <1>4, TransactionMoves
  <2> QED BY <2>1, <2>2, <2>3 DEF NodesNamed
<1>5. ASSUME NEW g \in Gens, Loop(g) PROVE NodesNamed'
  <2>1. tx' = tx
    BY <1>5 DEF Loop, RunFallbackNext, AttemptNodeCheck, AttemptNodeStart, AttemptNodeProbe, RecordSuccess,
       ReconcileConnectingOptions, AttemptNodeUndo, AttemptsFailed
  <2>2. /\ \A h \in Gens \ {g} : loop'[h] = loop[h]
        /\ \/ loop'[g].pc \notin {"check", "start", "probe", "up"}
           \/ loop'[g].node \in Nodes
    <3>1. \A pc : LoopTo(g, pc) => /\ loop'[g].pc = pc /\ loop'[g].node = loop[g].node
                                   /\ \A h \in Gens \ {g} : loop'[h] = loop[h]
      BY <1>0 DEF LoopTo, LoopT
    <3>2. Exit(g) => loop'[g].pc = "none" /\ \A h \in Gens \ {g} : loop'[h] = loop[h]
      BY <1>0, Blanks DEF Exit
    <3>3. CASE RunFallbackNext(g)
      <4>1. ASSUME NEW n \in loop[g].todo,
                   loop' = [loop EXCEPT ![g].pc = "check", ![g].node = n, ![g].strat = 1,
                                        ![g].todo = @ \ {n}]
            PROVE  loop'[g].node = n /\ n \in Nodes /\ \A h \in Gens \ {g} : loop'[h] = loop[h]
        <5>1. n \in Nodes /\ loop[g] \in LoopT
          BY <1>0 DEF LoopT
        <5> DEFINE rest == loop[g].todo \ {n}
                   job == [loop[g] EXCEPT !.pc = "check", !.node = n, !.strat = 1, !.todo = rest]
        <5>2. loop' = [loop EXCEPT ![g] = job]
          BY <1>0, <4>1
        <5>3. job.node = n
          <6> HIDE DEF rest
          <6> QED BY <5>1 DEF LoopT
        <5> HIDE DEF job
        <5> QED BY <1>0, <5>1, <5>2, <5>3
      <4>2. \/ Exit(g) \/ LoopTo(g, "fail")
            \/ \E n \in loop[g].todo :
                 loop' = [loop EXCEPT ![g].pc = "check", ![g].node = n, ![g].strat = 1,
                                      ![g].todo = @ \ {n}]
        BY <3>3 DEF RunFallbackNext
      <4>3. \/ Exit(g) \/ LoopTo(g, "fail")
            \/ loop'[g].node \in Nodes /\ \A h \in Gens \ {g} : loop'[h] = loop[h]
        BY <4>1, <4>2
      <4> QED BY <3>1, <3>2, <4>3
    <3>4. CASE AttemptNodeCheck(g) \/ AttemptNodeStart(g)
      BY <3>1, <3>2, <3>4 DEF AttemptNodeCheck, AttemptNodeStart, NodesNamed
    <3>5. CASE AttemptNodeProbe(g)
      <4>1. NextStrategy(loop[g]).node = loop[g].node
        BY <1>0 DEF NextStrategy, LoopT
      <4> QED BY <1>0, <3>1, <3>2, <3>5, <4>1 DEF AttemptNodeProbe, GiveUpNode, NodesNamed
    <3>6. CASE RecordSuccess(g)
      BY <3>1, <3>6 DEF RecordSuccess
    <3>7. CASE ReconcileConnectingOptions(g) \/ AttemptNodeUndo(g) \/ AttemptsFailed(g)
      BY <3>1, <3>2, <3>7 DEF ReconcileConnectingOptions, AttemptNodeUndo, AttemptsFailed
    <3> QED BY <1>5, <3>3, <3>4, <3>5, <3>6, <3>7 DEF Loop
  <2>3. Says
    <3>1. CASE RecordSuccess(g)
      <4>1. state' = state \/ (state' = Report("connected", loop[g].node) /\ loop[g].pc = "up")
        BY <3>1 DEF RecordSuccess
      <4>2. loop[g].pc = "up" => loop[g].node \in Nodes
        BY DEF NodesNamed
      <4>3. state' = Report("connected", loop[g].node) => state'.prof /\ state'.node = loop[g].node
        BY <1>0
      <4> QED BY <4>1, <4>2, <4>3
    <3>2. CASE AttemptsFailed(g)
      BY <1>0, <3>2 DEF AttemptsFailed
    <3> QED BY <1>5, <3>1, <3>2 DEF Loop, RunFallbackNext, AttemptNodeCheck, AttemptNodeStart, AttemptNodeProbe,
            ReconcileConnectingOptions, AttemptNodeUndo
  <2> QED BY <2>1, <2>2, <2>3 DEF NodesNamed
<1>6. CASE Next /\ ~Transaction /\ (\A c \in Clients : ~Command(c) /\ ~Handler(c)) /\ \A g \in Gens : ~Loop(g)
  <2>1. loop' = loop
    BY <1>6 DEF Next, WatchProcess, WatchProcessExit, WatchProcessDied, WatchProcessHandle, HealthWatcher,
       HealthWatchExit, HealthWatchTryLock, HealthFailover, TunWatcher, WatchTunInit, WatchTunExit, WatchTunStop,
       DetachedRun, StartConnectIfCurrent, FailoverStart, Environment, ProcessDies, ReconcileSystemProxyWhenIdle,
       RefreshProfile, StoreUpdate, HealthWatchDegraded, WatchTunLost, Close, CloseBegin, CloseTeardown,
       CloseRestore, CloseJoin, Closed, vars, goroutines
  <2>2. \/ tx' = tx
        \/ tx'.pc = "select" /\ tx'.node \in Nodes /\ tx'.avoid \in Nodes /\ tx'.why = "autoswitch"
        \/ tx'.pc = "prepare" /\ (tx'.why = "failover" => tx'.avoid \in Nodes)
        \/ tx'.pc = "bump" /\ tx'.why = "close"
    <3>1. \A o \in off : StartConnectIfCurrent(o) => o.kind # "failover"
      BY DEF StartConnectIfCurrent
    <3> QED BY <1>2, <1>6, <3>1, OthersMove DEF NodesNamed
  <2>3. Says
    <3>1. ASSUME NEW g \in Gens, WatchProcess(g) \/ HealthWatcher(g) \/ TunWatcher(g)
          PROVE  state' = state \/ state'.st = "error"
      <4>1. CASE WatchProcessHandle(g)
        <5>1. state' = state \/ state' = Report("error", liveNode(watcher[g].node))
          BY <4>1 DEF WatchProcessHandle
        <5> QED BY <1>0, <5>1
      <4>2. CASE ~WatchProcessHandle(g)
        BY <3>1, <4>2 DEF WatchProcess, WatchProcessExit, WatchProcessDied, HealthWatcher,
           HealthWatchExit, HealthWatchTryLock, HealthFailover, TunWatcher, WatchTunInit, WatchTunExit, WatchTunStop
      <4> QED BY <4>1, <4>2
    <3>2. ASSUME NEW o \in off, FailoverStart(o), state' # state
          PROVE  state'.prof /\ state'.node \in Nodes
      <4>1. PICK allowed \in allowAutoRecovery(o.gen) :
              allowed /\ state' = Report("health_reconnecting", o.node) /\ state.node = o.node
        BY <3>2 DEF FailoverStart
      <4>2. state.st = "connected"
        BY <4>1 DEF allowAutoRecovery
      <4> QED BY <1>0, <4>1, <4>2 DEF NodesNamed
    <3>3. CASE ReconcileSystemProxyWhenIdle
      BY <3>3 DEF ReconcileSystemProxyWhenIdle, Shape, States
    <3>4. CASE DetachedRun
      BY <3>2, <3>4 DEF DetachedRun, StartConnectIfCurrent
    <3>5. CASE Environment \/ Close \/ Closed
      BY <3>3, <3>5 DEF Environment, ProcessDies, RefreshProfile, StoreUpdate, HealthWatchDegraded, WatchTunLost,
         Close, CloseBegin, CloseTeardown, CloseRestore, CloseJoin, Closed, vars
    <3> QED BY <1>6, <3>1, <3>4, <3>5 DEF Next
  <2> QED BY <2>1, <2>2, <2>3 DEF NodesNamed
<1> QED BY <1>1, <1>3, <1>4, <1>5, <1>6

\* A policy that is known to be enforced stays so, and an error is left only by a policy that was
\* confirmed.
StaysBlocked(g) == /\ guard.enforced => g.enforced
                   /\ g.status # "error" => g.enforced \/ guard.status # "error"

\* The native calls keep that, but for the one that lifts the policy.
LEMMA GuardKeeps ==
  ASSUME Shape
  PROVE  /\ StaysBlocked(guard) /\ StaysBlocked(Interrupted(guard))
         /\ \A r \in prepareProtection : StaysBlocked(r.g)
         /\ \A built : \A r \in activateProtectionLocked(built) :
              /\ StaysBlocked(r.g) /\ StaysBlocked(Accepted(r.g))
              /\ r.ok /\ Backend /\ opts["kill_switch"] => Accepted(r.g).enforced
         /\ \A r \in killSwitchProtection(TRUE) :
              /\ StaysBlocked(r.g)
              /\ ~r.ok => r.g.status = "error"
<1>1. guard \in GuardT
  BY DEF Shape
<1>2. \A t : Confirm(guard, t).enforced = TRUE /\ Confirm(guard, t).status = "blocked"
  BY DEF Confirm
<1>3. Fail(guard).enforced = guard.enforced /\ Fail(guard).status = "error"
  BY <1>1 DEF Fail, GuardT
<1>4. /\ Interrupted(guard).enforced = guard.enforced
      /\ Interrupted(guard).status = "error" <=> guard.status = "error"
  BY <1>1 DEF Interrupted, GuardT
<1>5. \A t : \A r \in Native(Confirm(guard, t)) :
        (r.ok = TRUE /\ r.g = Confirm(guard, t)) \/ (r.ok = FALSE /\ r.g = Fail(guard))
  BY DEF Native
<1>6. \A t : StaysBlocked(Confirm(guard, t))
  BY <1>2 DEF StaysBlocked
<1>7. StaysBlocked(Fail(guard)) /\ StaysBlocked(guard) /\ StaysBlocked(Interrupted(guard))
  BY <1>3, <1>4 DEF StaysBlocked
<1>8. ASSUME NEW r \in prepareProtection PROVE StaysBlocked(r.g)
  <2>1. r.g = guard \/ \E t : r \in Native(Confirm(guard, t))
    BY <1>8 DEF prepareProtection
  <2> QED BY <1>5, <1>6, <1>7, <2>1
<1>9. ASSUME NEW built, NEW r \in activateProtectionLocked(built)
      PROVE  /\ StaysBlocked(r.g) /\ StaysBlocked(Accepted(r.g))
             /\ r.ok /\ Backend /\ opts["kill_switch"] => Accepted(r.g).enforced
  <2>1. \/ r.g = guard /\ (r.ok => ~(Backend /\ opts["kill_switch"]))
        \/ \E t : r \in Native(Confirm(guard, t))
    BY <1>9 DEF activateProtectionLocked
  <2>2. \/ r.g = guard /\ (r.ok => ~(Backend /\ opts["kill_switch"]))
        \/ \E t : r.g = Confirm(guard, t)
        \/ r.g = Fail(guard) /\ ~r.ok
    BY <1>5, <2>1
  <2>3. r.g \in GuardT
    BY <1>1, GuardCalls
  <2>4. Accepted(r.g).enforced = r.g.enforced /\ (Accepted(r.g).status = "error" <=> r.g.status = "error")
    BY <2>3 DEF Accepted, GuardT
  <2>5. StaysBlocked(r.g)
    BY <1>6, <1>7, <2>2
  <2> QED BY <1>2, <2>2, <2>4, <2>5 DEF StaysBlocked
<1>10. ASSUME NEW r \in killSwitchProtection(TRUE)
       PROVE  StaysBlocked(r.g) /\ (~r.ok => r.g.status = "error")
  <2>1. (r.g = guard /\ r.ok) \/ \E t : r \in Native(Confirm(guard, t))
    BY <1>10 DEF killSwitchProtection
  <2> QED BY <1>3, <1>5, <1>6, <1>7, <2>1
<1> QED BY <1>7, <1>8, <1>9, <1>10

\* Who lifts the policy: a disconnect that is done, or the session that turns the switch off.
LEMMA GuardStep ==
  ASSUME Shape, Next
  PROVE  \/ StaysBlocked(guard')
         \/ tx.pc = "release" /\ Transaction /\ tx' = NoTx /\ UNCHANGED <<state, opts>>
         \/ ~opts'["kill_switch"] /\ \E c \in Clients : HandleSetKillSwitch(c, FALSE)
<1> USE GuardKeeps
<1>1. ASSUME NEW c \in Clients, Command(c) \/ Handler(c), guard' # guard
      PROVE  \/ StaysBlocked(guard')
             \/ ~opts'["kill_switch"] /\ HandleSetKillSwitch(c, FALSE)
  <2>1. Command(c)
    BY <1>1, HandlerMoves
  <2>2. PICK on \in BOOLEAN : HandleSetKillSwitch(c, on)
    BY <1>1, <2>1 DEF Command, HandleConnect, HandleDisconnect, HandleRemoveProfile, HandleSetOption,
       HandleSetMultihop
  <2>3. CASE on = TRUE
    BY <2>2, <2>3 DEF HandleSetKillSwitch
  <2>4. CASE on = FALSE
    BY <2>2, <2>4 DEF HandleSetKillSwitch, Shape, OptsT, Options
  <2> QED BY <2>3, <2>4
<1>2. CASE Transaction
  BY <1>2 DEF Transaction, SwitchSelect, SwitchConfirm, SwitchCommit, StartConnectPrepare, TeardownSupersede,
     TeardownStop, TeardownDrained, DisconnectRelease, Unlock, settings
<1>3. ASSUME NEW g \in Gens, Loop(g) PROVE StaysBlocked(guard')
  <2>1. CASE RecordSuccess(g)
    BY <2>1 DEF RecordSuccess
  <2>2. CASE ~RecordSuccess(g)
    BY <1>3, <2>2 DEF Loop, RunFallbackNext, AttemptNodeCheck, AttemptNodeStart, AttemptNodeProbe,
       ReconcileConnectingOptions, AttemptNodeUndo, AttemptsFailed
  <2> QED BY <2>1, <2>2
<1>4. ASSUME NEW g \in Gens, WatchProcess(g) \/ HealthWatcher(g) \/ TunWatcher(g)
      PROVE  StaysBlocked(guard')
  BY <1>4 DEF WatchProcess, WatchProcessExit, WatchProcessDied, WatchProcessHandle, HealthWatcher, HealthWatchExit,
     HealthWatchTryLock, HealthFailover, TunWatcher, WatchTunInit, WatchTunExit, WatchTunStop
<1>5. CASE DetachedRun \/ Environment \/ Close \/ Closed
  BY <1>5 DEF DetachedRun, StartConnectIfCurrent, FailoverStart, Environment, ProcessDies,
     ReconcileSystemProxyWhenIdle, RefreshProfile, StoreUpdate, HealthWatchDegraded, WatchTunLost, Close, CloseBegin,
     CloseTeardown, CloseRestore, CloseJoin, Closed, vars
<1> QED BY <1>1, <1>2, <1>3, <1>4, <1>5 DEF Next

\* Is a connection reported, or about to be without another walk?
MayConnect == state.st = "connected" \/ tx.why \in {"failover", "switch", "autoswitch"}

\* Nobody connects while handleDisconnect() lifts host protection.
LEMMA ReleaseStep ==
  ASSUME Shape, LockInv, ReleaseIsDown, Next
  PROVE  ReleaseIsDown'
<1> SUFFICES ASSUME tx'.pc = "release" PROVE wgZero' /\ state'.st # "connected"
  BY DEF ReleaseIsDown
<1>0. NoTx.pc = "free" /\ Idle.st = "idle" /\ CleanupFailed.st = "error" /\ "disconnect" \notin Starts
  BY Blanks DEF CleanupFailed, Starts
<1>1. CASE Transaction
  <2>1. tx.pc = "drain" /\ tx.why = "disconnect"
    BY <1>0, <1>1, TransactionMoves
  <2>2. TeardownDrained
    BY <1>1, <2>1 DEF Transaction, SwitchSelect, SwitchConfirm, SwitchCommit, StartConnectPrepare,
       TeardownSupersede, TeardownStop, DisconnectRelease
  <2>3. wgZero /\ UNCHANGED goroutines /\ state' \in {Idle, CleanupFailed}
    BY <1>0, <2>1, <2>2 DEF TeardownDrained, goroutines
  <2> QED BY <1>0, <2>3 DEF goroutines, wgZero
<1>2. ASSUME NEW c \in Clients, Command(c) \/ Handler(c) PROVE wgZero' /\ state'.st # "connected"
  <2>1. UNCHANGED <<state, goroutines>> /\ tx.pc = "release"
    BY <1>2, CommandMoves, HandlerMoves
  <2> QED BY <2>1 DEF ReleaseIsDown, goroutines, wgZero
<1>3. CASE ~Transaction /\ \A c \in Clients : ~Command(c) /\ ~Handler(c)
  <2>1. tx.pc = "release" /\ wgZero /\ state.st # "connected"
    BY <1>0, <1>3, OthersMove DEF ReleaseIsDown
  <2>2. \A g \in Gens : ~Loop(g) /\ ~WatchProcess(g) /\ ~HealthWatcher(g) /\ ~TunWatcher(g)
                        /\ ~HealthWatchDegraded(g) /\ ~WatchTunLost(g)
    <3> TAKE g \in Gens
    <3>1. loop[g].pc = "none" /\ watcher[g].pc = "none" /\ health[g].pc = "none" /\ tunwatch[g] = "none"
      BY <2>1 DEF wgZero
    <3>2. ~Loop(g)
      BY <3>1 DEF Loop, RunFallbackNext, AttemptNodeCheck, AttemptNodeStart, AttemptNodeProbe, RecordSuccess,
         ReconcileConnectingOptions, AttemptNodeUndo, AttemptsFailed
    <3>3. ~WatchProcess(g) /\ ~HealthWatcher(g) /\ ~TunWatcher(g) /\ ~HealthWatchDegraded(g) /\ ~WatchTunLost(g)
      BY <3>1 DEF WatchProcess, WatchProcessExit, WatchProcessDied, WatchProcessHandle, HealthWatcher,
         HealthWatchExit, HealthWatchTryLock, HealthFailover, TunWatcher, WatchTunInit, WatchTunExit, WatchTunStop,
         HealthWatchDegraded, WatchTunLost
    <3> QED BY <3>2, <3>3
  <2>3. UNCHANGED <<state, goroutines>>
    BY <1>3, <2>1, <2>2 DEF Next, DetachedRun, StartConnectIfCurrent, FailoverStart, Environment, ProcessDies,
       ReconcileSystemProxyWhenIdle, RefreshProfile, StoreUpdate, Close, CloseBegin, CloseTeardown, CloseRestore,
       CloseJoin, Closed, vars, connMuFree, goroutines
  <2> QED BY <2>1, <2>3 DEF goroutines, wgZero
<1> QED BY <1>1, <1>2, <1>3

\* Only recordSuccess() makes a connection out of none.
LEMMA ConnectsByRecord ==
  ASSUME Shape, LockInv, Next, MayConnect'
  PROVE  MayConnect \/ \E g \in Gens : RecordSuccess(g) /\ state' # state
<1>0. /\ \A st, n : Report(st, n).st = st
      /\ CleanupFailed.st = "error" /\ Idle.st = "idle" /\ NoTx.why = "none"
  BY Blanks DEF Report, CleanupFailed
<1>1. ASSUME NEW c \in Clients, Command(c) \/ Handler(c) PROVE MayConnect
  BY <1>1, CommandMoves, HandlerMoves DEF MayConnect, liveSwitchTarget
<1>2. CASE Transaction
  <2>1. tx'.why \in {tx.why, "none"}
    BY <1>0, <1>2, TransactionMoves
  <2>2. state' = state \/ state'.st # "connected" \/ MayConnect
    <3>1. CASE SwitchCommit
      BY <3>1 DEF SwitchCommit, LockInv, MayConnect
    <3>2. CASE StartConnectPrepare
      <4>1. state' = state \/ state' = OnError(state)
        BY <3>2 DEF StartConnectPrepare
      <4> QED BY <4>1, OnErrorReports DEF MayConnect
    <3>3. CASE TeardownDrained
      <4>1. state' \in {Report("connecting", None), OnError(CleanupFailed), Idle, CleanupFailed}
        BY <3>3 DEF TeardownDrained
      <4> QED BY <1>0, <4>1, OnErrorReports DEF MayConnect
    <3> QED BY <1>2, <3>1, <3>2, <3>3 DEF Transaction, SwitchSelect, SwitchConfirm, TeardownSupersede,
            TeardownStop, DisconnectRelease
  <2> QED BY <2>1, <2>2 DEF MayConnect
<1>3. ASSUME NEW g \in Gens, Loop(g) PROVE MayConnect \/ (RecordSuccess(g) /\ state' # state)
  <2>1. tx' = tx
    BY <1>3 DEF Loop, RunFallbackNext, AttemptNodeCheck, AttemptNodeStart, AttemptNodeProbe, RecordSuccess,
       ReconcileConnectingOptions, AttemptNodeUndo, AttemptsFailed
  <2>2. CASE RecordSuccess(g)
    BY <2>1, <2>2 DEF MayConnect
  <2>3. CASE AttemptsFailed(g)
    BY <1>0, <2>1, <2>3 DEF AttemptsFailed, MayConnect
  <2>4. CASE ~RecordSuccess(g) /\ ~AttemptsFailed(g)
    BY <1>3, <2>1, <2>4 DEF Loop, RunFallbackNext, AttemptNodeCheck, AttemptNodeStart, AttemptNodeProbe,
       ReconcileConnectingOptions, AttemptNodeUndo, MayConnect
  <2> QED BY <2>2, <2>3, <2>4
<1>4. CASE ~Transaction /\ (\A c \in Clients : ~Command(c) /\ ~Handler(c)) /\ \A g \in Gens : ~Loop(g)
  <2>1. tx'.why \in {"failover", "switch", "autoswitch"} => MayConnect
    <3>1. \A o \in off : o.kind \notin {"switch", "autoswitch"}
      BY DEF Shape, Detached
    <3>2. \A o \in off : StartConnectIfCurrent(o) => o.kind # "failover"
      BY DEF StartConnectIfCurrent
    <3> QED BY <1>4, <3>1, <3>2, OthersMove DEF MayConnect, liveSwitchTarget
  <2>2. state'.st = "connected" => state.st = "connected"
    <3>1. ASSUME NEW g \in Gens, WatchProcess(g) \/ HealthWatcher(g) \/ TunWatcher(g)
          PROVE  state' = state \/ state'.st = "error"
      <4>1. CASE WatchProcessHandle(g)
        <5>1. state' = state \/ state' = Report("error", liveNode(watcher[g].node))
          BY <4>1 DEF WatchProcessHandle
        <5> QED BY <1>0, <5>1
      <4>2. CASE ~WatchProcessHandle(g)
        BY <3>1, <4>2 DEF WatchProcess, WatchProcessExit, WatchProcessDied, HealthWatcher,
           HealthWatchExit, HealthWatchTryLock, HealthFailover, TunWatcher, WatchTunInit, WatchTunExit, WatchTunStop
      <4> QED BY <4>1, <4>2
    <3>2. ASSUME NEW o \in off, FailoverStart(o)
          PROVE  state' = state \/ state'.st = "health_reconnecting"
      <4>1. state' = state \/ state' = Report("health_reconnecting", o.node)
        BY <3>2 DEF FailoverStart
      <4> QED BY <1>0, <4>1
    <3>3. CASE ReconcileSystemProxyWhenIdle
      BY <3>3 DEF ReconcileSystemProxyWhenIdle, Shape, States
    <3>4. CASE DetachedRun
      BY <3>2, <3>4 DEF DetachedRun, StartConnectIfCurrent
    <3>5. CASE Environment \/ Close \/ Closed
      BY <3>3, <3>5 DEF Environment, ProcessDies, RefreshProfile, StoreUpdate, HealthWatchDegraded, WatchTunLost,
         Close, CloseBegin, CloseTeardown, CloseRestore, CloseJoin, Closed, vars
    <3> QED BY <1>4, <3>1, <3>4, <3>5 DEF Next
  <2> QED BY <2>1, <2>2 DEF MayConnect
<1> QED BY <1>1, <1>2, <1>3, <1>4

\* A connection out of none blocks the host first.
LEMMA ConnectsBlocked ==
  ASSUME Shape, LockInv, Next, MayConnect', Backend, opts["kill_switch"]
  PROVE  MayConnect \/ guard'.enforced
<1>1. ASSUME NEW g \in Gens, RecordSuccess(g), state' # state PROVE guard'.enforced
  <2>1. \E a \in activateProtectionLocked(loop[g].opts) : a.ok /\ guard' = Accepted(a.g)
    BY <1>1 DEF RecordSuccess
  <2> QED BY <2>1, GuardKeeps
<1> QED BY <1>1, ConnectsByRecord

\* A re-apply that is due is not forgotten: reapplyLive() does nothing only when there is nothing
\* connected to re-apply to.
LEMMA ReapplyStaysDue ==
  ASSUME Shape, LockInv, NodesNamed, Next, reapplyDue, MayConnect'
  PROVE  reapplyDue' \/ stored' = {}
<1>0. /\ NoTx.pc = "free" /\ NoTx.why = "none" /\ Ready.pc = "ready" /\ None \notin Nodes
      /\ \A st, n : Report(st, n).st = st
  BY Blanks, NoneAssumption DEF Report
<1>1. ASSUME NEW c \in Clients, Command(c) PROVE reapplyDue'
  BY <1>0, <1>1, CommandMoves DEF reapplyDue
<1>2. ASSUME NEW c \in Clients, Handler(c) PROVE reapplyDue' \/ stored' = {}
  <2>1. CASE cmd[c].pc # "reapply"
    <3>1. \A d \in Clients \ {c} : cmd'[d] = cmd[d]
      BY <1>2, HandlerMoves
    <3>2. tx' = tx \/ tx.pc = "free"
      BY <1>2, HandlerMoves
    <3> QED BY <2>1, <3>1, <3>2 DEF reapplyDue, LockInv
  <2>2. CASE cmd[c].pc = "reapply"
    <3>1. CASE tx' = tx
      <4>1. tx.pc = "free" /\ state' = state /\ (stored' = stored \/ stored' = {})
            /\ ~(state.st = "connected" /\ state.prof /\ state.node # None /\ stored # {})
        BY <1>2, <2>2, <3>1, HandlerMoves
      <4> QED BY <1>0, <3>1, <4>1 DEF MayConnect, LockInv, NodesNamed
    <3>2. CASE tx' # tx
      <4>1. tx'.why = "reapply"
        BY <1>2, <2>2, <3>2, HandlerMoves
      <4> QED BY <4>1 DEF reapplyDue
    <3> QED BY <3>1, <3>2
  <2> QED BY <2>1, <2>2
<1>3. CASE Transaction
  <2>1. CASE \E c \in Clients : cmd[c].pc = "reapply"
    <3>1. PICK c \in Clients : cmd[c].pc = "reapply"
      BY <2>1
    <3>2. c # tx.c
      BY <3>1, NoneAssumption DEF LockInv
    <3>3. cmd'[c] = cmd[c]
      BY <1>3, <3>2, TransactionMoves, UnlockMoves
    <3> QED BY <3>1, <3>3 DEF reapplyDue
  <2>2. CASE tx.why = "reapply"
    <3>1. CASE tx'.why = "reapply"
      BY <3>1 DEF reapplyDue
    <3>2. CASE tx'.why # "reapply"
      <4>1. tx' = NoTx /\ tx.pc \in {"prepare", "drain"}
        BY <1>3, <2>2, <3>2, TransactionMoves DEF LockInv
      <4>2. state'.st # "connected"
        <5>1. CASE StartConnectPrepare
          <6>1. state' = OnError(state)
            <7>1. [tx EXCEPT !.pc = "bump", !.chain = chain, !.todo = candidates(tx, chain)] # NoTx
              BY <1>0 DEF Shape, TxT
            <7> QED BY <4>1, <5>1, <7>1 DEF StartConnectPrepare
          <6> QED BY <2>2, <6>1, OnErrorReports
        <5>2. CASE TeardownDrained
          <6>1. state' = Report("connecting", None) \/ state' = OnError(CleanupFailed)
            BY <2>2, <5>2 DEF TeardownDrained, Starts
          <6> QED BY <1>0, <2>2, <6>1, OnErrorReports
        <5> QED BY <1>3, <4>1, <5>1, <5>2 DEF Transaction, SwitchSelect, SwitchConfirm, SwitchCommit,
                TeardownSupersede, TeardownStop, DisconnectRelease
      <4> QED BY <1>0, <4>1, <4>2 DEF MayConnect
    <3> QED BY <3>1, <3>2
  <2> QED BY <2>1, <2>2 DEF reapplyDue
<1>4. CASE ~Transaction /\ \A c \in Clients : ~Command(c) /\ ~Handler(c)
  <2>1. cmd' = cmd /\ (tx' = tx \/ tx.pc = "free")
    BY <1>4, OthersMove
  <2> QED BY <2>1 DEF reapplyDue, LockInv
<1> QED BY <1>1, <1>2, <1>3, <1>4

\* Who turns the kill switch on blocks the host, reports an error, or leaves a re-apply due; and a
\* profile that was removed does not come back.
LEMMA SwitchesOn ==
  ASSUME Shape, LockInv, Next
  PROVE  /\ opts'["kill_switch"] /\ ~opts["kill_switch"] => guard'.status = "error" \/ reapplyDue'
         /\ stored = {} => stored' = {}
<1>1. ASSUME opts'["kill_switch"], ~opts["kill_switch"] PROVE guard'.status = "error" \/ reapplyDue'
  <2>1. PICK c \in Clients : Command(c)
    <3>1. opts' # opts
      BY <1>1
    <3> QED BY <3>1, HandlerMoves, TransactionMoves, OthersMove
  <2>2. PICK on \in BOOLEAN : HandleSetKillSwitch(c, on)
    <3>1. ~(\E o \in Flips : HandleSetOption(c, o))
      BY <1>1 DEF HandleSetOption, Shape, OptsT, Options
    <3> QED BY <1>1, <2>1, <3>1 DEF Command, HandleConnect, HandleDisconnect, HandleRemoveProfile, HandleSetMultihop,
            settings
  <2>3. on = TRUE
    BY <1>1, <2>2 DEF HandleSetKillSwitch, Shape, OptsT, Options
  <2>4. PICK r \in killSwitchProtection(TRUE) : guard' = r.g /\ (r.ok => Goto(c, "reapply"))
    BY <1>1, <2>2, <2>3 DEF HandleSetKillSwitch
  <2>5. Goto(c, "reapply") => cmd'[c].pc = "reapply"
    BY DEF Goto, Shape, CmdT
  <2> QED BY <2>4, <2>5, GuardKeeps DEF reapplyDue
<1>2. ASSUME stored = {} PROVE stored' = {}
  <2>1. CASE StoreUpdate
    BY <1>2, <2>1 DEF StoreUpdate
  <2>2. \A c \in Clients : Command(c) \/ Handler(c) => stored' = {}
    BY <1>2, CommandMoves, HandlerMoves
  <2>3. Transaction => stored' = {}
    BY <1>2, TransactionMoves
  <2>4. \A g \in Gens : Loop(g) => stored' = stored
    BY DEF Loop, RunFallbackNext, AttemptNodeCheck, AttemptNodeStart, AttemptNodeProbe, RecordSuccess,
       ReconcileConnectingOptions, AttemptNodeUndo, AttemptsFailed, settings
  <2>5. \A g \in Gens : WatchProcess(g) \/ HealthWatcher(g) \/ TunWatcher(g) => stored' = stored
    BY DEF WatchProcess, WatchProcessExit, WatchProcessDied, WatchProcessHandle, HealthWatcher, HealthWatchExit,
       HealthWatchTryLock, HealthFailover, TunWatcher, WatchTunInit, WatchTunExit, WatchTunStop, settings
  <2>6. DetachedRun \/ Close \/ Closed => stored' = stored
    BY DEF DetachedRun, StartConnectIfCurrent, FailoverStart, Close, CloseBegin, CloseTeardown, CloseRestore,
       CloseJoin, Closed, vars, settings
  <2>7. Environment => StoreUpdate \/ stored' = stored
    BY DEF Environment, ProcessDies, ReconcileSystemProxyWhenIdle, RefreshProfile, HealthWatchDegraded, WatchTunLost,
       settings
  <2> QED BY <1>2, <2>1, <2>2, <2>3, <2>4, <2>5, <2>6, <2>7 DEF Next
<1> QED BY <1>1, <1>2

\* Under the kill switch, for every step.
LEMMA BlockedStep ==
  ASSUME Shape, LockInv, NodesNamed, ReleaseIsDown, BlockedOrDue, [Next]_<<vars, scene>>
  PROVE  /\ BlockedOrDue' /\ ReleaseIsDown'
         /\ guard.enforced /\ ~guard'.enforced => tx.why = "disconnect" \/ ~opts'["kill_switch"]
<1>1. CASE UNCHANGED <<vars, scene>>
  BY <1>1 DEF vars, BlockedOrDue, ReleaseIsDown, reapplyDue, Backend, wgZero
<1> SUFFICES ASSUME Next
             PROVE  /\ BlockedOrDue'
                    /\ guard.enforced /\ ~guard'.enforced => tx.why = "disconnect" \/ ~opts'["kill_switch"]
  BY <1>1, ReleaseStep
<1>2. Backend' <=> Backend
  BY DEF Next, Backend
<1>3. BlockedOrDue'
  <2> SUFFICES ASSUME Backend, opts'["kill_switch"], guard'.status # "error", MayConnect'
               PROVE  guard'.enforced \/ reapplyDue' \/ stored' = {}
    BY <1>2 DEF BlockedOrDue, MayConnect
  <2>1. CASE ~opts["kill_switch"]
    BY <2>1, SwitchesOn
  <2>2. CASE opts["kill_switch"]
    <3>1. StaysBlocked(guard')
      <4>1. ~(tx.pc = "release" /\ tx' = NoTx /\ state' = state)
        BY Blanks DEF ReleaseIsDown, MayConnect
      <4> QED BY <4>1, GuardStep
    <3>2. guard'.enforced \/ (guard.status # "error" /\ MayConnect)
      BY <2>2, <3>1, ConnectsBlocked DEF StaysBlocked
    <3>3. CASE guard.enforced
      BY <3>1, <3>3 DEF StaysBlocked
    <3>4. CASE ~guard.enforced /\ guard.status # "error" /\ MayConnect
      BY <2>2, <3>4, ReapplyStaysDue, SwitchesOn DEF BlockedOrDue, MayConnect
    <3> QED BY <3>2, <3>3, <3>4
  <2> QED BY <2>1, <2>2
<1>4. guard.enforced /\ ~guard'.enforced => tx.why = "disconnect" \/ ~opts'["kill_switch"]
  BY GuardStep DEF StaysBlocked, LockInv
<1> QED BY <1>3, <1>4

\* The kill switch holds, for every scene: no connection that shows no error is left unblocked, and only
\* the user lifts the policy (protection.go: prepareProtection, activateProtectionLocked; daemon.go:
\* handleSetKillSwitch, handleDisconnect; guard.go: Release).
THEOREM SessionKillSwitch == Spec => KillSwitchHolds
<1> DEFINE Inv == Shape /\ ProxyOwed /\ LockInv /\ NodesNamed /\ ReleaseIsDown /\ BlockedOrDue
           Holds == /\ KillSwitchEnforced'
                    /\ guard.enforced /\ ~guard'.enforced => tx.why = "disconnect" \/ ~opts'["kill_switch"]
<1>1. Init => Inv
  <2>1. Init => NodesNamed /\ ReleaseIsDown /\ BlockedOrDue
    BY Blanks DEF Init, NodesNamed, ReleaseIsDown, BlockedOrDue
  <2> QED BY <2>1, ShapeInit, LockInit
<1>2. Inv /\ [Next]_<<vars, scene>> => Inv'
  BY ShapeStep, LockStep, NamedStep, BlockedStep
<1>3. Inv /\ [Next]_<<vars, scene>> => [Holds]_vars
  <2>1. Inv /\ [Next]_<<vars, scene>> => Holds
    BY BlockedStep DEF BlockedOrDue, KillSwitchEnforced
  <2> QED BY <2>1
<1>4. KillSwitchHolds <=> [][Holds]_vars
  BY DEF KillSwitchHolds
<1> HIDE DEF Inv, Holds
<1> QED BY <1>1, <1>2, <1>3, <1>4, PTL DEF Spec

-----------------------------------------------------------------------------
(* The system proxy.                                                       *)

\* A walk that arms the proxy leaves it to its watcher, or a call has failed.
LEMMA ArmFails ==
  ASSUME NEW px
  PROVE  \A built : \A e \in armEgress(built, px) : ~e.ok => ProxyFails
<1>1. \A q : \A r \in disarmSystemProxy(q) : ~r.ok => ProxyFails
  BY DEF disarmSystemProxy
<1>2. \A e \in armSystemProxy(px) : ~e.ok => ProxyFails
  <2> TAKE e \in armSystemProxy(px)
  <2> HAVE ~e.ok
  <2>1. CASE px.applied
    BY <2>1 DEF armSystemProxy
  <2>2. CASE ~px.applied
    <3> DEFINE enabled == [armed |-> TRUE, applied |-> TRUE, os |-> TRUE]
               rolledBack == disarmSystemProxy([enabled EXCEPT !.applied = FALSE])
               restored == IF px.armed THEN disarmSystemProxy(px) ELSE [ok : {TRUE}, px : {px}]
    <3>1. \/ e \in restored /\ ~e.ok
          \/ e \in [ok : {TRUE}, px : {enabled}]
          \/ ProxyFails
      BY <2>2 DEF armSystemProxy
    <3>2. e \in restored /\ ~e.ok => ProxyFails
      BY <1>1
    <3> QED BY <3>1, <3>2
  <2> QED BY <2>1, <2>2
<1> QED BY <1>2 DEF armEgress

\* In a scene without live switches and failovers, none is under way.
LEMMA NoSwitchesStep ==
  ASSUME Shape, LockInv, NoSwitches, [Next]_<<vars, scene>>
  PROVE  NoSwitches'
<1>1. CASE UNCHANGED <<vars, scene>>
  BY <1>1 DEF vars, NoSwitches, LiveSwitches, HealthWatch, Picks
<1> SUFFICES ASSUME Next, ~LiveSwitches
             PROVE  /\ tx'.why \notin {"switch", "autoswitch", "failover"}
                    /\ \A c \in Clients : cmd'[c].pc # "switch"
                    /\ \A g \in Gens : health'[g].pc = "none"
                    /\ \A o \in off' : o.kind # "failover"
  <2>1. Next => (LiveSwitches' <=> LiveSwitches)
    BY DEF Next, LiveSwitches, HealthWatch, Picks
  <2> QED BY <1>1, <2>1 DEF NoSwitches
<1>0. /\ ~HealthWatch /\ Picks \ {None} = {} /\ Ready.pc = "ready" /\ NoTx.why = "none"
      /\ tx.why \notin {"switch", "autoswitch", "failover"}
      /\ \A c \in Clients : cmd[c].pc # "switch"
      /\ \A g \in Gens : health[g].pc = "none"
      /\ \A o \in off : o.kind # "failover"
  BY Blanks DEF NoSwitches, LiveSwitches
<1>2. ASSUME NEW c \in Clients, Command(c) \/ Handler(c)
      PROVE  /\ tx'.why \notin {"switch", "autoswitch", "failover"}
             /\ \A d \in Clients : cmd'[d].pc # "switch"
             /\ health' = health /\ off' = off
  <2>1. UNCHANGED <<health, off>> /\ \A d \in Clients \ {c} : cmd'[d] = cmd[d]
    BY <1>2, CommandMoves, HandlerMoves DEF goroutines
  <2>2. cmd'[c].pc # "switch" /\ tx'.why \notin {"switch", "autoswitch", "failover"}
    BY <1>0, <1>2, CommandMoves, HandlerMoves
  <2> QED BY <1>0, <2>1, <2>2
<1>3. CASE Transaction
  <2>1. tx'.why \in {tx.why, "none"} /\ off' = off
    BY <1>0, <1>3, TransactionMoves
  <2>2. \A c \in Clients : cmd'[c].pc # "switch"
    <3>1. CASE cmd' = cmd
      BY <1>0, <3>1
    <3>2. CASE \E pc \in {"ready", "start", "remove"} : Unlock(pc)
      BY <1>0, <3>2, UnlockMoves
    <3> QED BY <1>3, <3>1, <3>2, TransactionMoves
  <2>3. health' = health
    BY <1>0, <1>3 DEF Transaction, SwitchSelect, SwitchConfirm, SwitchCommit, SwitchFailed, StartConnectPrepare,
       TeardownSupersede, TeardownStop, TeardownDrained, DisconnectRelease, goroutines
  <2> QED BY <1>0, <2>1, <2>2, <2>3
<1>4. CASE ~Transaction /\ \A c \in Clients : ~Command(c) /\ ~Handler(c)
  <2>1. health' = health /\ \A o \in off' : o.kind # "failover"
    <3>1. ASSUME NEW g \in Gens, Loop(g) PROVE health' = health /\ \A o \in off' : o.kind # "failover"
      <4>1. CASE ReconcileConnectingOptions(g)
        BY <1>0, <4>1 DEF ReconcileConnectingOptions
      <4>2. CASE ~ReconcileConnectingOptions(g)
        BY <1>0, <3>1, <4>2 DEF Loop, RunFallbackNext, AttemptNodeCheck, AttemptNodeStart, AttemptNodeProbe,
           RecordSuccess, AttemptNodeUndo, AttemptsFailed
      <4> QED BY <4>1, <4>2
    <3>2. ASSUME NEW g \in Gens, WatchProcess(g) \/ TunWatcher(g)
          PROVE  health' = health /\ \A o \in off' : o.kind # "failover"
      <4>1. CASE WatchProcessHandle(g)
        BY <1>0, <4>1 DEF WatchProcessHandle
      <4>2. CASE ~WatchProcessHandle(g)
        BY <1>0, <3>2, <4>2 DEF WatchProcess, WatchProcessExit, WatchProcessDied, TunWatcher, WatchTunInit,
           WatchTunExit, WatchTunStop
      <4> QED BY <4>1, <4>2
    <3>3. \A g \in Gens : ~HealthWatcher(g) /\ ~HealthWatchDegraded(g)
      BY <1>0 DEF HealthWatcher, HealthWatchExit, HealthWatchTryLock, HealthFailover, HealthWatchDegraded
    <3>4. DetachedRun \/ Close \/ Closed => health' = health /\ off' \subseteq off
      BY DEF DetachedRun, StartConnectIfCurrent, FailoverStart, Close, CloseBegin, CloseTeardown, CloseRestore,
         CloseJoin, Closed, vars, goroutines
    <3>5. Environment => health' = health /\ off' = off
      BY <3>3 DEF Environment, ProcessDies, ReconcileSystemProxyWhenIdle, RefreshProfile, StoreUpdate, WatchTunLost,
         goroutines
    <3> QED BY <1>0, <1>4, <3>1, <3>2, <3>3, <3>4, <3>5 DEF Next
  <2>2. cmd' = cmd /\ tx'.why \notin {"switch", "autoswitch", "failover"}
    <3>1. \A g \in Gens : ~HealthWatchTryLock(g)
      BY <1>0 DEF HealthWatchTryLock
    <3>2. \A o \in off : ~FailoverStart(o) /\ o.kind \notin {"switch", "autoswitch", "failover"}
      BY <1>0 DEF FailoverStart, Shape, Detached
    <3> QED BY <1>0, <1>4, <3>1, <3>2, OthersMove
  <2> QED BY <1>0, <2>1, <2>2
<1> QED BY <1>0, <1>2, <1>3, <1>4

\* The proxy of the OS is ours only under a watched connection, or while somebody is on the way to
\* restore it, for every step.
LEMMA ProxyWatchedStep ==
  ASSUME Shape, Shape', ProxyOwed, FenceInv, LockInv, StatusInv, NoSwitches, ProxyIsWatched,
         [Next]_<<vars, scene>>
  PROVE  ProxyIsWatched'
<1>1. CASE UNCHANGED <<vars, scene>>
  BY <1>1 DEF vars, ProxyIsWatched, ProxyFails, LiveSwitches, HealthWatch, Picks, Superseding, RestoreIsDue, Walking
<1> DEFINE Due == Superseding \/ watcher[gen].pc # "none" \/ (ProxyFails /\ RestoreIsDue)
           Due1 == Superseding' \/ watcher'[gen'].pc # "none" \/ (ProxyFails /\ RestoreIsDue')
<1>2. SUFFICES ASSUME Next, proxy'.os, ~(ProxyFails /\ LiveSwitches) PROVE Due1
  <2>1. Next => (ProxyFails' <=> ProxyFails) /\ (LiveSwitches' <=> LiveSwitches)
    BY DEF Next, ProxyFails, LiveSwitches, HealthWatch, Picks
  <2> QED BY <1>1, <1>2, <2>1 DEF ProxyIsWatched
<1>0. /\ gen \in Gens /\ loop \in [Gens -> LoopT] /\ watcher \in [Gens -> WatcherT]
      /\ NoTx.pc = "free" /\ NoTx.why = "none"
      /\ \A st, n : Report(st, n).st = st /\ CleanupFailed.st = "error"
      /\ \A r \in disarmSystemProxy(proxy) : /\ r.px.os => ProxyFails /\ ~r.ok /\ proxy.os
  BY Blanks, ProxyCalls DEF Shape, Report, CleanupFailed, ProxyOwed
<1>3. proxy.os => Due
  BY <1>2 DEF ProxyIsWatched
<1>4. ProxyFails => /\ tx.why \notin {"switch", "autoswitch", "failover"}
                    /\ \A g \in Gens : health[g].pc = "none"
                    /\ \A o \in off : o.kind # "failover"
  BY <1>2 DEF NoSwitches
<1>5. ASSUME NEW c \in Clients, Command(c) \/ Handler(c) PROVE Due1
  <2>1. /\ UNCHANGED <<gen, state, loop, watcher, off, proxy>> /\ (tx' = tx \/ tx.pc = "free")
    BY <1>5, CommandMoves, HandlerMoves DEF goroutines
  <2> QED BY <1>2, <1>3, <2>1 DEF Superseding, RestoreIsDue, Walking
<1>6. CASE Transaction
  <2>1. CASE SwitchSelect \/ SwitchConfirm \/ SwitchCommit
    <3>1. UNCHANGED <<gen, watcher, proxy>> /\ tx.pc \in {"select", "confirm", "commit"}
      BY <2>1 DEF SwitchSelect, SwitchConfirm, SwitchCommit
    <3>2. ~ProxyFails /\ ~Superseding
      BY <1>4, <3>1 DEF LockInv, Superseding
    <3> QED BY <1>2, <1>3, <3>1, <3>2
  <2>2. CASE StartConnectPrepare
    <3>1. /\ UNCHANGED <<gen, loop, watcher, off, proxy>> /\ tx.pc = "prepare"
          /\ \/ tx' = NoTx /\ state' = OnError(state)
             \/ tx'.pc = "bump" /\ state' = state
      BY <2>2 DEF StartConnectPrepare, Unlock, goroutines, Shape, TxT
    <3>2. tx'.pc = "bump" => tx'.why = tx.why
      BY <1>0, <1>6, TransactionMoves
    <3>3. ProxyFails /\ tx' = NoTx => state' = state \/ state'.st = "error"
      BY <1>0, <1>4, <3>1, OnErrorReports
    <3>4. ProxyFails /\ tx' = NoTx /\ tx.why = "relaunch" => state'.st = "error"
      BY <1>0, <3>1, OnErrorReports
    <3> QED BY <1>0, <1>2, <1>3, <3>1, <3>2, <3>3, <3>4 DEF Superseding, RestoreIsDue, Walking
  <2>3. CASE TeardownSupersede \/ TeardownStop
    <3>1. tx'.pc \in {"stop", "drain"}
      BY <2>3 DEF TeardownSupersede, TeardownStop, Shape, TxT
    <3> QED BY <3>1 DEF Superseding
  <2>4. CASE TeardownDrained
    <3>1. PICK r \in disarmSystemProxy(proxy) :
            /\ proxy' = r.px
            /\ r.ok \/ state' \in {OnError(CleanupFailed), CleanupFailed}
      BY <2>4 DEF TeardownDrained
    <3>2. ProxyFails /\ ~r.ok
      BY <1>0, <1>2, <3>1
    <3>3. state'.st = "error"
      BY <1>0, <1>4, <3>1, <3>2, OnErrorReports
    <3> QED BY <3>2, <3>3 DEF RestoreIsDue
  <2>5. CASE DisconnectRelease
    <3>1. UNCHANGED <<gen, state, loop, watcher, off, proxy>> /\ tx.pc = "release"
      BY <2>5 DEF DisconnectRelease, goroutines
    <3> QED BY <1>2, <1>3, <3>1 DEF Superseding, RestoreIsDue, Walking
  <2> QED BY <1>6, <2>1, <2>2, <2>3, <2>4, <2>5 DEF Transaction
<1>7. ASSUME NEW g \in Gens, Loop(g) PROVE Due1
  <2> USE LoopMoves
  <2>1. UNCHANGED <<gen, tx>> /\ loop[g].pc # "none" /\ off \subseteq off'
    BY <1>7 DEF Loop, RunFallbackNext, AttemptNodeCheck, AttemptNodeStart, AttemptNodeProbe, RecordSuccess,
       ReconcileConnectingOptions, AttemptNodeUndo, AttemptsFailed
  <2>2. CASE g # gen
    <3>1. Superseding
      BY <1>0, <2>1, <2>2 DEF FenceInv, OneGeneration, Running
    <3> QED BY <2>1, <3>1 DEF Superseding
  <2>3. CASE g = gen /\ ~RecordSuccess(g)
    <3>1. UNCHANGED <<watcher, proxy>>
      BY <1>7, <2>3 DEF Loop, RunFallbackNext, AttemptNodeCheck, AttemptNodeStart, AttemptNodeProbe,
         ReconcileConnectingOptions, AttemptNodeUndo, AttemptsFailed
    <3>2. state' = state \/ state'.st = "error"
      <4>1. CASE AttemptsFailed(g)
        <5>1. state' = Report("error", None)
          BY <4>1 DEF AttemptsFailed
        <5> QED BY <1>0, <5>1
      <4>2. CASE ~AttemptsFailed(g)
        BY <1>7, <2>3, <4>2 DEF Loop, RunFallbackNext, AttemptNodeCheck, AttemptNodeStart, AttemptNodeProbe,
           ReconcileConnectingOptions, AttemptNodeUndo
      <4> QED BY <4>1, <4>2
    <3>3. Walking(gen) => Walking(gen)' \/ state'.st = "error"
      <4>1. CASE RunFallbackNext(g)
        <5>1. ASSUME NEW n \in loop[g].todo,
                     loop' = [loop EXCEPT ![g].pc = "check", ![g].node = n, ![g].strat = 1,
                                          ![g].todo = @ \ {n}]
              PROVE  loop'[g].pc = "check"
          BY <1>0, <5>1 DEF LoopT
        <5>2. \/ LoopTo(g, "fail")
              \/ \E n \in loop[g].todo :
                   loop' = [loop EXCEPT ![g].pc = "check", ![g].node = n, ![g].strat = 1,
                                        ![g].todo = @ \ {n}]
          BY <2>3, <4>1 DEF RunFallbackNext, isCurrent
        <5>3. loop'[g].pc \in {"fail", "check"}
          BY <5>1, <5>2
        <5> QED BY <2>1, <2>3, <5>3 DEF Walking
      <4>2. CASE AttemptNodeCheck(g) \/ AttemptNodeStart(g) \/ AttemptNodeUndo(g)
        BY <2>1, <2>3, <4>2 DEF AttemptNodeCheck, AttemptNodeStart, AttemptNodeUndo, isCurrent, Walking
      <4>3. CASE AttemptNodeProbe(g)
        <5>1. NextStrategy(loop[g]).pc = "check"
          BY <1>0 DEF NextStrategy, LoopT
        <5> QED BY <1>0, <2>1, <2>3, <4>3, <5>1 DEF AttemptNodeProbe, GiveUpNode, isCurrent, Walking
      <4>4. CASE ReconcileConnectingOptions(g)
        BY <2>3, <4>4 DEF ReconcileConnectingOptions, Walking
      <4>5. CASE AttemptsFailed(g)
        BY <1>0, <4>5 DEF AttemptsFailed
      <4> QED BY <1>7, <2>3, <4>1, <4>2, <4>3, <4>4, <4>5 DEF Loop
    <3> QED BY <1>2, <1>3, <2>1, <3>1, <3>2, <3>3 DEF Superseding, RestoreIsDue
  <2>4. CASE g = gen /\ RecordSuccess(g)
    <3>1. \/ LoopTo(g, "undo") /\ proxy' = proxy /\ watcher' = watcher
          \/ LoopTo(g, "undo") /\ \E e \in armEgress(loop[g].opts, proxy) : ~e.ok
          \/ watcher' = [watcher EXCEPT ![g] = [pc |-> "watch", node |-> loop[g].node]]
      BY <2>4 DEF RecordSuccess
    <3>2. CASE LoopTo(g, "undo") /\ proxy' = proxy /\ watcher' = watcher
      <4>1. Walking(gen)'
        BY <2>1, <2>4, <3>2 DEF Walking
      <4> QED BY <1>2, <1>3, <2>1, <3>2, <4>1 DEF Superseding, RestoreIsDue
    <3>3. CASE LoopTo(g, "undo") /\ \E e \in armEgress(loop[g].opts, proxy) : ~e.ok
      <4>1. Walking(gen)' /\ ProxyFails
        BY <2>1, <2>4, <3>3, ArmFails DEF Walking
      <4> QED BY <4>1 DEF RestoreIsDue
    <3>4. CASE watcher' = [watcher EXCEPT ![g] = [pc |-> "watch", node |-> loop[g].node]]
      BY <1>0, <2>1, <2>4, <3>4
    <3> QED BY <3>1, <3>2, <3>3, <3>4
  <2> QED BY <2>2, <2>3, <2>4
<1>8. ASSUME NEW g \in Gens, WatchProcess(g) PROVE Due1
  <2>1. /\ UNCHANGED <<gen, loop, tx>> /\ off \subseteq off' /\ watcher[g].pc # "none"
        /\ \A h \in Gens \ {g} : watcher'[h] = watcher[h]
    BY <1>0, <1>8 DEF WatchProcess, WatchProcessExit, WatchProcessDied, WatchProcessHandle
  <2>2. CASE g # gen
    <3>1. Superseding
      BY <1>0, <2>1, <2>2 DEF FenceInv, OneGeneration, Running
    <3> QED BY <2>1, <3>1 DEF Superseding
  <2>3. CASE g = gen /\ WatchProcessHandle(g)
    <3>1. ProxyFails
      BY <1>0, <1>2, <2>3 DEF WatchProcessHandle
    <3>2. \/ \E n, q : off' = off \cup {[kind |-> "relaunch", gen |-> g, node |-> n, p |-> q]}
          \/ \E n : state' = Report("error", n)
      BY <2>3 DEF WatchProcessHandle
    <3>3. (\E o \in off' : o.kind = "relaunch" /\ o.gen = gen') \/ state'.st = "error"
      <4>1. ASSUME NEW n, NEW q, off' = off \cup {[kind |-> "relaunch", gen |-> g, node |-> n, p |-> q]}
            PROVE  \E o \in off' : o.kind = "relaunch" /\ o.gen = gen'
        <5>1. [kind |-> "relaunch", gen |-> g, node |-> n, p |-> q] \in off'
          BY <4>1
        <5> QED BY <2>1, <2>3, <5>1
      <4>2. ASSUME NEW n, state' = Report("error", n) PROVE state'.st = "error"
        BY <1>0, <4>2
      <4> QED BY <3>2, <4>1, <4>2
    <3> QED BY <3>1, <3>3 DEF RestoreIsDue
  <2>4. CASE g = gen /\ ~WatchProcessHandle(g)
    BY <1>0, <1>8, <2>1, <2>4 DEF WatchProcess, WatchProcessExit, WatchProcessDied, isCurrent, WatcherT
  <2> QED BY <2>2, <2>3, <2>4
<1>9. ASSUME NEW g \in Gens, HealthWatcher(g) \/ TunWatcher(g) \/ HealthWatchDegraded(g) \/ WatchTunLost(g)
      PROVE  Due1
  <2>1. UNCHANGED <<gen, state, loop, watcher, proxy>> /\ off \subseteq off'
    BY <1>9 DEF HealthWatcher, HealthWatchExit, HealthWatchTryLock, HealthFailover, TunWatcher, WatchTunInit,
       WatchTunExit, WatchTunStop, HealthWatchDegraded, WatchTunLost
  <2>2. tx' = tx \/ tx.pc = "free"
    BY <1>9 DEF HealthWatcher, HealthWatchExit, HealthWatchTryLock, HealthFailover, TunWatcher, WatchTunInit,
       WatchTunExit, WatchTunStop, HealthWatchDegraded, WatchTunLost, connMuFree
  <2> QED BY <1>2, <1>3, <2>1, <2>2 DEF Superseding, RestoreIsDue, Walking
<1>10. CASE DetachedRun
  <2>1. UNCHANGED <<gen, loop, watcher, proxy>> /\ tx.pc = "free"
    BY <1>10 DEF DetachedRun, StartConnectIfCurrent, FailoverStart, goroutines, connMuFree
  <2>2. ASSUME NEW o \in off, StartConnectIfCurrent(o), ProxyFails, RestoreIsDue PROVE RestoreIsDue'
    <3>1. off' = off \ {o} /\ state' = state
      BY <2>2 DEF StartConnectIfCurrent
    <3>2. o.kind = "relaunch" /\ o.gen = gen => tx'.why = "relaunch" /\ tx'.pc = "prepare"
      BY <2>2, Blanks DEF StartConnectIfCurrent, notSuperseded, isCurrent, TxT
    <3> QED BY <2>1, <2>2, <3>1, <3>2 DEF RestoreIsDue, Walking
  <2>3. ASSUME NEW o \in off, FailoverStart(o) PROVE ~ProxyFails
    BY <1>4, <2>3 DEF FailoverStart
  <2> QED BY <1>2, <1>3, <1>10, <2>1, <2>2, <2>3 DEF DetachedRun, Superseding
<1>11. CASE ReconcileSystemProxyWhenIdle
  <2>1. ProxyFails
    BY <1>0, <1>2, <1>11 DEF ReconcileSystemProxyWhenIdle
  <2>2. state.st = "error"
    BY <1>11 DEF ReconcileSystemProxyWhenIdle, StatusInv, IdleDown
  <2>3. state'.st = "error"
    BY <1>11, <2>2 DEF ReconcileSystemProxyWhenIdle, Shape, States
  <2> QED BY <2>1, <2>3 DEF RestoreIsDue
<1>12. CASE \/ Close \/ Closed \/ ProcessDies \/ StoreUpdate
            \/ \E servers \in SUBSET scene.nodes : RefreshProfile(servers)
  <2>1. UNCHANGED <<gen, state, loop, watcher, off>> /\ (tx' = tx \/ tx.pc = "free")
    BY <1>12 DEF Close, CloseBegin, CloseTeardown, CloseRestore, CloseJoin, Closed, ProcessDies, StoreUpdate,
       RefreshProfile, goroutines, vars, connMuFree
  <2>2. proxy.os
    <3>1. proxy' = proxy \/ \E r \in disarmSystemProxy(proxy) : proxy' = r.px
      BY <1>12 DEF Close, CloseBegin, CloseTeardown, CloseRestore, CloseJoin, Closed, ProcessDies, StoreUpdate,
         RefreshProfile, vars
    <3> QED BY <1>0, <1>2, <3>1
  <2> QED BY <1>3, <2>1, <2>2 DEF Superseding, RestoreIsDue, Walking
<1> QED BY <1>2, <1>5, <1>6, <1>7, <1>8, <1>9, <1>10, <1>11, <1>12 DEF Next, Environment

\* No process, no proxy, for every scene: the OS points at our port only while a process serves it, or
\* while somebody is on the way to restore it, or the failed restore is shown and stays owed (proxy.go:
\* armSystemProxy, disarmSystemProxy; connect.go: teardown, watchProcess, recordSuccess).
THEOREM SessionProxy == Spec => []NoStrandedProxy
<1> DEFINE Inv == /\ Shape /\ ProxyOwed /\ FenceInv /\ LockInv /\ StatusInv
                  /\ NoSwitches /\ ProxyIsWatched
<1>1. Init => Inv
  <2>1. Init => NoSwitches /\ ProxyIsWatched
    BY Blanks DEF Init, NoSwitches, ProxyIsWatched, AutoconnectOnStart
  <2> QED BY <2>1, ShapeInit, FenceInit, LockInit, StatusInit
<1>2. Inv /\ [Next]_<<vars, scene>> => Inv'
  BY ShapeStep, FenceStep, LockStep, StatusStep, NoSwitchesStep, ProxyWatchedStep
<1>3. Inv => NoStrandedProxy
  BY DEF ProxyOwed, ProxyIsWatched, RestoreIsDue, NoStrandedProxy, Superseding, connMuFree, Running, Walking
<1> HIDE DEF Inv
<1> QED BY <1>1, <1>2, <1>3, PTL DEF Spec

-----------------------------------------------------------------------------
(* Options of a live tunnel.                                               *)

\* What the holder of connMu knows of the profile.
TxOfProfile ==
  /\ tx.p \subseteq scene.nodes /\ tx.todo \subseteq scene.nodes
  /\ tx.why = "reconcile" /\ tx.pc = "prepare" =>
       tx.p = scene.nodes /\ tx.node \in scene.nodes /\ tx.avoid = None

\* What a walk knows of it.
LoopsOfProfile ==
  \A g \in Gens :
    /\ loop[g].todo \subseteq scene.nodes
    /\ loop[g].pc \in {"check", "start", "probe", "up", "reconcile"} => loop[g].node \in scene.nodes

\* What a detached reconnect knows of it.
OffOfProfile ==
  \A o \in off :
    /\ o.p \subseteq scene.nodes
    /\ o.kind = "reconcile" => o.p = scene.nodes /\ o.node \in scene.nodes

\* A profile that no refresh rewrites lists the same servers until it is removed, and every copy of the
\* list, every node somebody is at and both ends of the chain are of it.
ProfileInv ==
  /\ refresh = {} /\ stored \in {{}, scene.nodes}
  /\ chain # None => {chain.entry, chain.exit} \subseteq scene.nodes
  /\ \A c \in Clients : cmd[c].p \subseteq scene.nodes
  /\ TxOfProfile /\ LoopsOfProfile /\ OffOfProfile

\* The records things start from name no server.
LEMMA BlanksOfProfile ==
  /\ NoTx.p = {} /\ NoTx.todo = {} /\ NoTx.avoid = None /\ NoTx.why = "none" /\ NoTx \in TxT
  /\ NoLoop.todo = {} /\ NoLoop.pc = "none" /\ Ready.p = {} /\ Ready \in CmdT
BY Blanks DEF NoTx, NoLoop, Ready

\* Commands take the stored list, and only the ends of an accepted chain.
LEMMA ProfileCommands ==
  ASSUME Shape, ProfileInv, scene' = scene, NEW c \in Clients, Command(c) \/ Handler(c)
  PROVE  ProfileInv'
<1>0. /\ cmd \in [Clients -> CmdT] /\ tx \in TxT /\ \A d \in Clients : cmd[d] \in CmdT
      /\ stored \subseteq scene.nodes
  BY DEF Shape, ProfileInv
<1>1. UNCHANGED <<off, loop, refresh>> /\ stored' \in {stored, {}}
  BY DEF Command, Handler, HandleConnect, HandleDisconnect, HandleRemoveProfile, HandleSetOption,
     HandleSetKillSwitch, HandleSetMultihop, HandleConnectSwitch, HandleConnectRefused, HandleConnectRenews,
     HandleConnectStart, HandleDisconnectTeardown, HandleRemoveProfileTeardown, StoreRemove, ReapplyLive,
     settings, goroutines
<1>2. \A d \in Clients : cmd'[d].p \in {cmd[d].p, {}, stored}
  <2>1. \A pc : Goto(c, pc) => \A d \in Clients : cmd'[d].p = cmd[d].p
    BY <1>0 DEF Goto, CmdT
  <2>2. Reply(c) => \A d \in Clients : cmd'[d].p \in {cmd[d].p, {}}
    BY <1>0, BlanksOfProfile DEF Reply
  <2>3. ASSUME NEW n \in Picks, HandleConnect(c, n) PROVE \A d \in Clients : cmd'[d].p \in {cmd[d].p, stored}
    BY <1>0, <2>3 DEF HandleConnect
  <2>4. ASSUME NEW on \in BOOLEAN, HandleSetKillSwitch(c, on) PROVE Reply(c) \/ Goto(c, "reapply")
    BY <2>4 DEF HandleSetKillSwitch
  <2>5. CASE Command(c)
    BY <2>1, <2>2, <2>3, <2>4, <2>5 DEF Command, HandleDisconnect, HandleRemoveProfile, HandleSetOption,
       HandleSetMultihop
  <2>6. CASE Handler(c)
    <3>1. Reply(c) \/ \E pc : Goto(c, pc)
      BY <2>6 DEF Handler, HandleConnectSwitch, HandleConnectRefused, HandleConnectRenews, HandleConnectStart,
         HandleDisconnectTeardown, HandleRemoveProfileTeardown, StoreRemove, ReapplyLive
    <3> QED BY <2>1, <2>2, <3>1
  <2> QED BY <2>5, <2>6
<1>3. chain' = chain \/ (chain' # None => {chain'.entry, chain'.exit} \subseteq stored)
  <2>1. ASSUME NEW ch, HandleSetMultihop(c, ch) PROVE chain' # None => {chain'.entry, chain'.exit} \subseteq stored
    BY <2>1 DEF HandleSetMultihop, validateMultihop
  <2> QED BY <2>1 DEF Command, Handler, HandleConnect, HandleDisconnect, HandleRemoveProfile, HandleSetOption,
     HandleSetKillSwitch, HandleConnectSwitch, HandleConnectRefused, HandleConnectRenews,
     HandleConnectStart, HandleDisconnectTeardown, HandleRemoveProfileTeardown, StoreRemove, ReapplyLive, settings
<1>4. TxOfProfile'
  <2> DEFINE Plain(t) == t.p \in {{}, stored, cmd[c].p} /\ t.todo = {} /\ t.why # "reconcile"
  <2>1. tx' = tx \/ Plain(tx')
    <3>1. CASE HandleConnectSwitch(c)
      <4>1. \/ tx' = tx
            \/ tx' = [NoTx EXCEPT !.pc = "select", !.why = "switch", !.c = c, !.node = cmd[c].node,
                                  !.avoid = state.node]
        BY <3>1 DEF HandleConnectSwitch
      <4> QED BY <4>1, BlanksOfProfile DEF TxT
    <3>2. CASE HandleConnectStart(c)
      BY <3>2, BlanksOfProfile DEF HandleConnectStart, TxT
    <3>3. CASE HandleDisconnectTeardown(c) \/ HandleRemoveProfileTeardown(c)
      BY <3>3, BlanksOfProfile DEF HandleDisconnectTeardown, HandleRemoveProfileTeardown, TxT
    <3>4. CASE ReapplyLive(c)
      <4>1. \/ tx' = tx
            \/ tx' = [NoTx EXCEPT !.pc = "prepare", !.why = "reapply", !.c = c, !.p = stored, !.node = state.node]
        BY <3>4 DEF ReapplyLive
      <4> QED BY <4>1, BlanksOfProfile DEF TxT
    <3>5. CASE Command(c) \/ HandleConnectRefused(c) \/ HandleConnectRenews(c) \/ StoreRemove(c)
      BY <3>5, CommandMoves DEF HandleConnectRefused, HandleConnectRenews, StoreRemove
    <3> QED BY <3>1, <3>2, <3>3, <3>4, <3>5 DEF Handler
  <2>2. cmd[c].p \subseteq scene.nodes
    BY DEF ProfileInv
  <2> QED BY <1>0, <2>1, <2>2 DEF ProfileInv, TxOfProfile
<1>5. LoopsOfProfile' /\ OffOfProfile'
  BY <1>1 DEF ProfileInv, LoopsOfProfile, OffOfProfile
<1>6. \A d \in Clients : cmd'[d].p \subseteq scene'.nodes
  BY <1>0, <1>2 DEF ProfileInv
<1>7. refresh' = {} /\ stored' \in {{}, scene'.nodes} /\ (chain' # None => {chain'.entry, chain'.exit} \subseteq scene'.nodes)
  BY <1>0, <1>1, <1>3 DEF ProfileInv
<1> QED BY <1>4, <1>5, <1>6, <1>7 DEF ProfileInv

\* A transaction walks the list it was given.
LEMMA ProfileTransaction ==
  ASSUME Shape, LockInv, ProfileInv, scene' = scene, Transaction
  PROVE  ProfileInv'
<1>0. tx \in TxT /\ loop \in [Gens -> LoopT] /\ gen \in Nat /\ cmd \in [Clients -> CmdT]
  BY DEF Shape, Gens
<1>1. UNCHANGED <<off, refresh, stored, chain>>
  BY DEF Transaction, SwitchSelect, SwitchConfirm, SwitchCommit, StartConnectPrepare, TeardownSupersede,
     TeardownStop, TeardownDrained, DisconnectRelease, settings
<1>2. \A d \in Clients : cmd'[d].p \in {cmd[d].p, {}}
  <2>1. cmd' = cmd \/ \E pc \in {"ready", "start", "remove"} : Unlock(pc)
    BY TransactionMoves
  <2>2. ASSUME NEW pc \in {"ready", "start", "remove"}, Unlock(pc) PROVE \A d \in Clients : cmd'[d].p \in {cmd[d].p, {}}
    BY <1>0, <2>2, BlanksOfProfile DEF Unlock, CmdT
  <2> QED BY <2>1, <2>2
<1>3. TxOfProfile'
  <2>1. tx'.pc # "prepare"
    BY TransactionMoves, Blanks
  <2>2. tx'.p \in {tx.p, {}} /\ tx'.todo \subseteq tx.todo \cup tx.p
    <3>1. CASE StartConnectPrepare
      <4> DEFINE found == candidates(tx, chain)
      <4>1. found \subseteq tx.p
        BY DEF candidates
      <4>2. tx' = NoTx \/ tx' = [tx EXCEPT !.pc = "bump", !.chain = chain, !.todo = found]
        BY <3>1 DEF StartConnectPrepare, Unlock
      <4> HIDE DEF found
      <4> QED BY <1>0, <4>1, <4>2, BlanksOfProfile DEF TxT
    <3>2. CASE TeardownSupersede
      BY <1>0, <3>2 DEF TeardownSupersede, TxT
    <3>3. CASE ~StartConnectPrepare /\ ~TeardownSupersede
      <4>1. tx' = NoTx \/ \E pc : tx' = [tx EXCEPT !.pc = pc]
        BY <3>3 DEF Transaction, SwitchSelect, SwitchConfirm, SwitchFailed, SwitchCommit, TeardownStop, TeardownDrained,
           DisconnectRelease, Unlock
      <4> QED BY <1>0, <4>1, BlanksOfProfile DEF TxT
    <3> QED BY <3>1, <3>2, <3>3
  <2> QED BY <2>1, <2>2 DEF ProfileInv, TxOfProfile
<1>4. LoopsOfProfile'
  <2>1. loop' = loop \/ \E h \in Gens : loop' = [loop EXCEPT ![h] = NewLoop(tx)]
    <3>1. gen < MaxGen => gen + 1 \in Gens
      BY <1>0, BoundsAssumption DEF Gens
    <3> QED BY <3>1 DEF Transaction, SwitchSelect, SwitchConfirm, SwitchCommit, StartConnectPrepare,
            TeardownSupersede, TeardownStop, TeardownDrained, DisconnectRelease, goroutines
  <2>2. NewLoop(tx).pc = "next" /\ NewLoop(tx).todo = tx.todo
    BY Blanks DEF NewLoop, LoopT
  <2>3. \A g \in Gens : loop'[g] = loop[g] \/ loop'[g] = NewLoop(tx)
    BY <1>0, <2>1
  <2> QED BY <2>2, <2>3 DEF ProfileInv, LoopsOfProfile, TxOfProfile
<1> QED BY <1>1, <1>2, <1>3, <1>4 DEF ProfileInv, OffOfProfile

\* A walk goes from one server of its list to the next.
LEMMA ProfileLoop ==
  ASSUME Shape, ProfileInv, scene' = scene, NEW g \in Gens, Loop(g)
  PROVE  ProfileInv'
<1>0. loop \in [Gens -> LoopT] /\ loop[g] \in LoopT /\ stored \in {{}, scene.nodes}
  BY DEF Shape, ProfileInv
<1>1. UNCHANGED <<refresh, stored, chain, cmd, tx>>
  BY DEF Loop, RunFallbackNext, AttemptNodeCheck, AttemptNodeStart, AttemptNodeProbe, RecordSuccess,
     ReconcileConnectingOptions, AttemptNodeUndo, AttemptsFailed, settings
<1> DEFINE At == {"check", "start", "probe", "up", "reconcile"}
           Known(job) == job.todo \subseteq scene.nodes /\ (job.pc \in At => job.node \in scene.nodes)
<1>2. \A h \in Gens : Known(loop[h])
  BY DEF ProfileInv, LoopsOfProfile
<1>3. Known(loop'[g]) /\ \A h \in Gens \ {g} : loop'[h] = loop[h]
  <2>1. \A pc : LoopTo(g, pc) => /\ loop'[g].pc = pc /\ loop'[g].node = loop[g].node
                                 /\ loop'[g].todo = loop[g].todo
                                 /\ \A h \in Gens \ {g} : loop'[h] = loop[h]
    BY <1>0 DEF LoopTo, LoopT
  <2>2. Exit(g) => Known(loop'[g]) /\ \A h \in Gens \ {g} : loop'[h] = loop[h]
    BY <1>0, BlanksOfProfile DEF Exit
  <2>3. ASSUME NEW pc, LoopTo(g, pc), pc \in At => loop[g].pc \in At
        PROVE  Known(loop'[g]) /\ \A h \in Gens \ {g} : loop'[h] = loop[h]
    BY <1>2, <2>1, <2>3
  <2>4. CASE RunFallbackNext(g)
    <3>1. ASSUME NEW n \in loop[g].todo,
                 loop' = [loop EXCEPT ![g].pc = "check", ![g].node = n, ![g].strat = 1,
                                      ![g].todo = @ \ {n}]
          PROVE  Known(loop'[g]) /\ \A h \in Gens \ {g} : loop'[h] = loop[h]
      <4> DEFINE rest == loop[g].todo \ {n}
                 job == [loop[g] EXCEPT !.pc = "check", !.node = n, !.strat = 1, !.todo = rest]
      <4>1. loop' = [loop EXCEPT ![g] = job] /\ rest \subseteq loop[g].todo
        BY <1>0, <3>1
      <4>2. job.node = n /\ job.todo = rest
        <5> HIDE DEF rest
        <5> QED BY <1>0 DEF LoopT
      <4> HIDE DEF job, rest
      <4> QED BY <1>0, <1>2, <4>1, <4>2
    <3>2. \/ Exit(g) \/ LoopTo(g, "fail")
          \/ \E n \in loop[g].todo :
               loop' = [loop EXCEPT ![g].pc = "check", ![g].node = n, ![g].strat = 1,
                                    ![g].todo = @ \ {n}]
      BY <2>4 DEF RunFallbackNext
    <3> QED BY <2>2, <2>3, <3>1, <3>2
  <2>5. CASE AttemptNodeCheck(g) \/ AttemptNodeStart(g)
    BY <2>2, <2>3, <2>5 DEF AttemptNodeCheck, AttemptNodeStart
  <2>6. CASE AttemptNodeProbe(g)
    <3>1. NextStrategy(loop[g]).node = loop[g].node /\ NextStrategy(loop[g]).todo = loop[g].todo
      BY <1>0 DEF NextStrategy, LoopT
    <3>2. loop[g].pc = "probe"
      BY <2>6 DEF AttemptNodeProbe
    <3>3. \/ Exit(g) \/ LoopTo(g, "up") \/ LoopTo(g, "next")
          \/ loop' = [loop EXCEPT ![g] = NextStrategy(loop[g])]
      BY <1>0, <2>6 DEF AttemptNodeProbe, GiveUpNode
    <3>4. CASE loop' = [loop EXCEPT ![g] = NextStrategy(loop[g])]
      BY <1>0, <1>2, <3>1, <3>2, <3>4
    <3> QED BY <2>2, <2>3, <3>2, <3>3, <3>4
  <2>7. CASE RecordSuccess(g)
    BY <2>3, <2>7 DEF RecordSuccess
  <2>8. CASE ReconcileConnectingOptions(g) \/ AttemptNodeUndo(g) \/ AttemptsFailed(g)
    BY <2>2, <2>3, <2>8 DEF ReconcileConnectingOptions, AttemptNodeUndo, AttemptsFailed
  <2> QED BY <2>4, <2>5, <2>6, <2>7, <2>8 DEF Loop
<1>4. LoopsOfProfile'
  BY <1>2, <1>3 DEF LoopsOfProfile
<1>5. OffOfProfile'
  <2>1. CASE ReconcileConnectingOptions(g)
    <3> DEFINE job == [kind |-> "reconcile", gen |-> g, node |-> loop[g].node, p |-> stored]
    <3>1. \/ off' = off
          \/ off' = off \cup {job} /\ stored # {} /\ loop[g].pc = "reconcile"
      BY <2>1 DEF ReconcileConnectingOptions
    <3> QED BY <1>0, <1>2, <2>1, <3>1 DEF ProfileInv, OffOfProfile, ReconcileConnectingOptions
  <2>2. CASE ~ReconcileConnectingOptions(g)
    BY <2>2 DEF Loop, RunFallbackNext, AttemptNodeCheck, AttemptNodeStart, AttemptNodeProbe, RecordSuccess,
       AttemptNodeUndo, AttemptsFailed, ProfileInv, OffOfProfile
  <2> QED BY <2>1, <2>2
<1> QED BY <1>1, <1>4, <1>5 DEF ProfileInv, TxOfProfile

\* Every step of a scene without refreshes keeps the profile what it is.
LEMMA ProfileStep ==
  ASSUME Shape, LockInv, ProfileInv, "refresh" \notin Commands, [Next]_<<vars, scene>>
  PROVE  ProfileInv'
<1>0. /\ cmd \in [Clients -> CmdT] /\ tx \in TxT /\ stored \in {{}, scene.nodes} /\ refresh = {}
      /\ off \subseteq Detached
  BY DEF Shape, ProfileInv
<1>1. CASE UNCHANGED <<vars, scene>>
  BY <1>1 DEF vars, ProfileInv, TxOfProfile, LoopsOfProfile, OffOfProfile
<1> SUFFICES ASSUME Next PROVE ProfileInv'
  BY <1>1
<1>2. scene' = scene
  BY DEF Next
<1>3. ASSUME UNCHANGED <<refresh, stored, chain, cmd, loop>>, TxOfProfile', OffOfProfile' PROVE ProfileInv'
  BY <1>2, <1>3 DEF ProfileInv, LoopsOfProfile
<1>4. ASSUME UNCHANGED <<refresh, stored, chain, cmd, loop, tx>>, OffOfProfile' PROVE ProfileInv'
  <2>1. TxOfProfile'
    BY <1>2, <1>4 DEF ProfileInv, TxOfProfile
  <2> QED BY <1>3, <1>4, <2>1
<1>5. ASSUME UNCHANGED <<refresh, stored, chain, cmd, loop, tx, off>> PROVE ProfileInv'
  <2>1. OffOfProfile'
    BY <1>2, <1>5 DEF ProfileInv, OffOfProfile
  <2> QED BY <1>4, <1>5, <2>1
<1>6. ASSUME NEW g \in Gens, WatchProcess(g) PROVE ProfileInv'
  <2>1. CASE WatchProcessHandle(g)
    <3>1. \/ off' = off
          \/ off' = off \cup {[kind |-> "relaunch", gen |-> g, node |-> liveNode(watcher[g].node), p |-> stored]}
      BY <2>1 DEF WatchProcessHandle
    <3>2. OffOfProfile'
      BY <1>0, <1>2, <3>1 DEF ProfileInv, OffOfProfile
    <3> QED BY <1>4, <2>1, <3>2 DEF WatchProcessHandle, settings
  <2>2. CASE ~WatchProcessHandle(g)
    BY <1>5, <1>6, <2>2 DEF WatchProcess, WatchProcessExit, WatchProcessDied, settings
  <2> QED BY <2>1, <2>2
<1>7. ASSUME NEW g \in Gens, HealthWatcher(g) PROVE ProfileInv'
  <2>1. CASE HealthWatchExit(g)
    BY <1>5, <2>1 DEF HealthWatchExit, settings
  <2>2. CASE HealthFailover(g)
    <3>1. \/ off' = off
          \/ off' = off \cup {[kind |-> "failover", gen |-> g, node |-> health[g].active, p |-> {}]}
      BY <2>2 DEF HealthFailover
    <3>2. OffOfProfile'
      BY <1>2, <3>1 DEF ProfileInv, OffOfProfile
    <3> QED BY <1>4, <2>2, <3>2 DEF HealthFailover, settings
  <2>3. CASE HealthWatchTryLock(g)
    <3>1. \/ tx' = tx
          \/ tx' = [NoTx EXCEPT !.pc = "select", !.why = "autoswitch", !.g = g, !.node = health[g].target,
                                !.avoid = state.node]
      BY <2>3 DEF HealthWatchTryLock
    <3>2. tx' = tx \/ (tx'.p = {} /\ tx'.todo = {} /\ tx'.why # "reconcile")
      BY <3>1, BlanksOfProfile DEF TxT
    <3>3. TxOfProfile' /\ OffOfProfile'
      BY <1>2, <2>3, <3>2 DEF HealthWatchTryLock, ProfileInv, TxOfProfile, OffOfProfile
    <3> QED BY <1>3, <2>3, <3>3 DEF HealthWatchTryLock, settings
  <2> QED BY <1>7, <2>1, <2>2, <2>3 DEF HealthWatcher
<1>8. CASE DetachedRun
  <2>1. ASSUME NEW o \in off, StartConnectIfCurrent(o) PROVE ProfileInv'
    <3>1. tx' = tx \/ tx' = [NoTx EXCEPT !.pc = "prepare", !.why = o.kind, !.p = o.p, !.node = o.node]
      BY <2>1 DEF StartConnectIfCurrent
    <3>2. \/ tx' = tx
          \/ tx'.p = o.p /\ tx'.todo = {} /\ tx'.why = o.kind /\ tx'.node = o.node /\ tx'.avoid = None
      BY <3>1, BlanksOfProfile DEF TxT
    <3>3. off' \subseteq off
      BY <2>1 DEF StartConnectIfCurrent
    <3>4. TxOfProfile' /\ OffOfProfile'
      BY <1>2, <3>2, <3>3 DEF ProfileInv, TxOfProfile, OffOfProfile
    <3> QED BY <1>3, <2>1, <3>4 DEF StartConnectIfCurrent, settings, goroutines
  <2>2. ASSUME NEW o \in off, FailoverStart(o) PROVE ProfileInv'
    <3>1. \/ tx' = tx
          \/ tx' = [NoTx EXCEPT !.pc = "prepare", !.why = "failover", !.p = stored, !.avoid = o.node]
      BY <2>2 DEF FailoverStart
    <3>2. tx' = tx \/ (tx'.p = stored /\ tx'.todo = {} /\ tx'.why = "failover")
      BY <3>1, BlanksOfProfile DEF TxT
    <3>3. off' \subseteq off
      BY <2>2 DEF FailoverStart
    <3>4. TxOfProfile' /\ OffOfProfile'
      BY <1>0, <1>2, <3>2, <3>3 DEF ProfileInv, TxOfProfile, OffOfProfile
    <3> QED BY <1>3, <2>2, <3>4 DEF FailoverStart, settings, goroutines
  <2> QED BY <1>8, <2>1, <2>2 DEF DetachedRun
<1>9. CASE Environment
  <2>1. ~StoreUpdate /\ \A servers : ~RefreshProfile(servers)
    BY <1>0 DEF StoreUpdate, RefreshProfile
  <2> QED BY <1>5, <1>9, <2>1 DEF Environment, ProcessDies, ReconcileSystemProxyWhenIdle, HealthWatchDegraded,
          WatchTunLost, settings, goroutines
<1>10. CASE Close \/ Closed
  <2>1. tx' = tx \/ tx' = [NoTx EXCEPT !.pc = "bump", !.why = "close"]
    BY <1>10 DEF Close, Closed, CloseBegin, CloseTeardown, CloseRestore, CloseJoin, vars
  <2>2. tx' = tx \/ (tx'.p = {} /\ tx'.todo = {} /\ tx'.why # "reconcile")
    BY <2>1, BlanksOfProfile DEF TxT
  <2>3. UNCHANGED <<refresh, stored, chain, cmd, loop, off>>
    BY <1>10 DEF Close, Closed, CloseBegin, CloseTeardown, CloseRestore, CloseJoin, vars, settings, goroutines
  <2>4. TxOfProfile' /\ OffOfProfile'
    BY <1>2, <2>2, <2>3 DEF ProfileInv, TxOfProfile, OffOfProfile
  <2> QED BY <1>3, <2>3, <2>4
<1>11. ASSUME NEW g \in Gens, TunWatcher(g) PROVE ProfileInv'
  BY <1>5, <1>11 DEF TunWatcher, WatchTunInit, WatchTunExit, WatchTunStop, settings
<1> QED BY <1>2, <1>6, <1>7, <1>8, <1>9, <1>10, <1>11, ProfileCommands, ProfileTransaction, ProfileLoop DEF Next

\* A daemon that has just started knows the profile it loaded.
LEMMA ProfileInit == Init => ProfileInv
<1> SUFFICES ASSUME Init PROVE ProfileInv
  OBVIOUS
<1>1. /\ refresh = {} /\ stored = scene.nodes /\ chain = None /\ tx = NoTx
      /\ loop = [g \in Gens |-> NoLoop] /\ cmd = [c \in Clients |-> Ready]
  BY DEF Init
<1>2. OffOfProfile
  BY <1>1 DEF Init, AutoconnectOnStart, OffOfProfile
<1> QED BY <1>1, <1>2, BlanksOfProfile DEF ProfileInv, TxOfProfile, LoopsOfProfile

\* Is the running tunnel built with what the state advertises?
Applied ==
  /\ \A o \in {"kill_switch", "tls_fragment"} : live.built[o] = opts[o]
  /\ live.chain = chain

\* Is a reconcileConnectingOptions() of this generation on its way to a restart?
ReconcileDue ==
  \/ loop[gen].pc = "reconcile"
  \/ \E o \in off : o.kind = "reconcile" /\ o.gen = gen
  \/ tx.why = "reconcile" /\ tx.pc = "prepare"

\* The running tunnel is built with what the state advertises, or somebody is on the way to restart it.
AppliedOrDue ==
  MayConnect /\ proc = gen /\ guard.status # "error" /\ stored # {} =>
    Applied \/ reapplyDue \/ ReconcileDue \/ tx.pc = "bump"

\* recordSuccess() records as running what its loop was built with.
BuiltByLoop ==
  \A g \in Gens : loop[g].pc = "reconcile" => live.built = loop[g].opts /\ live.chain = loop[g].chain

\* Whoever changes an option or the chain re-applies it, or shows an error of host protection; and an error
\* is left only with a re-apply.
LEMMA SettingsMove ==
  ASSUME Shape, NEW c \in Clients, Command(c)
  PROVE  \/ cmd'[c].pc = "reapply"
         \/ guard'.status = "error"
         \/ UNCHANGED <<opts, chain, guard>>
         \/ UNCHANGED <<opts, chain>> /\ guard.status # "error"
<1>1. \A pc : Goto(c, pc) => cmd'[c].pc = pc
  BY DEF Goto, Shape, CmdT
<1>2. CASE \E on \in BOOLEAN : HandleSetKillSwitch(c, on)
  <2>1. PICK on \in BOOLEAN : HandleSetKillSwitch(c, on)
    BY <1>2
  <2>2. PICK r \in killSwitchProtection(on) :
          /\ guard' = r.g
          /\ r.ok /\ (on # opts["kill_switch"] \/ guard.status = "error") => Goto(c, "reapply")
    BY <2>1 DEF HandleSetKillSwitch
  <2>3. r.ok \/ r.g.status = "error"
    <3>1. \A good : \A q \in Native(good) : q.ok = TRUE \/ q.g = Fail(guard)
      BY DEF Native
    <3>2. Fail(guard).status = "error"
      BY DEF Fail, Shape, GuardT
    <3>3. r.ok = TRUE \/ \E good : r \in Native(good)
      BY DEF killSwitchProtection, releaseProtection
    <3> QED BY <3>1, <3>2, <3>3
  <2>4. opts' = [opts EXCEPT !["kill_switch"] = on] /\ chain' = chain
    BY <2>1 DEF HandleSetKillSwitch
  <2>5. on = opts["kill_switch"] => opts' = opts
    BY <2>4 DEF Shape, OptsT
  <2> QED BY <1>1, <2>2, <2>3, <2>4, <2>5
<1>3. CASE ~\E on \in BOOLEAN : HandleSetKillSwitch(c, on)
  BY <1>1, <1>3 DEF Command, HandleConnect, HandleDisconnect, HandleRemoveProfile, HandleSetOption,
     HandleSetMultihop, settings
<1> QED BY <1>2, <1>3

\* A restart of a profile that is whole finds candidates.
LEMMA ReconcileFindsCandidates ==
  ASSUME Shape, ProfileInv, tx.why = "reconcile", tx.pc = "prepare"
  PROVE  candidates(tx, chain) # {}
<1>1. /\ tx.p = scene.nodes /\ tx.node \in tx.p /\ tx.avoid = None
      /\ chain # None => chain.entry \in tx.p /\ chain.exit \in tx.p
  BY DEF ProfileInv, TxOfProfile
<1>2. chain # None => chain.exit # None
  BY NoneAssumption DEF Shape, ChainT
<1>3. validateMultihop(tx.p, chain)
  BY <1>1 DEF validateMultihop
<1>4. tx.node # None
  BY <1>1, NoneAssumption DEF Shape, TxT
<1> QED BY <1>1, <1>2, <1>3, <1>4 DEF candidates, explicitNode

\* What the watch of the running config needs is kept by loops and teardown().
LEMMA BuiltStep ==
  ASSUME Shape, FenceInv, BuiltByLoop, Next
  PROVE  BuiltByLoop'
<1>0. loop \in [Gens -> LoopT] /\ gen \in Nat
  BY DEF Shape, Gens
<1>1. ASSUME live' = live, \A g \in Gens : loop'[g] = loop[g] \/ loop'[g].pc # "reconcile" PROVE BuiltByLoop'
  BY <1>1 DEF BuiltByLoop
<1>2. ASSUME NEW g \in Gens, Loop(g) PROVE BuiltByLoop'
  <2>1. \A pc : LoopTo(g, pc) => /\ loop'[g].pc = pc /\ loop'[g].opts = loop[g].opts
                                 /\ loop'[g].chain = loop[g].chain
                                 /\ \A h \in Gens \ {g} : loop'[h] = loop[h]
    BY <1>0 DEF LoopTo, LoopT
  <2>2. Exit(g) => loop'[g].pc = "none" /\ \A h \in Gens \ {g} : loop'[h] = loop[h]
    BY LoopMoves
  <2>3. CASE RecordSuccess(g)
    <3>1. CASE LoopTo(g, "undo") /\ live' = live
      BY <1>1, <2>1, <3>1
    <3>2. CASE LoopTo(g, "reconcile") /\ live' = [gen |-> g, nodes |-> SelectorMembers(loop[g]),
                                                  built |-> loop[g].opts, chain |-> loop[g].chain]
      <4>1. \A h \in Gens : loop[h].pc # "reconcile"
        BY <2>3 DEF RecordSuccess, protectionOpFree
      <4> QED BY <2>1, <3>2, <4>1 DEF BuiltByLoop
    <3> QED BY <2>3, <3>1, <3>2 DEF RecordSuccess
  <2>4. CASE RunFallbackNext(g)
    <3>1. live' = live /\ \A h \in Gens \ {g} : loop'[h] = loop[h]
      BY <1>0, <2>1, <2>2, <2>4 DEF RunFallbackNext
    <3>2. loop'[g].pc # "reconcile"
      <4>1. ASSUME NEW n, loop' = [loop EXCEPT ![g].pc = "check", ![g].node = n, ![g].strat = 1, ![g].todo = @ \ {n}]
            PROVE  loop'[g].pc = "check"
        <5> DEFINE rest == loop[g].todo \ {n}
                   job == [loop[g] EXCEPT !.pc = "check", !.node = n, !.strat = 1, !.todo = rest]
        <5>1. loop' = [loop EXCEPT ![g] = job]
          BY <1>0, <4>1
        <5>2. job.pc = "check"
          <6> HIDE DEF rest
          <6> QED BY <1>0 DEF LoopT
        <5> HIDE DEF job
        <5> QED BY <1>0, <5>1, <5>2
      <4>2. Exit(g) \/ LoopTo(g, "fail") \/ loop'[g].pc = "check"
        BY <2>4, <4>1 DEF RunFallbackNext
      <4> QED BY <2>1, <2>2, <4>2
    <3> QED BY <1>1, <3>1, <3>2
  <2>5. CASE AttemptNodeProbe(g)
    <3>1. NextStrategy(loop[g]).pc = "check"
      BY <1>0 DEF NextStrategy, LoopT
    <3>2. live' = live /\ \A h \in Gens : loop'[h] = loop[h] \/ loop'[h].pc # "reconcile"
      BY <1>0, <2>1, <2>2, <2>5, <3>1 DEF AttemptNodeProbe, GiveUpNode
    <3> QED BY <1>1, <3>2
  <2>6. CASE AttemptNodeCheck(g) \/ AttemptNodeStart(g) \/ ReconcileConnectingOptions(g) \/ AttemptNodeUndo(g)
             \/ AttemptsFailed(g)
    <3>1. live' = live /\ \A h \in Gens : loop'[h] = loop[h] \/ loop'[h].pc # "reconcile"
      BY <2>1, <2>2, <2>6 DEF AttemptNodeCheck, AttemptNodeStart, ReconcileConnectingOptions, AttemptNodeUndo,
         AttemptsFailed, engine
    <3> QED BY <1>1, <3>1
  <2> QED BY <1>2, <2>3, <2>4, <2>5, <2>6 DEF Loop
<1>3. CASE TeardownSupersede
  BY <1>3 DEF TeardownSupersede, protectionOpFree, goroutines, BuiltByLoop
<1>4. CASE Transaction /\ ~TeardownSupersede
  <2>1. live' = live
    BY <1>4 DEF Transaction, SwitchSelect, SwitchConfirm, SwitchCommit, StartConnectPrepare, TeardownStop,
       TeardownDrained, DisconnectRelease, engine
  <2>2. loop' = loop \/ \E h \in Gens : loop' = [loop EXCEPT ![h] = NewLoop(tx)]
    <3>1. gen < MaxGen => gen + 1 \in Gens
      BY <1>0, BoundsAssumption DEF Gens
    <3> QED BY <1>4, <3>1 DEF Transaction, SwitchSelect, SwitchConfirm, SwitchCommit, StartConnectPrepare,
            TeardownStop, TeardownDrained, DisconnectRelease, goroutines
  <2>3. NewLoop(tx).pc = "next"
    BY Blanks DEF NewLoop, LoopT
  <2> QED BY <1>0, <1>1, <2>1, <2>2, <2>3
<1>5. CASE ~Transaction /\ \A g \in Gens : ~Loop(g)
  <2>1. live' = live /\ loop' = loop
    <3>1. \A c \in Clients : Command(c) \/ Handler(c) => live' = live /\ loop' = loop
      BY CommandMoves, HandlerMoves DEF engine, goroutines
    <3>2. \A g \in Gens : WatchProcess(g) \/ HealthWatcher(g) \/ TunWatcher(g) => live' = live /\ loop' = loop
      BY DEF WatchProcess, WatchProcessExit, WatchProcessDied, WatchProcessHandle, HealthWatcher, HealthWatchExit,
         HealthWatchTryLock, HealthFailover, TunWatcher, WatchTunInit, WatchTunExit, WatchTunStop, engine
    <3>3. DetachedRun \/ Environment \/ Close \/ Closed => live' = live /\ loop' = loop
      BY DEF DetachedRun, StartConnectIfCurrent, FailoverStart, Environment, ProcessDies,
         ReconcileSystemProxyWhenIdle, RefreshProfile, StoreUpdate, HealthWatchDegraded, WatchTunLost, Close,
         CloseBegin, CloseTeardown, CloseRestore, CloseJoin, Closed, vars, engine, goroutines
    <3> QED BY <1>5, <3>1, <3>2, <3>3 DEF Next
  <2> QED BY <1>1, <2>1
<1> QED BY <1>2, <1>3, <1>4, <1>5

\* Nothing that is owed to the running tunnel is forgotten, for a profile that stays as it is.
LEMMA AppliedStep ==
  ASSUME Shape, FenceInv, FenceInv', LockInv, NodesNamed, ReleaseIsDown, WalkIsReported,
         ProfileInv, BuiltByLoop, AppliedOrDue, "refresh" \notin Commands, Next
  PROVE  AppliedOrDue'
<1> DEFINE Goal == Applied' \/ reapplyDue' \/ ReconcileDue' \/ tx'.pc = "bump"
<1> SUFFICES ASSUME MayConnect', proc' = gen', guard'.status # "error", stored' # {} PROVE Goal
  BY DEF AppliedOrDue
<1>0. /\ gen \in Gens /\ gen \in Nat /\ proc \in Nat /\ 0 \in Nat /\ loop \in [Gens -> LoopT] /\ tx \in TxT
      /\ NoTx.pc = "free" /\ NoTx.why = "none"
      /\ \A st, n : Report(st, n).st = st
      /\ Idle.st = "idle" /\ CleanupFailed.st = "error"
  BY Blanks DEF Shape, Gens, Report, CleanupFailed
<1>1. stored # {} /\ ~Superseding' /\ proc <= gen
  BY SwitchesOn DEF FenceInv, FreshGeneration, ProcessOwned
<1> DEFINE Keeps == /\ loop[gen].pc = "reconcile" => loop'[gen].pc = "reconcile"
                    /\ \A o \in off : o.kind = "reconcile" /\ o.gen = gen =>
                         o \in off' \/ (tx'.why = "reconcile" /\ tx'.pc = "prepare")
                    /\ tx' = tx \/ tx.pc \notin {"prepare", "bump"}
                                \/ (tx.pc = "prepare" /\ tx.why # "reconcile")
                    /\ UNCHANGED <<gen, live>>
<1>2. ASSUME MayConnect, proc = gen, guard.status # "error", Keeps, UNCHANGED <<opts, chain>> PROVE Goal
  <2>1. Applied => Applied'
    BY <1>2 DEF Applied
  <2>2. reapplyDue => reapplyDue'
    BY ReapplyStaysDue
  <2>3. ReconcileDue => ReconcileDue'
    BY <1>2 DEF ReconcileDue
  <2> QED BY <1>1, <1>2, <2>1, <2>2, <2>3 DEF AppliedOrDue
<1>3. MayConnect \/ Goal
  <2>1. ASSUME NEW g \in Gens, RecordSuccess(g), state' # state PROVE ReconcileDue'
    <3>1. isCurrent(g) /\ LoopTo(g, "reconcile") /\ gen' = gen
      BY <2>1 DEF RecordSuccess
    <3> QED BY <3>1, LoopMoves DEF isCurrent, ReconcileDue
  <2> QED BY <2>1, ConnectsByRecord
<1>4. ASSUME NEW c \in Clients, Command(c) PROVE Goal
  <2>1. UNCHANGED <<gen, goroutines, off, tx, engine>>
    BY <1>4, CommandMoves
  <2>2. CASE cmd'[c].pc = "reapply"
    BY <2>2 DEF reapplyDue
  <2>3. CASE UNCHANGED <<opts, chain>> /\ guard.status # "error"
    BY <1>2, <1>3, <2>1, <2>3 DEF goroutines, engine
  <2> QED BY <1>4, <2>2, <2>3, SettingsMove
<1>5. ASSUME NEW c \in Clients, Handler(c) PROVE Goal
  <2>1. UNCHANGED <<gen, goroutines, off, engine, guard, opts>> /\ (tx' = tx \/ tx.pc = "free")
    BY <1>5, HandlerMoves
  <2>2. chain' = chain
    BY <1>5 DEF Handler, HandleConnectSwitch, HandleConnectRefused, HandleConnectRenews, HandleConnectStart,
       HandleDisconnectTeardown, HandleRemoveProfileTeardown, StoreRemove, ReapplyLive, settings
  <2> QED BY <1>2, <1>3, <2>1, <2>2 DEF goroutines, engine
<1>6. CASE Transaction
  <2>0. UNCHANGED <<opts, chain, off>>
    BY <1>6 DEF Transaction, SwitchSelect, SwitchConfirm, SwitchCommit, StartConnectPrepare, TeardownSupersede,
       TeardownStop, TeardownDrained, DisconnectRelease, settings
  <2>1. CASE SwitchSelect \/ SwitchConfirm \/ SwitchCommit
    BY <1>2, <1>3, <2>0, <2>1 DEF SwitchSelect, SwitchConfirm, SwitchCommit, engine
  <2>2. CASE StartConnectPrepare
    <3>1. CASE tx'.pc = "bump"
      BY <3>1
    <3>2. CASE tx'.pc # "bump"
      <4>1. [tx EXCEPT !.pc = "bump", !.chain = chain, !.todo = candidates(tx, chain)].pc = "bump"
        BY <1>0 DEF TxT
      <4>2. \/ candidates(tx, chain) = {} /\ guard' = guard
            \/ \E r \in prepareProtection : ~r.ok /\ guard' = r.g
        BY <2>2, <3>2, <4>1 DEF StartConnectPrepare
      <4>3. ASSUME NEW r \in prepareProtection, ~r.ok PROVE r.g.status = "error"
        <5>1. \A good : \A q \in Native(good) : q.ok = TRUE \/ q.g = Fail(guard)
          BY DEF Native
        <5>2. Fail(guard).status = "error"
          BY DEF Fail, Shape, GuardT
        <5>3. r.ok = TRUE \/ (r.g = guard /\ guard.status = "error") \/ \E good : r \in Native(good)
          BY DEF prepareProtection
        <5> QED BY <4>3, <5>1, <5>2, <5>3
      <4>4. candidates(tx, chain) = {} /\ guard' = guard
        BY <4>2, <4>3
      <4>5. tx.why # "reconcile" /\ tx.pc = "prepare"
        BY <2>2, <4>4, ReconcileFindsCandidates DEF StartConnectPrepare
      <4> QED BY <1>2, <1>3, <2>0, <2>2, <4>4, <4>5 DEF StartConnectPrepare, goroutines, engine
    <3> QED BY <3>1, <3>2
  <2>3. CASE TeardownSupersede
    BY <1>0, <1>1, <2>3 DEF TeardownSupersede
  <2>4. CASE TeardownStop
    BY <1>0, <2>4 DEF TeardownStop, FenceInv, FreshGeneration, Superseding
  <2>5. CASE TeardownDrained
    <3>1. proc' = proc /\ proc # gen /\ tx.pc = "drain"
      BY <2>5 DEF TeardownDrained, engine, FenceInv, FreshGeneration, Superseding
    <3>2. gen' # gen
      BY <3>1
    <3>3. state' = Report("connecting", None) /\ tx' = NoTx
      BY <2>5, <3>2 DEF TeardownDrained, Unlock
    <3> QED BY <1>0, <3>3 DEF MayConnect
  <2>6. CASE DisconnectRelease
    BY <1>0, <2>6 DEF DisconnectRelease, ReleaseIsDown, LockInv, MayConnect, Unlock
  <2> QED BY <1>6, <2>1, <2>2, <2>3, <2>4, <2>5, <2>6 DEF Transaction
<1>7. ASSUME NEW g \in Gens, Loop(g) PROVE Goal
  <2>0. /\ UNCHANGED <<gen, opts, chain, tx, stored>>
        /\ \A pc : LoopTo(g, pc) => loop'[g].pc = pc
    BY <1>7, LoopMoves DEF Loop, RunFallbackNext, AttemptNodeCheck, AttemptNodeStart, AttemptNodeProbe,
       RecordSuccess, ReconcileConnectingOptions, AttemptNodeUndo, AttemptsFailed, settings
  <2>1. loop[g].pc # "none" /\ ~Superseding
    BY <1>1, <1>7, <2>0 DEF Loop, RunFallbackNext, AttemptNodeCheck, AttemptNodeStart, AttemptNodeProbe,
       RecordSuccess, ReconcileConnectingOptions, AttemptNodeUndo, AttemptsFailed, Superseding
  <2>2. g = gen
    BY <2>1 DEF FenceInv, OneGeneration, Running
  <2>3. CASE ReconcileConnectingOptions(g)
    <3>1. live.built = loop[g].opts /\ live.chain = loop[g].chain
      BY <2>3 DEF ReconcileConnectingOptions, BuiltByLoop
    <3>2. CASE optionsChanged(loop[g])
      <4> DEFINE job == [kind |-> "reconcile", gen |-> g, node |-> loop[g].node, p |-> stored]
      <4>1. job \in off' /\ job.kind = "reconcile" /\ job.gen = gen'
        BY <1>1, <2>0, <2>2, <2>3, <3>2 DEF ReconcileConnectingOptions
      <4> HIDE DEF job
      <4> QED BY <4>1 DEF ReconcileDue
    <3>3. CASE ~optionsChanged(loop[g])
      <4>1. Applied
        BY <3>1, <3>3 DEF optionsChanged, Reconciled, Applied
      <4> QED BY <2>0, <2>3, <4>1 DEF ReconcileConnectingOptions, engine, Applied
    <3> QED BY <3>2, <3>3
  <2>4. CASE ~ReconcileConnectingOptions(g)
    <3>1. Walking(gen)
      BY <1>7, <2>2, <2>4 DEF Walking, Loop, RunFallbackNext, AttemptNodeCheck, AttemptNodeStart, AttemptNodeProbe,
         RecordSuccess, AttemptNodeUndo, AttemptsFailed
    <3>2. tx.why \in {"failover", "switch", "autoswitch"} => tx.pc = "bump"
      BY <2>1, <3>1 DEF WalkIsReported, LockInv, Superseding, TxT, Shape
    <3>3. state.st # "connected"
      BY <3>1 DEF WalkIsReported
    <3> QED BY <1>3, <2>0, <3>2, <3>3 DEF MayConnect
  <2> QED BY <2>3, <2>4
<1>8. ASSUME NEW g \in Gens, WatchProcess(g) \/ HealthWatcher(g) \/ TunWatcher(g) PROVE Goal
  <2>1. /\ UNCHANGED <<gen, live, opts, chain, loop>> /\ off \subseteq off'
        /\ guard' \in {guard, Interrupted(guard)} /\ (proc' = proc \/ proc' = 0)
        /\ tx' = tx \/ tx.pc = "free"
    BY <1>8 DEF WatchProcess, WatchProcessExit, WatchProcessDied, WatchProcessHandle, HealthWatcher, HealthWatchExit,
       HealthWatchTryLock, HealthFailover, TunWatcher, WatchTunInit, WatchTunExit, WatchTunStop, settings, engine,
       connMuFree
  <2>2. guard.status # "error"
    BY <2>1 DEF Interrupted, Shape, GuardT
  <2>3. proc = gen
    BY <1>0, <1>1, <2>1
  <2> QED BY <1>2, <1>3, <2>1, <2>2, <2>3
<1>9. CASE DetachedRun
  <2>1. ASSUME NEW o \in off, StartConnectIfCurrent(o) PROVE Goal
    <3>1. /\ UNCHANGED <<gen, live, opts, chain, loop, guard, proc>> /\ off' = off \ {o} /\ tx.pc = "free"
      BY <2>1 DEF StartConnectIfCurrent, settings, goroutines, engine, connMuFree
    <3>2. isCurrent(o.gen) => tx'.why = o.kind /\ tx'.pc = "prepare"
      BY <1>0, <2>1, BlanksOfProfile DEF StartConnectIfCurrent, notSuperseded, TxT
    <3> QED BY <1>2, <1>3, <3>1, <3>2 DEF isCurrent
  <2>2. ASSUME NEW o \in off, FailoverStart(o) PROVE Goal
    <3>1. /\ UNCHANGED <<gen, live, opts, chain, loop, guard, proc>> /\ off' = off \ {o} /\ tx.pc = "free"
          /\ o.kind = "failover"
      BY <2>2 DEF FailoverStart, settings, goroutines, engine, connMuFree
    <3> QED BY <1>2, <1>3, <3>1
  <2> QED BY <1>9, <2>1, <2>2 DEF DetachedRun
<1>10. CASE Environment
  <2>1. ~StoreUpdate /\ \A servers : ~RefreshProfile(servers)
    BY DEF StoreUpdate, RefreshProfile, ProfileInv
  <2>2. UNCHANGED <<gen, live, opts, chain, loop, guard, off, tx>> /\ (proc' = proc \/ proc' = 0)
    BY <1>10, <2>1 DEF Environment, ProcessDies, ReconcileSystemProxyWhenIdle, HealthWatchDegraded, WatchTunLost,
       settings, goroutines, engine
  <2>3. proc = gen
    BY <1>0, <1>1, <2>2
  <2> QED BY <1>2, <1>3, <2>2, <2>3
<1>11. CASE Close \/ Closed
  <2>1. UNCHANGED <<gen, live, opts, chain, loop, guard, off, proc>> /\ (tx' = tx \/ tx.pc = "free")
    BY <1>11 DEF Close, CloseBegin, CloseTeardown, CloseRestore, CloseJoin, Closed, vars, settings, goroutines,
       engine, connMuFree
  <2> QED BY <1>2, <1>3, <2>1
<1> QED BY <1>4, <1>5, <1>6, <1>7, <1>8, <1>9, <1>10, <1>11 DEF Next

\* Options apply, for every scene: when the dust settles over a profile that stayed as it is, the running
\* config was built with the kill switch, the TLS and tun options and the chain the state advertises,
\* however the changes and the connect interleaved (connect.go: reapplyLive, recordSuccess,
\* reconcileConnectingOptions).
THEOREM SessionOptions == Spec => []LiveOptionsApplied
<1> DEFINE Stable == "refresh" \notin Commands
           Base == /\ Shape /\ ProxyOwed /\ FenceInv /\ LockInv /\ StatusInv /\ NodesNamed
                   /\ ReleaseIsDown /\ BuiltByLoop
           Inv == Base /\ (Stable => ProfileInv /\ AppliedOrDue)
<1>1. Init => Inv
  <2>1. Init => NodesNamed /\ ReleaseIsDown /\ BuiltByLoop /\ AppliedOrDue
    BY Blanks DEF Init, NodesNamed, ReleaseIsDown, BuiltByLoop, AppliedOrDue, MayConnect
  <2> QED BY <2>1, ShapeInit, FenceInit, LockInit, StatusInit, ProfileInit
<1>2. Inv /\ [Next]_<<vars, scene>> => Inv'
  <2> SUFFICES ASSUME Inv, [Next]_<<vars, scene>> PROVE Inv'
    OBVIOUS
  <2>1. CASE UNCHANGED <<vars, scene>>
    <3>1. Base'
      <4>1. ReleaseIsDown' /\ BuiltByLoop'
        BY <2>1 DEF vars, ReleaseIsDown, BuiltByLoop, wgZero
      <4> QED BY <4>1, ShapeStep, FenceStep, LockStep, StatusStep, NamedStep
    <3>2. Stable' => Stable
      BY <2>1 DEF Commands
    <3>3. Stable => ProfileInv'
      BY ProfileStep
    <3>4. AppliedOrDue => AppliedOrDue'
      BY <2>1 DEF vars, AppliedOrDue, MayConnect, Applied, reapplyDue, ReconcileDue
    <3> QED BY <3>1, <3>2, <3>3, <3>4
  <2>2. CASE Next
    <3>1. Shape' /\ FenceInv' /\ LockInv' /\ StatusInv' /\ NodesNamed' /\ ProxyOwed'
      BY ShapeStep, FenceStep, LockStep, StatusStep, NamedStep
    <3>2. ReleaseIsDown' /\ BuiltByLoop'
      BY <2>2, ReleaseStep, BuiltStep
    <3>3. Stable' => Stable
      BY <2>2 DEF Next, Commands
    <3>4. Stable => ProfileInv' /\ AppliedOrDue'
      BY <2>2, <3>1, ProfileStep, AppliedStep DEF StatusInv
    <3> QED BY <3>1, <3>2, <3>3, <3>4
  <2> QED BY <2>1, <2>2
<1>3. Inv => LiveOptionsApplied
  <2> SUFFICES ASSUME Inv, Stable, Quiet, state.st = "connected", proc = gen, guard.status # "error", stored # {}
               PROVE  Applied
    BY DEF LiveOptionsApplied, Applied
  <2>1. tx.pc = "free" /\ tx.why = "none" /\ gen \in Gens
    BY DEF Quiet, connMuFree, LockInv, Shape
  <2>2. ~reapplyDue /\ ~ReconcileDue
    BY <2>1, Blanks DEF Quiet, reapplyDue, ReconcileDue
  <2> QED BY <2>1, <2>2 DEF AppliedOrDue, MayConnect
<1> HIDE DEF Inv
<1> QED BY <1>1, <1>2, <1>3, PTL DEF Spec
=============================================================================
