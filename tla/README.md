# Tenebra: a TLA+ model of the core daemon

Tenebra is a VPN client. A privileged Go daemon (`cmd/tenebra-core`, `core/`)
runs one sing-box process and is driven over a local socket or pipe by a
desktop UI. This directory models the daemon's own logic: who may start, stop
and report a connection, what protects the host meanwhile, in which order exits
are tried, what the config says, and what survives a restart. sing-box, the
operating systems and the network are environment: they may fail or answer at any
point the code allows.

## Inventory

| Component | State | Operations | Interacts with | What makes it hard |
|---|---|---|---|---|
| Connection lifecycle (`connect.go`) | `generation`, `state`, `connMu`, `wg`, `relaunchWG`, `relaunches` | connect, disconnect, re-apply, relaunch, autoconnect, Close | runner, guard, proxy, store | superseded goroutines, detached reconnects, process death at any time |
| Health failover, live switch (`health.go`, `hotswitch.go`) | `live`, the selector, switch budget | degrade, TryLock, Select, confirm, revert, commit, failover | lifecycle, runner | locks taken against a teardown that waits; one of several steps failing |
| Interface watcher (`tunwatch.go`) | per connection | initialise, lost, stop | guard's TunnelPresent | a stale look at a replaced tunnel |
| Option setters (`daemon.go`) | `routing`, `tun`, `multihop` | set_kill_switch, set_tls_fragment, set_tun, set_routing, set_multihop, set_system_proxy | lifecycle | an option toggled while a config built from a snapshot comes up |
| Host protection (`core/protection`, `protection.go`) | guard's state, verified tunnel, kernel policy | Recover, Prepare, VerifyTunnel, Accepted, Interrupted, Release, TunnelPresent | lifecycle, kernel | native calls that fail, crashes between commit and confirm |
| System proxy (`proxy.go`) | armed, applied, the OS setting | arm, disarm, idle restore | lifecycle | a restore that fails after the process is gone |
| Profile store, refresh (`core/profile`, `refresh.go`) | servers of a profile | update, remove | setters, lifecycle | check, network call, update |
| Fallback (`core/fallback`) | order, cursor, last-good | New, NewByLatency, Next, Success, Failure | lifecycle | repeated servers, zero measurements, remembered nodes |
| Control server (`server.go`, `listener.go`) | sessions, output queue | serve, emit, drop | everything | a client that does not drain |
| Settings, last-good and strategy files | memory and one file each | set, snapshot, save, load, migrate | setters, lifecycle | two saves in the other order, a crash between the steps |
| DPI bypass control (`zapret.go`, `zapret_update.go`, `bypassverify.go`) | the persisted flag, `zapretOpMu`, the running filter | start, stop, pick, update, import, restore at start-up, background update, check after a connect | lifecycle, bundle directory | two locks in two orders; a wish that is stale when winws starts |
| DPI bypass runtime (`core/zapret`) | bundle directory, its user lists | Discover, Pick, Apply, EnsureEmbedded, ImportZip | control | cut, padded or forged downloads; a swap that is several renames |
| Config builder, routing rules (`core/singbox`, `core/routing`) | none | Build, BuildProbe, RouteRules, DNS, RouteRuleSets | rule-set files | rule precedence, tags, files that change between two looks |
| Node checks (`nodecheck.go`) | one slot, ports, a probe process | check, cancel, rank | server, runner | a bounded pool under a budget |
| Platform runners (`adapters/*/runner.go`) | process, temporary config, exit channel | Start, Stop, Done, Select | lifecycle, OS | hand-over of the exit channel, the core's own death |
| Tunnel conflict guard (`core/tunguard`, `routes_*.go`) | none | scan, sweep, compare | lifecycle | partial routes that add up to a default route |
| Per-user proxy on Windows (`user_proxy_lease.go`, `session_proxy.go`, `proxy_windows.go`) | the lease in the user's registry | apply, restore, release | lifecycle, helper process | the helper or the service dies in the middle; the user edits |
| Log rotation (`core/logrot`) | generations of one file | write, rotate, prune, tail | service | a rename of several fails |
| Subscription parsing, DNS tools, ping, leak check, diagnostics, entry point, UIs, mobile | none of their own | text, I/O | — | — |

What makes each correct is listed with its runs below. `PROJECT.json` lists every
component with its sources and status, and every hazard with its line.

## Modules

* **GuardOps** – the guard's record (`status`, `enforced`, `tunnel`) and what
  each outcome of an operation does to it (`set`, `confirm`, `fail`,
  `Accepted`, `Interrupted` of `guard.go`). Shared by HostGuard and Session.
* **HostGuard** – `Guard` over the kernel's filter policy. `op` is the holder of
  `Guard.op` and how far it got (called, committed, failed); `kernel` is the
  policy; `up` and `Crash` restart the daemon between any two steps. The native
  call is a transaction, as in `wfp_windows.go`: it commits or leaves the policy
  alone, but may report an error in either case. `watch` is a `TunnelPresent`
  call in three steps (copy the pointer, ask the OS, compare).
* **ProtectionProofs** – its theorems, and those of ConfigBuild below.
* **Session** – the connection lifecycle. A generation has a fallback loop and
  three watchers, each with a program counter; whoever holds `connMu` runs the
  transaction `tx`; handlers of control sessions are `cmd`; goroutines on
  `relaunchWG` are `off`. A step is what one goroutine does between two places
  where another may come in: a lock, a wait, a call out of the process. The
  guard and the proxy are the same operators with outcomes that may fail.
  **SessionProofs** has its theorems.
* **Fallback**, **Walk** – the ordered walk over the candidates and the last-good
  memory; and the unordered walk that Session uses (`loop[g].todo`), of which
  Fallback is shown to be an implementation (`ImplementsWalk`; proved, like the
  order itself, in **OrderProofs**).
* **ZapretOps**, **Zapret** – the decisions of the DPI bypass (strategy order,
  ranking, which release is newer, which download is trusted), and the bypass as
  the daemon drives it: the serial command loop, the update job and the check
  after a connect, over `zapretOpMu`, `connMu`, one filter process and one bundle
  directory. **ZapretProofs** has its theorems.
* **Serve** – a `Server` per client stream with its bounded queue, writer, reader,
  request loop and background lane, and the two transports that own one.
  **ServeProofs** has its theorems.
* **NodeCheck** – `check_nodes`: slot, port blocks, probe process, worker pool,
  budget, ranking. **OrderProofs** has its theorems too: both rest on the sort of
  **Sorting**.
* **Runner**, **TunGuard**, **Launch** – the runners of Linux (with macOS) and
  Windows; the conflict check with the cover sweep of the route table; and a
  connect on one machine, the check first and the runner after it.
  **RunnerProofs** has the theorems of all three.
* **UserProxy** – the proxy of an interactive Windows user: the choice of the
  user, the helper process, its journal, and what the daemon keeps as pending.
  **UserProxyProofs** has its theorems.
* **RoutingOps**, **Outbounds**, **Selector**, **ConfigBuild** – the routing
  options and the two rule lists as first-match decisions; node validation; tags,
  selector and multihop chain; and one build over a rule-set directory that may
  change meanwhile.
* **Store**, **Saves**, **LogRotate** – the profile store; settings and learned
  caches with their concurrent saves; the rotated log. **MCFiles** runs them.
* **FilesProofs** – the theorems of the three.
* **MC...** – instances for TLC. Those of Session choose a scene: which commands,
  options, watchers and faults a behaviour may have. The scene is a variable that
  never changes, so one run covers several.

Session and the code:

| Code | Session |
|---|---|
| `Daemon.generation`, `isCurrent`, the connection's context | `gen`, `isCurrent`; cancel and bump are one critical section of `teardown` |
| `teardown` | `TeardownSupersede` (bump, cancel), `TeardownStop`, `TeardownDrained` (`wg.Wait`, proxy restore, new state) |
| `startConnect` up to its teardown | `StartConnectPrepare`: candidates, `prepareProtection`, option snapshot |
| `runFallback`, `attemptNode`, `recordSuccess` | `RunFallbackNext`, `AttemptNode*`, `RecordSuccess`, `ReconcileConnectingOptions` |
| `watchProcess`, `killSwitchRelaunch`, `startConnectIfCurrent` | `WatchProcess*`, `StartConnectIfCurrent` |
| `healthWatch`, `autoSwitchAway`, `healthFailover` | `HealthWatch*`, `HealthFailover`, `FailoverStart` |
| `switchNode`, `commitSwitch` | `Switch*`: select, confirm, commit or revert, each its own step |
| setters and `reapplyLive` | `HandleSetOption`, `HandleSetKillSwitch`, `HandleSetMultihop`, `ReapplyLive` |
| `refreshProfile` | `RefreshProfile` (the check), `StoreUpdate` (after `lookupTier`) |
| `Close`, `ServeListener`'s end | `CloseBegin`, `CloseTeardown`, `CloseRestore`, `CloseJoin` |

The other modules and the code:

| Code | Model |
|---|---|
| `zapretOpMu`, `connMu` in `zapret.go` | `op`, `conn`; a handler is a program counter of its thread, with a step per call that can wait or fail |
| `Runner.Start`, `Stop`, `Pick` of `core/zapret` | `Start` and `Launch`, `StopGo`, `PickGo` to `PickEnd`, over the one filter |
| `Apply` and the embedded install: lookup, check, carry over, swap | `UpdateLookup`, `UpdateApply`, `EmbedInstall`, `MoveAside`, `MoveIn`, `EndSwap` |
| `ImportZip`, which takes no `zapretOpMu` | `ImportWipe` to `ImportStamp` |
| `Server.out`, `emit`, `writeLoop`, `serveStream` | `enqueue`, `Emit`, `Writer`, `ScanLine`, `ScanEnds` and `Loop` |
| `ServeListener`'s accept loop and owner | `Dial`, `Owner` |
| `handleCheckNodes`, `probeBindings` | `Begin`, `Launch`, `WaitForProbeListeners`, `LaunchNode`, `ProbeNode`, `Finish`; of the probe process, its death `ProbeDies` and the reaper making it readable `PublishExit` |
| `Runner.Start` on Windows: suspended, job, resume | `StartSuspended`, `Assign`, `Resume`, with a crash of the core between any two |
| the runner's `cmd.Wait` goroutine | `Reap`, `Clear` (takes `r.mu`), `Publish` |
| the route scan, `routeCover`, `winsRoute`, `checkTunConflict` | `readRoutes`, the sweep `coversWithin`, the verdict |
| `applyUserProxy`, `restoreUserProxy` | `Load`, `Snapshot` (reads), `Write`, `Verify`, `Confirm`; `restoreUserProxy` (reads and decides), `WriteBack`, `Readback`; the user may edit between any two |
| `Build` with `RouteRules`, `DNS`, `RouteRuleSets` | `BuildOutbounds`, `BuildDNS`, `routeBlock`, `BuildRuleSets`, with `FilesChange` between |
| `Store.Add`, `Update`, `Remove`, `save` | `Add`, `Update`, `RemoveProfile`, then `save` and `Return`, or `saveFails` with its rollback |
| setters, `persistSettings`, `Set` of the caches | `Set`, `Learn` and `persistSettings` under the lock, `Save` and `SaveCache` after it |
| `Writer.rotate`, `prune` | `Rotate`, `Shift`, `RenameActive`, `Finish`: a rename or delete per step |

Data is reduced to what the properties tell apart. A profile is its set of
servers; one profile is enough, since a session has one and what matters of
another is that a connect supersedes. Options are one flag per way the code
treats them (re-applied and reconciled; re-applied only; proxy mode). Time is a
choice: a probe, a cooldown or a budget may answer either way at any step. The
attempts, traffic and log events change nothing but the UI and are left out.

Operators marked as mutants, or described as faulty variants, are
not part of the specifications. Each changes one definition the way a plausible
mistake in the code would; put in its place, it makes TLC report the property
that `PROJECT.json` lists beside it. They show that each property bites.

## Runs

Every passing run exhausts its state space.

| Run | Instance | Properties |
|---|---|---|
| `host_guard` | 2 adapter identities, 3 addresses | What the guard reports is enforced (`EnforcementIsReal`), only the verified tunnel is permitted (`NoStalePermit`), only Release opens the host (`FailClosed`), a replaced tunnel is not reported as lost (`NoFalseAbsence`) |
| `sessions` | 4 scenes of 2–3 events: two clients on one profile; kill switch, TLS option and a multihop chain that change during a connect; failing protection and proxy calls; all watchers with live switches | `Fence`, `StatusIsTrue`, `LiveOptionsApplied`, `NoStrandedProxy`, `KillSwitchHolds`, `ReportsAreEarned` |
| `live` | fair; one node with 2 strategies, and two nodes with all watchers; 2 events | `ConnectSettles`, `DeathIsReported`, `CloseReturns` |
| `fallback` | 3 nodes, lists of up to 3 servers with repeats, round-trips none, 0, 1, 2 | `ImplementsWalk`, `WalkIsOrdered` |
| `zapret` | 3 bundle versions (compiled in, pinned, newer than the pins), a user's archive, a stored wish, 1 command and 1 tick of the update job beside start-up, connect check and Close | `FilterFollowsSwitch`, `OnlyTrustedBundles`, `FilterIsSerialized`, `CommandReturns` |
| `serve` | both transports, queue depth 2, 2 clients, 2 lines in all, 2 events | `StreamIsKept`, `QuietAfterClose`, `DialIsAnswered`, `StopCompletesUnlessWedged` |
| `shutdown_hang` | as `serve` | `StopCompletes`, which fails: see below |
| `nodecheck` | 2 nodes, 3 targets, round-trips up to 2, fan-out 1, 2 launches, 4 ports, 2 checks; the probe dies and its exit is published at any two steps | `VerdictsAreMeasured`, `SlotIsReleased` |
| `launch` | Linux and Windows, 2 callers, 2 runs, 1 chunk of output of up to 2 bytes pending, 1 crash of the core; 2-bit addresses, up to 5 of 19 routes over 5 interfaces, two of them uplinks of different metrics per family | `EngineIsOwned`, `LastWordsKept`, `StopCompletes`, `SweepIsCover`, `RefusalIsJustified` |
| `user_proxy` | 2 users, 2 session numbers, 2 logons, 1 edit by the user at any step, 1 fault, apply may stop half way | `RestoredIsTheUsers`, `LeaseFollowsProxy`, `CommandEnds` |
| `config` | every way of up to 3 options off their default; every list of up to 3 servers of 9 kinds, and every node, its keys absent, malformed or good, next to a good one; 1 change of the rule-set directory | `NoDNSLeak`, `DirectIsMeant`, `ConfigWorks` |
| `files` | 3 profile ids and 5 operations; 2 callers, 2 keys, 2 values, 3 edits; 7 log lines of 1 or 3 bytes over files of 4, the active file and generation 2 held open by others | `StoreMatchesDisk`, `SavesSurvive`, `LogKeepsTheEnd` |

Properties with parts:

* `StatusIsTrue` – idle, an error and closed mean that nothing runs, green protection
  that a watched connection does. Where an option can be re-applied to a live tunnel
  (`Reapplies`), a refused re-apply leaves an error over one that goes on.
* `KillSwitchHolds` – a connection shown without an error is blocked but for its
  tunnel, or the re-apply that will block it is due (`reapplyDue`); only a
  disconnect or the switch itself lifts it.
* `NoStrandedProxy` – the proxy points at a port without a process only while
  somebody restores it, or under an error with the restore owed; scenes with both
  failing proxy calls and live switches (`LiveSwitches`) are excluded.
* `WalkIsOrdered` – the preferred node first, the last good one before it, a
  failover never back to where it came from.
* `FilterFollowsSwitch` – the start-up restore never launches against the switch,
  not even one pressed while it waits, and a closed daemon leaves no filter.
* `StreamIsKept` – answers are never shed, the oldest event goes first, one
  session is active.
* `VerdictsAreMeasured` – the probe is stopped; no ranking is returned past an exit
  that can be read, and none names a node measured only through a dead process; the
  best node is the best measured.
* `RestoredIsTheUsers` – the settings are the user's, edits made meanwhile included,
  but for an edit that a write of the helper goes over between its read and that
  write, which the code loses.
* `RefusalIsJustified` – each interface named is another client's and may carry some
  packet, or the uplinks' own split routes cover the family.
* `EngineIsOwned` – one engine; after Stop it is gone; its config file is removed; an
  answer of the API is our engine's.
* `LeaseFollowsProxy` – a proxy in effect is journaled, and a finished restore leaves
  nothing behind.
* `DirectIsMeant` – under the kill switch a connection leaves directly only by the
  user's application lists, direct mode or the geographic split, and a blocked
  service is carried by the tunnel or a bypass that covers it unless the user's
  rules say otherwise.
* `ConfigWorks` – every rule-set used is defined, a node of an unsupported kind or
  with parts missing costs only itself (one with a malformed key does not: see below),
  each part of the program names the same server by the same tag.
* `SavesSurvive` – what loads is one state the daemon had, the latest when no two
  saves overlapped, and no preset nobody asked for.
* `LogKeepsTheEnd` – whichever file is held: no file has a hole, older generations
  hold older lines, the active one ends with the last line written, Tail shows the
  end. No line is missing between the files until an older generation could not be
  moved or removed; the limits hold until any file could not.

Bounds. Events count commands, process deaths and degradations together: three
are enough for each hazard listed, since each needs a connect and at most two
disturbances of it. `MaxGen` is above what the events can reach, so it never
cuts a behaviour short. `MaxRelaunches` is 1 instead of the code's limit: the
counter is compared and incremented, never used otherwise. Two nodes give a walk
somewhere to go and a switch a target. A queue of depth 2 with two events and
two answers overflows in every way; a second client is the first to displace
one, and there are at most two unjoined sessions at a time. Three bundle
versions are one of each kind the trust check tells apart. Two saves are the
fewest that can meet in the wrong order. Two bits of address have every shape
of gap and overlap four quarters can have. Three options off their default
cover every pairwise interaction with one more in between. One fault and one
edit by the user in either order are what the lease is written for. The log is
small enough to rotate three times, with and without generations. Each run or
scene turns on only what its question needs: the cross products are out of
TLC's reach.

Deadlock is checked in the runs of HostGuard and Session: Session only stops
when it is closed, which the action `Closed` lets stutter. The others stop when
their bounds are used up or when they are closed, so it is not checked there;
that they do not get stuck before is what their liveness properties say.

Fairness. The Go scheduler runs every runnable goroutine, and every wait in
these paths has a timeout, a context or a holder that goes on:

* Session: weak fairness for each handler, the holder of connMu, each goroutine
  of a connection and Close. Nothing is assumed of the user, of sing-box, of a
  node's health or of a refresh. One instance covers all detached reconnects
  together; any of them that runs frees the lock for the others.
* Zapret: each of the three threads goes on once it can; whether a step of the
  filter or the network succeeds is open.
* Serve: writer (it has a write deadline), reader once its stream is closed,
  loop, owner and lane. A client never has to read, send or leave.
* NodeCheck: launch, wait, workers and finish, all under the check's budget. A
  target never has to answer.
* Runner: the steps of Start and Stop, the reaper, and the kernel's kill of a
  process it was told to kill. `Clear` is strongly fair: it takes `r.mu`, which
  Go's mutex hands to a waiter that has waited long enough.
* UserProxy: the helper's steps, its end (the service kills it after 12 s), and
  the service's own thread. Users do as they please.

## Where code, comments and docs disagree

`shutdown_hang`: on cancellation `serveStream` selects between the context and
the reader's channel. The reader, cancelled too, closes the channel without
sending an error; if the select takes the closed channel, `return <-scanErr`
(`server.go:314`) waits for ever, the listener's join with it, and the daemon is
never closed. `StopCompletesUnlessWedged` shows that this is the only way not to
get there.

The following was met on the way. Each is written down as a definition that no run
checks, or is excluded by a named bound, so that it can be looked at again.

Connection (`GivingUpIsHonest`, `ChainStaysStored` at the end of Session):

* A failover whose teardown cannot restore the system proxy reports connected
  on the node whose process it has stopped (`health.go:211`).
* A live switch committed after the process died overwrites the error
  (`hotswitch.go:241`). `DeathIsReported` is about scenes without switches.
* A refresh checks the chain, calls out to the network and stores
  (`daemon.go:1404`); a chain chosen in between loses an end.
* Re-applying to a node that a refresh removed, or that the protection refuses,
  reports an error over a running tunnel that its guard still shows green
  (`connect.go:394`, from the option setters and from `set_multihop`); the docs say
  it is left alone. Hence `Reapplies` in `StatusIsTrue`.
* A failover or a live switch that ends after a proxy restore has failed reports
  connected over that error. Hence `LiveSwitches` in `NoStrandedProxy`.
* The error of the call that undoes an unconfirmed switch is dropped
  (`hotswitch.go:179`); the exit used is then not the one reported. A failover that
  is refused afterwards puts the old report back (`health.go:211`), which is why
  `ReportsAreEarned` asks nothing of that report.
* A routing mode set while connecting is advertised but not running once
  connected: `handleSetRouting` says it is applied in place, the comment on
  `reconcileConnectingOptions` that it is deferred by design.
* A server that answers the latency probe within a millisecond is recorded as
  0 ms (`daemon.go:2245`), which the ordering takes for unreachable;
  `nodecheck.go` raises such a value to 1. The run has round-trips of 0 among the
  others; `WalkIsOrdered` speaks of the order of the positive ones, so that this is
  not one of its violations.
* Turning the kill switch on during a connect leaves the connecting phase
  unprotected until the tunnel is accepted. Turned on while a failover is reported
  as reconnecting, it is enforced by the re-apply that follows and not before
  (`daemon.go:1679` activates it over a connecting or a connected state only). Hence
  `reapplyDue` in `KillSwitchEnforced`.

DPI bypass (`OffReachesTunnel` in Zapret):

* The docs say that stopping the bypass returns its services to the tunnel
  (`zapret.go:1182`). A stop during a connect is recorded but not reconciled,
  since the comparison (`connect.go:1380`) leaves the bypass out: the connection
  comes up with the services still direct. A flag that already reads off, as
  after the fallback to the tunnel, makes a stop skip the re-apply.
* A pick without a winner, a cancelled pick and an update whose Stop fails leave
  the flag on with the filter down (`zapret.go:317-325`).
* An import takes no `zapretOpMu` and wipes a working bundle before it knows
  that the archive is good (`zapret.go:553`); a crash between the renames of a
  swap loses the user's lists.
* The check after a connect may persist over a later "off".

Control, checks, runners:

* A response can shed the only event in a full queue.
* Nodes in flight when the budget ends are reported as failing.
* `probeBindings` looks for the exit of the probe once, without waiting
  (`nodecheck.go:606-613`), and the reaper publishes it only after `Wait`, the flush
  of the log and the clearing of the runner (`linux/runner.go:214-231`). What was
  measured through a process that has just died can be returned as a ranking, its
  nodes as failing. `VerdictsAreMeasured` asks only that no such node is the best.
* The conflict guard compares metrics of default routes. Where two uplinks halve a
  family between them they win every address by prefix, and a tunnel's default route
  is refused all the same (`tunguard.go:225-237`): `Overridden` in TunGuard.
* `Select` says that an error means the switch did not take; its client may time out
  after the API has applied it. A core that dies leaves its temporary config,
  and on Linux and macOS the engine.
* Of a split pair against a default route, `winsRoute` compares metrics although
  the pair wins by prefix (`tunguard.go:291`): `CapturedIsRefused` in TunGuard.

Per-user proxy: when the write of a restore stops half way, the retry sees a
server that is neither ours nor the user's, takes it for the user's and drops
the lease (`user_proxy_lease.go:114`); `PartialWrites` leaves that case out. An
ambiguous lease that was never confirmed is refused until the user edits. An edit
made between a read of the helper and its write is lost: while the snapshot is saved
(`user_proxy_lease.go:71` to `:80`), and while a restore decides (`:110` to `:141`),
whose comment says "without clobbering independent edits". `Overwrite` is where
the model gives such an edit up. And since an early failure of a re-apply puts an
error over a live tunnel, a logon then reconciles a proxy that is in use
(`proxy.go:157`).

Config: one node with a malformed key costs the whole config. `validateNode` looks
only for what is missing (`builder.go:478-521`), although "the checks mirror
sing-box's own decode-time requirements" and "one bad entry doesn't sink a whole
subscription" (`builder.go:398-404`); `check_e2e_test.go:15-19` says that sing-box
decodes the keys. `Decodes` refuses such a node, and `ConfigWorks` names it as the
only cause of a config that does not load.

Files: two setters may save in the other order and leave the older settings on
disk (`daemon.go:856`), and a failed save of a cache is not retried when the
value is set again; `QuietDiskIsCurrent` asks for neither. On Windows, a reader that holds an
older log generation makes its rename fail silently, and the rotation goes on: the
next generation is renamed over the one that stayed, or removed by `prune` in its
place, and lines in the middle are lost (`logrot.go:215-221`). `stuck` marks such a log.

Routing: in the include mode with a service unblocked or a domain forced to the
proxy, the domain rule also tunnels applications that are not listed. Rule-set
files are looked at separately by `DNS`, `RouteRules` and `RouteRuleSets`; one
that vanishes and comes back in between gives a config that resolves outside
the tunnel, which is why the directory changes once per build.

## Proofs

Eight modules of theorems, checked by TLAPS for every value of the constants. The
assumptions on the constants are the `ASSUME`s beside their declarations: bounds
are naturals, the value that stands for "nobody" is none of the things it is
compared with (`None`, `"free"`, `"nobody"`, the null tunnel), a scene stays within
its declared sets, and two archives with the checksum of a pinned one are the same
archive (SHA-256, in `ZapretAssumption`).

`ProtectionProofs`, of HostGuard, for every set `Luids` of positive adapter identities and
every set of addresses (`LuidsAssumption`, and `NoTunnelAssumption`: the null
pointer is not a tunnel). `EnforcementIsReal` and `NoStalePermit` are not
inductive: an operation in flight has changed the kernel and not yet the guard.
The strengthening `OpInv` says that an operation in flight shows as "applying",
so that `NoStalePermit` asks nothing of it; that a committed one has left exactly
its policy (`Commits(op)`) in the kernel, so that the confirmation re-establishes
both; and that a free `Guard.op` carries nothing, which is what a crash and
`Recover` start from. `IInv == TypeOK /\ OpInv /\ EnforcementIsReal /\
NoStalePermit` holds initially and is preserved by each action; `GuardInvariant`
concludes `[]IInv`, `GuardEnforcement` and `GuardPermit` project it, and
`GuardFailClosed` proves the action property from `IInv` step by step.
`GuardNoFalseAbsence` needs only that a `TunnelPresent` under way looks at a
tunnel and not at the absence of one (`WatchesATunnel`).

Of ConfigBuild, for every set of options, profile, rule-set directory and number of
changes to it. The two rule lists are worked out rule by rule: a lemma per block of
`RouteRules` and of `DNS` says what the block decides about a connection and which
rule-set files it refers to, and concatenation composes them. `BlocksInv` says which
look at the directory each finished block was built from; it needs that a single
change falls before the route block or after it, which is why `NoDNSLeak` is stated
for one change. `DirectIsMeant` uses the same invariant. For `ConfigWorks` the
builder's walk over the nodes and the one the control layer takes to name them are
compared server by server (`Agree`): the same counters, the same tags, none given
twice and none empty, however long the profile and however often a name recurs; and
an object sing-box refuses is one whose node said something malformed of its keys
(`BadNodesOut`). The
invariant `SelectorInv` is that what was emitted is the selector of the attempt's
servers, as given or with every connection fragmented. A name is text and the
numbers appended to it; `TextAssumption` names the three texts the code itself uses.

`FilesProofs`: the store, for every set of ids, revisions and number of operations. That
memory and disk agree again after a failed save is not inductive: while the
operation runs they differ. `StoreInv` adds what the operation has done to the
list it remembers (`Remembers`), that the file is that list until the save and
the new one after it, and that no id is listed twice, without which `indexOf`
may find another profile. The rollback of a removal rests on two lemmas about
sequences: what `RemoveAt` leaves at each place, and that inserting there undoes it.

The log, for every size of a line, limit on files and bytes, width of the window,
number of lines and whichever files other programs hold. `LogInv` says that the place
a rotation is at shows in the directory (`RotationIsSeen`: the generation about to be
filled is absent, unless one was stuck, and so is the active file before it is made
again); that an opened writer has pruned (`NoneTooOld`); that sizes are passed only
after a refusal (`SizesAreKept`); and that until an older generation was stuck the
lines on disk are the last ones written, without a gap (`NoGap`). `LinesInOrder`, that
the files are pieces of the log in its order, holds whatever was stuck and is
inductive beside it. The lemmas are about the files as sequences: a removal,
a rename, also over a file that is there, and a new line leave them in order
(`WholeThinned`, `WholeMoved`, `WholeAppended`); `PruneCuts`
(what `prune` deletes is the old end, and what it leaves fits) and `PruneThins` (with
files held it deletes whole files all the same); `UpToMove` and `UpToAppend` (a rename
into a free place keeps the lines, and a line is added at the new end); `TailReads`
(the tails of the files, joined, are the tail of the lines). There is no
hypothesis: the promise that a rotation which cannot move a file keeps logging is
proved for every file there is.

The saves, for every number of callers, keys and values. `SavesInv` adds
that every save in flight carries a state that has been held (`Held`) and no
preset that was not asked for (`SavesAsked`); that one which began alone and
still is carries what memory holds (`AloneIsCurrent`), so that its write makes
the file current; and that a file which is not behind and has no save under way
is current (`FilesAreCurrent`). `LoadSaved` is the round trip of a file of this
version, `LoadFound` what any file found is loaded as.

`OrderProofs`: the walk, for every set of nodes, every protocol preference, every bound on
servers and round-trips (`FallbackAssumption`: the preference is a finite list, a
missing answer is neither a node nor a measurement). `SortedLists` is the core: in
a strict total order of a finite set the number of predecessors gives each member
its own place, so the sort of the code has a result, and it lists every member
once. From it `RebuildIsOrdered` says what a freshly built machine is, for both
orders, and `WalkInv` that every walk has such a machine, built from the last-good
node it still remembers and without the node to avoid. `WalkAlwaysOrdered` follows
state by state; `WalkRefined` maps every step to a step of Walk or a stutter - a
failure takes exactly one candidate away because no position is listed twice.

The node checks, for every profile and any number of ports, attempts, targets and
requests. `CheckInv` says where a probe may be (`probes`: only that of the attempt,
none before its launch or after the return), that nodes are measured only while it
is, that a node started after the death of the process reached nothing, whether or
not the exit can be read yet, and that the exit named is what `Best` made of the
answers reported. What that
means is three lemmas about the ranking: `OksLead` and `ScoreIsMedian` (the answers
that came are the first `okCount` of the sorted ones, and the one in their middle is
a median), `RankIsStrict` (the comparison of `Rank` is a strict total order, ties,
duplicated ids and the previously good exit included, so that by `SortedLists` the
sort has a result), and `BestIsMeasured`. `ChecksAreMeasured` concludes.

`SessionProofs`, for every set of scenes: any number of clients, nodes, strategies,
generations and events, every mix of faults and watchers. `Fence` alone is not
inductive: that a stale process has a loop left to stop it depends on where each
loop and watcher is. `FenceInv` adds that goroutines run for one generation, the
current one or, while `teardown` waits, older ones (`OneGeneration`); that
`teardown` has a generation of its own before it stops anything
(`FreshGeneration`); that a loop between attempts has no process (`Parked`); and
that the watchers start when the walk has ended (`WalkThenWatch`). On it rests
`StatusInv`, a conjunct per way an untrue report could come about: an ended session
is down and only a command may leave it (`IdleDown`), a walk is reported as one
(`WalkIsReported`), detached reconnects are outdated by every teardown
(`OffIsOutdated`), a relaunch follows a death nobody else will report
(`RelaunchIsDue`, `DeathIsSeen`), a watched connection is shown as such
(`WatchedIsConnected`, `GreenIsWatched`, `ErrorIsDown`), and nothing survives the
teardown of `Close` (`CloseIsFinal`). `SessionFence` and `SessionStatus` project
them; `SessionReports` and `SessionKillSwitch` are action properties, from
`SelIsPointed` (the process is pointed at what will be reported) and `BlockedOrDue`
(a host that is connected, or will be reported so without another walk, is blocked
or a re-apply is due); `SessionProxy` is from `ProxyIsWatched` (whose duty the
restore is).

`SessionOptions` is about the options of a live tunnel. `AppliedOrDue` says of a
session that is connected, or will be reported so without another walk: its process
was built with what the state advertises, or a setter still has to re-apply, or a
`reconcileConnectingOptions` of this generation is on its way, or a teardown is
about to begin. `BuiltByLoop` says that a loop that is about to compare has recorded what
it was built with. That a reconcile then finds candidates to restart with is
`ProfileInv`: each copy of the server list, each node somebody is at and both ends of
the chain are of the one profile. This is why `LiveOptionsApplied` is stated for
a profile that is neither refreshed nor removed: a refresh may leave a
reconcile without its node, and `reapplyLive` does nothing for a profile that is gone.

`RunnerProofs`, for every number of callers, runs and deaths of the core, on each
platform. The invariant follows one run through its life: no trace before it begins
(`Fresh`), one caller and the process and job of its step while it is started
(`StartIsOwned`, `OneStarter`, `LaunchHasLock`), current until its watcher has
cleared it (`OneCurrent`), its exit published last (`ExitIsPublished`). Whatever
lives or lies on disk has one of these owners (`EngineHasOwner`, `ConfigHasOwner`),
which is `EngineIsOwned` once a Stop has seen the exit (`StopIsAnswered`).

Its output, for every length of the pending buffer: each chunk of bytes, each cut of
a line and each flush keeps the text logged and pending equal to what was said
(`WriteKeeps`, `FlushKeeps`, over the words counted by `WordsOf`), and a reaped run
has nothing pending (`LogInv`); `LastWordsKept` follows.

The conflict check, for every width of an address and every set of interfaces and
rows: after k spans of the sweep, what it holds covered is covered, and what it has
passed lies below that or beyond a gap (`SweptSoFar`). So the metric it reports is
the least at which the routes leave nothing uncovered. `RefusalHasReason` builds on
that, for any number of uplinks, and assumes only that no physical interface is taken
for a tunnel (`UplinksArePlain`). Where the uplinks' split routes do not cover the
family there is an address held by their defaults alone (`AddressIsOpen`); the metric
the guard compares with is the least of those (`DefaultIsUplink`), so the tunnel's
row at that address is not beaten (`ConflictCarries`). The other case is the false
alarm named above. `LaunchIsRunner` maps the connect with its check to the runner alone.

`ServeProofs`, for both transports, any queue depth and any number of sessions,
lines and events. `StreamOk` is kept by a stream alone: an answer owed is queued or in
the writer's hands, the events queued are in order, without a gap up to the newest,
and behind the one being written. That no gap opens rests on the
emitter (`NewestIsLast`): its session got the last event there was. The sessions are
numbered as accepted and only the last can be active (`Numbered`, `LastIsActive`),
which is what displacement has to keep; `LaneIsOpen` and `ClosedIsOver` give
`QuietAfterClose`. That shedding the oldest event of a full queue keeps answers and
order is a lemma about sequences, with the first event found by well-foundedness.

`UserProxyProofs`, for every set of users and sessions, any number of edits, logons
and faults. `LeaseFollowsProxy` is about who works for whom: the helper the service
waits for works for its owner (`Attached`); one that a dead service left behind
keeps the new service from having served anybody else (`Orphaned`); a user who was
served and still has a lease is the owner (`Served`). `RestoredIsTheUsers` needs `Kept`,
which says of each field of the settings whether it is ours or the user's and what
the user's value is, and `HelperKnows`, what a helper may still rely on when it acts
on what it has read: at a write the user's value is kept wherever the user has not
edited since the read. `LeaseGivesBack` has the hypothesis that a restore never stops
half way: the case in which the code does lose the user's value, see above. A
partial apply is allowed.

`ZapretProofs`, for every set of bundles, releases and archives, any number of
commands and ticks. A thread in the middle of an operation holds `zapretOpMu`
(`Holds`), and its locals are ready for the launch, swap or import it is at
(`Prepared`). `Steps(t)` says what a step of one thread does to lock, switch, filter
and directories; `StepKeeps` that such a step keeps the invariant; then each action
is shown to be one. `RaiseObeysSwitch` is inductive beside `Holds`, since only the
holder turns the switch off. That a closed daemon has no filter is `Closing`: Close
stops the filter twice, and before the second time the daemon's context has ended,
so the update job launches no more; where Close finds no directory there is no
filter either, because winws pins the one it runs from (`FilterIsPinned`). A
download that is accepted is pinned (`DownloadIsPinned`), whatever the feed said.

Only model-checked: liveness (`ConnectSettles`, `DeathIsReported`, `CloseReturns`,
`CommandReturns`, `StopCompletes`, `DialIsAnswered`, `StopCompletesUnlessWedged`,
`SlotIsReleased`, `CommandEnds`), since fairness and ENABLED are out of the prover's
reach. Every safety property of a passing run is stated by a theorem, those of the
lease and the conflict refusal under the hypotheses named above. Where a
definition recurses over the items of a list or set (the sweep, `prune`, the sums of
sizes, the walk over nodes), the proofs use induction on the set of lengths at which
a fact holds: the lemma `Induct`, from the well-foundedness of the naturals.

## Not modelled

Subscription parsing, ping, leak check, diagnostics and the DNS tools: text,
measurements and I/O that keep no state. The entry point and peer
authentication: wiring and OS calls, whose order and outcomes are Init and
choices of Session, Zapret and Serve. The mobile bridge and the UIs.

Of modelled components: the text edits of a bypass strategy file, the repick
job (`main.go` switches it off), the inbound block and the timeouts of the
config, which packets a filter rule matches, macOS's `networksetup`, the access
rules of the helper's lock file, finding and unpacking binaries, the time
windows of automatic switches (a choice), and more than one profile in Session.
In Zapret, killing one's own filter process succeeds.

## Plan

1. AutoSwitch: cooldown and window with a clock, instead of a choice.
2. Several profiles in Session.
3. The lease as an implementation of the proxy of Session.
4. Which flow each filter rule of the Windows policy permits, over a small
   packet space.
