---------------------------- MODULE ZapretProofs ----------------------------
(***************************************************************************)
(* The DPI bypass, for every set of bundles, releases and archives and any *)
(* number of commands and ticks: the packet filter is driven by one        *)
(* operation at a time (FilterIsSerialized), follows the user's switch and *)
(* does not outlive the daemon (FilterFollowsSwitch), and nothing but what *)
(* is compiled in, pinned or imported reaches the bundle directory         *)
(* (OnlyTrustedBundles).                                                   *)
(*                                                                         *)
(* The first two rest on zapretOpMu: a thread in the middle of an          *)
(* operation holds it (Holds), whatever the other threads do.  What        *)
(* becomes of a thread that launches winws or swaps a bundle is in its     *)
(* locals (Prepared).  That the filter is down when the daemon is closed   *)
(* rests on Closing, and on winws pinning the directory it runs from       *)
(* (FilterIsPinned): where Close finds no directory there is no filter.    *)
(***************************************************************************)
EXTENDS Zapret, TLAPS

Trusted == Pinned \cup {Embedded} \cup Archives

\* Where a thread holds zapretOpMu.
Owning == {"embed_do", "raise_go", "raise_done", "launch", "swap", "start_go", "start_done",
           "stop_wish", "stop_go", "pick_go", "pick_try", "pick_probe", "upd_go", "upd_stop",
           "upd_apply", "restart", "restarted", "close_stop"}
Launched == {"raise_done", "start_done", "pick_probe", "restarted"}
Unpacked == {"imp_wipe", "imp_bats", "imp_bin", "imp_stamp"}
Leaving == {"close", "close_stop", "conn", "teardown"}

IsLocal(r) == DOMAIN r = {"s", "was", "up", "late", "rel", "for"}
IsDir(d) == DOMAIN d = {"files", "stamp"}
Switched(m) == DOMAIN m = {"wanted", "active", "auto", "flag"}

Shape ==
    /\ op \in Threads \cup {Nobody} /\ life \in {"up", "closing", "leaving", "closed"}
    /\ DOMAIN pc = Threads /\ DOMAIN loc = Threads /\ \A t \in Threads : IsLocal(loc[t])
    /\ Switched(mem) /\ IsDir(dir) /\ IsDir(aside)

Holds == \A t \in Threads : pc[t] \in Owning => op = t

\* What the locals of a thread promise of its next steps.
PreparedAt(l, r) ==
    /\ l = "launch" => r.for \in Launched
    /\ l = "swap" => r.for \in {"update", "raise", "wake"} /\ r.rel \in Trusted
    /\ l \in Unpacked => r.rel \in Archives
Prepared == \A t \in Threads : PreparedAt(pc[t], loc[t])

\* The directory a filter runs from has its winws.
FilterIsPinned == filter # NoStrategy => \E f \in dir.files : f[2] = "bin"

TrustedDir(d) == \A f \in d.files : f[1] \in Trusted
Bundles == TrustedDir(dir) /\ TrustedDir(aside)

\* Close has its two rounds, and after the second stop nothing launches again.
Closing ==
    /\ life \in {"closing", "leaving"} => pc["cmd"] \in Leaving
    /\ life \in {"leaving", "closed"} => "daemon" \in gone
    /\ life = "leaving" /\ pc["cmd"] \in {"conn", "teardown"} => filter = NoStrategy
    /\ life = "closed" => filter = NoStrategy

IInv == Shape /\ Holds /\ Prepared /\ RaiseObeysSwitch /\ FilterIsPinned /\ Bundles /\ Closing

----------------------------------------------------------------------------
(* A step of one thread.                                                   *)

\* Control: the other threads stay where they are, zapretOpMu is taken when it
\* is free and let go by its holder, and the thread arrives prepared.
Turn(t) ==
    /\ DOMAIN pc' = Threads /\ DOMAIN loc' = Threads
    /\ \A u \in Threads : u # t => pc'[u] = pc[u] /\ loc'[u] = loc[u]
    /\ IsLocal(loc'[t])
    /\ \/ op' = op
       \/ op = t /\ op' = Nobody
       \/ op = Nobody /\ op' = t
    /\ pc'[t] \in Owning => op' = t
    /\ PreparedAt(pc'[t], loc'[t])

\* The switch: only the holder of zapretOpMu turns it off, and no raise is
\* launched against it.
Switches(t) ==
    /\ Switched(mem')
    /\ mem'.wanted = "off" => mem.wanted = "off" \/ op = t
    /\ pc'[t] = "launch" /\ loc'[t].for = "raise_done" => mem'.wanted # "off"

\* The filter and the two directories.
Stores ==
    /\ IsDir(dir') /\ IsDir(aside') /\ TrustedDir(dir') /\ TrustedDir(aside')
    /\ FilterIsPinned'
    /\ life \in {"leaving", "closed"} => filter' \in {filter, NoStrategy}

Steps(t) == Turn(t) /\ Switches(t) /\ Stores /\ UNCHANGED <<gone, life>>

\* A step of one thread keeps the invariant if it keeps Close's two rounds ...
LEMMA TurnKeeps ==
    ASSUME IInv, NEW t \in Threads, Turn(t), Switches(t), Stores,
           life' \in {"up", "closing", "leaving", "closed"}, Closing'
    PROVE  IInv'
<1> USE DEF Threads
<1>1. Shape'
    BY Zenon DEF Turn, Switches, Stores, IInv, Shape
<1>2. Holds'
    BY DEF Turn, IInv, Holds, Nobody
<1>3. Prepared'
    BY DEF Turn, IInv, Prepared
<1>4. RaiseObeysSwitch'
    BY DEF Turn, Switches, IInv, RaiseObeysSwitch, Holds, Owning
<1>5. FilterIsPinned' /\ Bundles'
    BY DEF Stores, Bundles
<1> QED
    BY <1>1, <1>2, <1>3, <1>4, <1>5 DEF IInv

\* ... and a step that is not part of Close does.
LEMMA StepKeeps ==
    ASSUME IInv, NEW t \in Threads, Steps(t), t = "cmd" => life = "up"
    PROVE  IInv'
<1>1. Closing'
    BY DEF Threads, Steps, Turn, Stores, IInv, Closing
<1> QED
    BY <1>1, TurnKeeps DEF Steps, IInv, Shape

----------------------------------------------------------------------------
(* The steps most actions are made of.                                     *)

\* A thread goes to one place, with locals of its own.
LEMMA GotoTurns ==
    ASSUME IInv, NEW t \in Threads, NEW l, Goto(t, l),
           op' = op \/ (op = t /\ op' = Nobody) \/ (op = Nobody /\ op' = t),
           l \in Owning => op' = t,
           \/ UNCHANGED loc
           \/ \E r : loc' = [loc EXCEPT ![t] = r] /\ IsLocal(r),
           PreparedAt(l, loc'[t])
    PROVE  Turn(t) /\ pc'[t] = l
    BY DEF Turn, Goto, IInv, Shape

\* An operation that is over lets go of zapretOpMu.
LEMMA FinishTurns ==
    ASSUME IInv, NEW t \in Threads, Return(t), op' = op \/ (op = t /\ op' = Nobody)
    PROVE  Turn(t) /\ pc'[t] \in {"tick", "idle"}
    BY DEF Turn, Return, IInv, Shape, Idle, IsLocal, PreparedAt, Unpacked, Owning

\* A step that leaves the switch alone and launches nothing keeps what the
\* invariant says of it ...
LEMMA MemKept ==
    ASSUME IInv, NEW t, UNCHANGED mem, pc'[t] # "launch"
    PROVE  Switches(t)
    BY DEF Switches, IInv, Shape

\* ... and so does one that leaves the filter and the directories alone.
LEMMA FilesKept ==
    ASSUME IInv, UNCHANGED <<filter, dir, aside>>
    PROVE  Stores
    BY DEF Stores, IInv, Shape, FilterIsPinned, Bundles

\* The steps that only move a thread: its locals, the switch, the filter and the
\* directories stay as they are.
LEMMA MoveSteps ==
    ASSUME IInv, NEW t \in Threads, NEW l, Goto(t, l), UNCHANGED <<op, loc, mem, filter, dir, aside, gone, life>>,
           l \notin Owning, l \notin Unpacked
    PROVE  Steps(t)
<1>1. PreparedAt(l, loc'[t]) /\ l # "launch"
    BY DEF PreparedAt, Owning
<1>2. Turn(t) /\ pc'[t] = l
    BY <1>1, GotoTurns
<1> QED
    BY <1>1, <1>2, MemKept, FilesKept DEF Steps

\* Taking zapretOpMu.
LEMMA AcquireSteps ==
    ASSUME IInv, NEW t \in Threads, NEW l, NEW k, Acquire(t, l, k), k \notin {"launch", "swap"}, k \notin Unpacked
    PROVE  Steps(t)
<1>1. PreparedAt(k, loc'[t])
    BY DEF PreparedAt
<1>2. Turn(t) /\ pc'[t] = k
    BY <1>1, GotoTurns DEF Acquire
<1> QED
    BY <1>2, MemKept, FilesKept DEF Steps, Acquire

----------------------------------------------------------------------------
(* What the command loop and the job share.                                *)

\* Start, from an operation that holds zapretOpMu.
LEMMA StartSteps ==
    ASSUME IInv, NEW t \in Threads, NEW s, NEW then \in Launched, Start(t, s, then),
           op = t, UNCHANGED <<op, mem, gone, life>>, Stores,
           then = "raise_done" => mem.wanted # "off"
    PROVE  Steps(t)
<1>1. loc'[t].for = then /\ \E r : loc' = [loc EXCEPT ![t] = r] /\ IsLocal(r)
  <2>1. t \in DOMAIN loc /\ IsLocal(loc[t])
      BY DEF IInv, Shape
  <2>2. loc' = [loc EXCEPT ![t] = [loc[t] EXCEPT !.s = s, !.for = then, !.up = FALSE]]
      BY <2>1 DEF Start
  <2>3. IsLocal([loc[t] EXCEPT !.s = s, !.for = then, !.up = FALSE])
      BY <2>1 DEF IsLocal
  <2> QED
      BY <2>1, <2>2, <2>3 DEF IsLocal
<1>2. PreparedAt("launch", loc'[t])
    BY <1>1 DEF PreparedAt, Unpacked
<1>3. Turn(t) /\ pc'[t] = "launch"
    BY <1>1, <1>2, GotoTurns DEF Start
<1>4. Switches(t)
    BY <1>1 DEF Switches, IInv, Shape
<1> QED
    BY <1>3, <1>4 DEF Steps

\* applyZapretState: the switch moves only in the hands of the operation.
LEMMA ApplySteps ==
    ASSUME IInv, NEW t \in Threads, NEW m, NEW running, NEW s, applyZapretState(t, m, running, s),
           Switched(m), m.wanted = "off" => mem.wanted = "off" \/ op = t,
           UNCHANGED <<gone, life>>, Stores
    PROVE  Steps(t)
<1>1. Switched(mem') /\ mem'.wanted = m.wanted
    BY DEF applyZapretState, Applied, Switched
<1>2. Turn(t) /\ pc'[t] # "launch"
  <2>1. CASE Goto(t, "reapply") /\ UNCHANGED <<op, loc>>
      BY <2>1, GotoTurns DEF PreparedAt, Owning, Unpacked
  <2>2. CASE Finish(t)
      BY <2>2, FinishTurns DEF Finish
  <2> QED
      BY <2>1, <2>2 DEF applyZapretState
<1> QED
    BY <1>1, <1>2 DEF Steps, Switches

\* The filter is launched by the holder of zapretOpMu alone, from a directory
\* with winws in it, and never once the daemon's context has ended.
LEMMA LaunchSteps ==
    ASSUME IInv, NEW t \in {"cmd", "job"}, Launch(t), t = "cmd" => life = "up"
    PROVE  Steps(t)
<1>1. op = t /\ loc[t].for \in Launched /\ t \in Threads
    BY DEF Launch, At, IInv, Holds, Owning, Prepared, PreparedAt, Threads
<1>2. loc'[t].for = loc[t].for /\ \E r : loc' = [loc EXCEPT ![t] = r] /\ IsLocal(r)
    BY <1>1 DEF Launch, Set, IInv, Shape, IsLocal
<1>3. PreparedAt(loc[t].for, loc'[t]) /\ loc[t].for # "launch"
    BY <1>1 DEF PreparedAt, Launched, Unpacked
<1>4. Turn(t) /\ pc'[t] = loc[t].for
    BY <1>1, <1>2, <1>3, GotoTurns DEF Launch
<1>5. Stores
    BY DEF Stores, Launch, StopFails, Cancelled, IInv, Shape, Bundles, Closing, FilterIsPinned
<1> QED
    BY <1>3, <1>4, <1>5, MemKept DEF Steps, Launch, Env

\* The second rename, by the holder of zapretOpMu: what it puts in place is the
\* staged bundle or the one that was there.
LEMMA MoveInSteps ==
    ASSUME IInv, NEW t \in {"cmd", "job"}, MoveIn(t)
    PROVE  Steps(t)
<1>1. op = t /\ t \in Threads /\ loc[t].for \in {"update", "raise", "wake"} /\ loc[t].rel \in Trusted
    BY DEF MoveIn, At, IInv, Holds, Owning, Prepared, PreparedAt, Threads
<1>2. Turn(t) /\ pc'[t] # "launch"
  <2>1. CASE loc[t].for # "update"
    <3>1. op' = Nobody /\ Goto(t, loc[t].for) /\ Set(t, "for", "none")
        BY <2>1 DEF MoveIn, EndSwap
    <3>2. \E r : loc' = [loc EXCEPT ![t] = r] /\ IsLocal(r)
        BY <1>1, <3>1, ZenonT(30) DEF Set, IInv, Shape, IsLocal
    <3>3. PreparedAt(loc[t].for, loc'[t]) /\ loc[t].for \notin Owning
        BY <1>1, <2>1 DEF PreparedAt, Unpacked, Owning
    <3> QED
        BY <1>1, <3>1, <3>2, <3>3, GotoTurns DEF Owning
  <2>2. CASE loc[t].for = "update" /\ loc[t].was
    <3>1. Goto(t, "restart") /\ UNCHANGED <<op, loc>>
        BY <2>2 DEF MoveIn, EndSwap
    <3> QED
        BY <1>1, <3>1, GotoTurns DEF PreparedAt, Unpacked
  <2>3. CASE loc[t].for = "update" /\ ~loc[t].was
    <3>1. Finish(t)
        BY <2>3 DEF MoveIn, EndSwap
    <3> QED
        BY <1>1, <3>1, FinishTurns DEF Finish
  <2> QED
      BY <2>1, <2>2, <2>3
<1>3. Stores
  <2>1. dir = NoDir => filter = NoStrategy
      BY DEF IInv, FilterIsPinned, NoDir
  <2>2. IsDir(Bundle(loc[t].rel)) /\ TrustedDir(Bundle(loc[t].rel)) /\ IsDir(NoDir) /\ TrustedDir(NoDir)
      BY <1>1 DEF IsDir, Bundle, TrustedDir, NoDir
  <2> QED
      BY <2>1, <2>2 DEF MoveIn, Stores, IInv, Shape, Bundles, FilterIsPinned
<1> QED
    BY <1>2, <1>3, MemKept DEF Steps, MoveIn, Env

\* The first rename: what is moved out of the way is what was there, and a
\* running winws pins it.
LEMMA MoveAsideStores ==
    ASSUME IInv, NEW t, MoveAside(t), UNCHANGED filter
    PROVE  Stores
<1>1. filter = NoStrategy
    BY DEF MoveAside, IInv, FilterIsPinned, NoDir
<1>2. IsDir(NoDir) /\ TrustedDir(NoDir)
    BY DEF IsDir, TrustedDir, NoDir
<1> QED
    BY <1>1, <1>2 DEF MoveAside, Stores, IInv, Shape, Bundles, FilterIsPinned

\* acquireZapretOp giving up: the thread goes on without the lock.
LEMMA GiveUpSteps ==
    ASSUME IInv, NEW t \in {"cmd", "job"}, NEW from, NEW to \in {"raise", "wake", "raised"}, GiveUp(t, from, to)
    PROVE  Steps(t)
<1>1. t \in Threads /\ \E r : loc' = [loc EXCEPT ![t] = r] /\ IsLocal(r)
  <2>1. t \in Threads /\ IsLocal(loc[t]) /\ t \in DOMAIN loc
      BY DEF IInv, Shape, Threads
  <2>2. loc' = [loc EXCEPT ![t] = [loc[t] EXCEPT !["late"] = (t = "cmd")]]
      BY <2>1 DEF GiveUp, Set
  <2>3. IsLocal([loc[t] EXCEPT !["late"] = (t = "cmd")])
      BY <2>1 DEF IsLocal
  <2> QED
      BY <2>1, <2>2, <2>3
<1>2. PreparedAt(to, loc'[t]) /\ to \notin Owning
    BY DEF PreparedAt, Unpacked, Owning
<1>3. Turn(t) /\ pc'[t] = to
    BY <1>1, <1>2, GotoTurns DEF GiveUp
<1> QED
    BY <1>1, <1>3, MemKept, FilesKept DEF Steps, GiveUp, Env, Bypass

\* installEmbeddedZapretIfMissing: only the holder of zapretOpMu moves the
\* directory, and what it stages is the compiled-in version.
LEMMA EmbedSteps ==
    ASSUME IInv, NEW t \in {"cmd", "job"},
           EmbedPresent(t) \/ EmbedLock(t) \/ EmbedGiveUp(t) \/ EmbedInstall(t)
    PROVE  Steps(t)
<1>0. t \in Threads /\ AfterEmbed(t) \in {"raise", "wake"}
    BY DEF Threads, AfterEmbed
<1>1. CASE EmbedPresent(t)
    BY <1>0, <1>1, MoveSteps DEF EmbedPresent, Env, Bypass, Owning, Unpacked
<1>2. CASE EmbedLock(t)
    BY <1>0, <1>2, AcquireSteps DEF EmbedLock, Unpacked
<1>3. CASE EmbedGiveUp(t)
    BY <1>0, <1>3, GiveUpSteps DEF EmbedGiveUp
<1>4. CASE EmbedInstall(t)
  <2>1. op = t
      BY <1>0, <1>4 DEF EmbedInstall, At, IInv, Holds, Owning
  <2>2. CASE op' = Nobody /\ Goto(t, AfterEmbed(t)) /\ UNCHANGED <<loc, dir, aside>>
    <3>1. PreparedAt(AfterEmbed(t), loc'[t]) /\ AfterEmbed(t) \notin Owning /\ AfterEmbed(t) # "launch"
        BY <1>0 DEF PreparedAt, Unpacked, Owning
    <3>2. Turn(t) /\ pc'[t] = AfterEmbed(t)
        BY <1>0, <2>1, <2>2, <3>1, GotoTurns
    <3> QED
        BY <1>0, <1>4, <2>2, <3>1, <3>2, MemKept, FilesKept DEF Steps, EmbedInstall, Env
  <2>3. CASE MoveAside(t) /\ loc' = [loc EXCEPT ![t].rel = Embedded, ![t].for = AfterEmbed(t)]
    <3>1. t \in DOMAIN loc /\ IsLocal(loc[t])
        BY <1>0 DEF IInv, Shape
    <3>2. loc' = [loc EXCEPT ![t] = [loc[t] EXCEPT !.rel = Embedded, !.for = AfterEmbed(t)]]
        BY <2>3, <3>1
    <3>3. IsLocal([loc[t] EXCEPT !.rel = Embedded, !.for = AfterEmbed(t)])
        BY <3>1 DEF IsLocal
    <3>4. loc'[t].rel = Embedded /\ loc'[t].for = AfterEmbed(t)
        BY <3>1, <3>2 DEF IsLocal
    <3>5. PreparedAt("swap", loc'[t])
        BY <1>0, <3>4 DEF PreparedAt, Trusted, Unpacked
    <3>6. Turn(t) /\ pc'[t] = "swap"
        BY <1>0, <2>1, <2>3, <3>2, <3>3, <3>5, GotoTurns DEF MoveAside
    <3> QED
        BY <1>4, <2>3, <3>6, MemKept, MoveAsideStores DEF Steps, EmbedInstall, Env, MoveAside
  <2> QED
      BY <1>4, <2>2, <2>3 DEF EmbedInstall
<1> QED
    BY <1>1, <1>2, <1>3, <1>4

\* autoStartZapret: the switch is looked at again under zapretOpMu.
LEMMA RaiseSteps ==
    ASSUME IInv, NEW t \in {"cmd", "job"},
           RaiseCheck(t) \/ RaiseLock(t) \/ RaiseGiveUp(t) \/ RaiseGo(t) \/ RaiseDone(t)
    PROVE  Steps(t)
<1>0. t \in Threads
    BY DEF Threads
<1>1. CASE RaiseCheck(t)
  <2>1. (IF mem.wanted = "off" THEN "raised" ELSE "raise_wait") \notin Owning \cup Unpacked
      BY DEF Owning, Unpacked
  <2> QED
      BY <1>0, <1>1, <2>1, MoveSteps DEF RaiseCheck, Env, Bypass
<1>2. CASE RaiseLock(t)
    BY <1>0, <1>2, AcquireSteps DEF RaiseLock, Unpacked
<1>3. CASE RaiseGiveUp(t)
    BY <1>0, <1>3, GiveUpSteps DEF RaiseGiveUp
<1>4. CASE RaiseGo(t)
  <2>1. op = t
      BY <1>0, <1>4 DEF RaiseGo, At, IInv, Holds, Owning
  <2>2. CASE op' = Nobody /\ Goto(t, "raised") /\ UNCHANGED loc
    <3>1. Turn(t) /\ pc'[t] = "raised"
        BY <1>0, <2>1, <2>2, GotoTurns DEF PreparedAt, Unpacked, Owning
    <3> QED
        BY <1>4, <3>1, MemKept, FilesKept DEF Steps, RaiseGo, Env, Bypass
  <2>3. CASE /\ ~RaiseRefused /\ UNCHANGED op
             /\ Start(t, Chosen(IF net # NoStrategy THEN net ELSE mem.active), "raise_done")
    <3>1. mem.wanted # "off"
        BY <2>3 DEF RaiseRefused
    <3> HIDE DEF Chosen
    <3> DEFINE s == Chosen(IF net # NoStrategy THEN net ELSE mem.active)
    <3>2. Start(t, s, "raise_done") /\ UNCHANGED <<op, mem, filter, dir, aside, gone, life>>
        BY <1>4, <2>3 DEF RaiseGo, Env, Bypass
    <3> HIDE DEF s
    <3>3. "raise_done" \in Launched
        BY DEF Launched
    <3> QED
        BY <1>0, <2>1, <3>1, <3>2, <3>3, StartSteps, FilesKept
  <2> QED
      BY <1>4, <2>2, <2>3 DEF RaiseGo
<1>5. CASE RaiseDone(t)
  <2>1. op = t
      BY <1>0, <1>5 DEF RaiseDone, At, IInv, Holds, Owning
  <2>2. Turn(t) /\ pc'[t] = "raised"
      BY <1>0, <1>5, <2>1, GotoTurns DEF RaiseDone, PreparedAt, Unpacked, Owning
  <2>3. Switches(t)
      BY <1>5, <2>2 DEF RaiseDone, Switches, IInv, Shape, Switched
  <2> QED
      BY <1>5, <2>2, <2>3, FilesKept DEF Steps, RaiseDone, Env
<1> QED
    BY <1>1, <1>2, <1>3, <1>4, <1>5

\* The tunnel's side of an operation touches neither switch, filter nor bundle.
LEMMA TunnelSteps ==
    ASSUME IInv, NEW t \in {"cmd", "job"},
           \/ Reapply(t) \/ ReapplyNothing(t)
           \/ Teardown(t) /\ (life = "up" \/ t = "job")
    PROVE  Steps(t)
<1>0. t \in Threads
    BY DEF Threads
<1>1. CASE Reapply(t)
  <2>1. t \in DOMAIN loc /\ IsLocal(loc[t])
      BY <1>0 DEF IInv, Shape
  <2>2. loc' = [loc EXCEPT ![t] = [loc[t] EXCEPT !.for = "connecting", !.was = mem.flag]]
      BY <1>1, <2>1 DEF Reapply, BeginTeardown
  <2>3. IsLocal([loc[t] EXCEPT !.for = "connecting", !.was = mem.flag])
      BY <2>1 DEF IsLocal
  <2>4. PreparedAt("teardown", loc'[t])
      BY DEF PreparedAt, Unpacked
  <2>5. Turn(t) /\ pc'[t] = "teardown"
      BY <1>0, <1>1, <2>2, <2>3, <2>4, GotoTurns DEF Reapply, BeginTeardown, Owning
  <2> QED
      BY <1>1, <2>5, MemKept, FilesKept DEF Steps, Reapply, BeginTeardown, Bypass, Env
<1>2. CASE ReapplyNothing(t)
  <2>1. Turn(t) /\ pc'[t] \in {"tick", "idle"}
      BY <1>0, <1>2, FinishTurns DEF ReapplyNothing, Finish
  <2> QED
      BY <1>2, <2>1, MemKept, FilesKept DEF Steps, ReapplyNothing, Bypass, Env
<1>3. CASE Teardown(t) /\ (life = "up" \/ t = "job")
  <2>1. Turn(t) /\ pc'[t] \in {"tick", "idle"}
      BY <1>0, <1>3, FinishTurns DEF Teardown, Finish
  <2> QED
      BY <1>3, <2>1, MemKept, FilesKept DEF Steps, Teardown, Bypass
<1> QED
    BY <1>1, <1>2, <1>3

\* What a download may leave to be unpacked is a pinned version: its checksum is
\* the compiled-in one of the version that was asked for.
LEMMA DownloadIsPinned ==
    ASSUME NEW rel, NEW body \in Versions, NEW via, NEW max,
           downloadAccepted(rel, Pins, max,
                            [redirects |-> via, size |-> rel.size, sum |-> Sum[body]])
    PROVE  body \in Pinned
<1>1. Sum[body] = expectedArchiveSum(rel, Pins) /\ expectedArchiveSum(rel, Pins) \notin {"untrusted", "integrity"}
    BY DEF downloadAccepted
<1>2. rel.version \in Pinned /\ Sum[body] = Sum[rel.version]
    BY <1>1 DEF expectedArchiveSum, Pins
<1> QED
    BY <1>2, ZapretAssumption

\* updateZapret, from the lookup to the first rename.
LEMMA UpdateSteps ==
    ASSUME IInv, NEW t \in {"cmd", "job"},
           UpdateLock(t) \/ UpdateLookup(t) \/ UpdateStop(t) \/ UpdateApply(t)
    PROVE  Steps(t)
<1>0. t \in Threads /\ t \in DOMAIN loc /\ IsLocal(loc[t])
    BY DEF Threads, IInv, Shape
<1>1. CASE UpdateLock(t)
    BY <1>0, <1>1, AcquireSteps DEF UpdateLock, Unpacked
<1>2. ASSUME At(t, "upd_go") \/ At(t, "upd_stop") \/ At(t, "upd_apply")
      PROVE  op = t
    BY <1>0, <1>2 DEF At, IInv, Holds, Owning
<1>3. ASSUME Finish(t), UNCHANGED <<mem, gone, life>>, Stores
      PROVE  Steps(t)
  <2>1. Turn(t) /\ pc'[t] \in {"tick", "idle"}
      BY <1>0, <1>3, FinishTurns DEF Finish
  <2> QED
      BY <1>3, <2>1, MemKept DEF Steps
<1>4. CASE UpdateLookup(t)
  <2>1. CASE Finish(t)
      BY <1>3, <1>4, <2>1, FilesKept DEF UpdateLookup, Bypass, Env
  <2>2. ASSUME NEW rel \in Releases, Goto(t, "upd_stop"), UNCHANGED op,
               loc' = [loc EXCEPT ![t].rel = rel.version, ![t].was = mem.flag, ![t].s = mem.active]
        PROVE  Steps(t)
    <3>1. loc' = [loc EXCEPT ![t] = [loc[t] EXCEPT !.rel = rel.version, !.was = mem.flag, !.s = mem.active]]
        BY <1>0, <2>2
    <3>2. IsLocal([loc[t] EXCEPT !.rel = rel.version, !.was = mem.flag, !.s = mem.active])
        BY <1>0 DEF IsLocal
    <3>3. PreparedAt("upd_stop", loc'[t])
        BY DEF PreparedAt, Unpacked
    <3>4. Turn(t) /\ pc'[t] = "upd_stop"
        BY <1>0, <1>2, <1>4, <2>2, <3>1, <3>2, <3>3, GotoTurns DEF UpdateLookup
    <3> QED
        BY <1>4, <3>4, MemKept, FilesKept DEF Steps, UpdateLookup, Bypass, Env
  <2> QED
      BY <1>4, <2>1, <2>2 DEF UpdateLookup
<1>5. CASE UpdateStop(t)
  <2>1. Stores
      BY <1>5 DEF UpdateStop, Stores, IInv, Shape, Bundles, FilterIsPinned
  <2>2. CASE Finish(t)
      BY <1>3, <1>5, <2>1, <2>2 DEF UpdateStop, Env
  <2>3. CASE Goto(t, "upd_apply") /\ UNCHANGED <<op, loc>>
    <3>1. Turn(t) /\ pc'[t] = "upd_apply"
        BY <1>0, <1>2, <1>5, <2>3, GotoTurns DEF UpdateStop, PreparedAt, Unpacked
    <3> QED
        BY <1>5, <2>1, <3>1, MemKept DEF Steps, UpdateStop, Env
  <2> QED
      BY <1>5, <2>2, <2>3 DEF UpdateStop
<1>6. CASE UpdateApply(t)
  <2>1. CASE Finish(t) /\ UNCHANGED <<dir, aside>>
      BY <1>3, <1>6, <2>1, FilesKept DEF UpdateApply, Env
  <2>2. CASE Goto(t, "restart") /\ UNCHANGED <<op, loc, dir, aside>>
    <3>1. Turn(t) /\ pc'[t] = "restart"
        BY <1>0, <1>2, <1>6, <2>2, GotoTurns DEF UpdateApply, PreparedAt, Unpacked
    <3> QED
        BY <1>6, <2>2, <3>1, MemKept, FilesKept DEF Steps, UpdateApply, Env
  <2>3. ASSUME NEW body \in Pinned, MoveAside(t), loc' = [loc EXCEPT ![t].rel = body, ![t].for = "update"]
        PROVE  Steps(t)
    <3>1. loc' = [loc EXCEPT ![t] = [loc[t] EXCEPT !.rel = body, !.for = "update"]]
        BY <1>0, <2>3
    <3>2. IsLocal([loc[t] EXCEPT !.rel = body, !.for = "update"])
        BY <1>0 DEF IsLocal
    <3>3. loc'[t].rel = body /\ loc'[t].for = "update"
        BY <1>0, <3>1 DEF IsLocal
    <3>4. PreparedAt("swap", loc'[t])
        BY <3>3 DEF PreparedAt, Unpacked, Trusted
    <3>5. Turn(t) /\ pc'[t] = "swap"
        BY <1>0, <1>2, <1>6, <2>3, <3>1, <3>2, <3>4, GotoTurns DEF UpdateApply, MoveAside
    <3> QED
        BY <1>6, <2>3, <3>5, MemKept, MoveAsideStores DEF Steps, UpdateApply, Env
  <2> QED
      BY <1>6, <2>1, <2>2, <2>3, DownloadIsPinned DEF UpdateApply
<1> QED
    BY <1>1, <1>4, <1>5, <1>6

\* restartZapretAfterUpdate: the update still holds zapretOpMu.
LEMMA RestartSteps ==
    ASSUME IInv, NEW t \in {"cmd", "job"}, Restart(t) \/ Restarted(t)
    PROVE  Steps(t)
<1>0. t \in Threads /\ Switched(mem)
    BY DEF Threads, IInv, Shape
<1>1. op = t
    BY <1>0 DEF Restart, Restarted, At, IInv, Holds, Owning
<1>2. CASE Restart(t) /\ Offered(dir) = <<>>
  <2>1. applyZapretState(t, mem, FALSE, NoStrategy) /\ UNCHANGED <<gone, life, filter, dir, aside>>
      BY <1>2 DEF Restart, Env
  <2> QED
      BY <1>0, <2>1, ApplySteps, FilesKept
<1>3. CASE Restart(t) /\ Offered(dir) # <<>>
  <2> DEFINE s == Chosen(loc[t].s)
  <2>1. Start(t, s, "restarted") /\ UNCHANGED <<op, mem, filter, dir, aside, gone, life>>
      BY <1>3 DEF Restart, Env
  <2> HIDE DEF s
  <2>2. "restarted" \in Launched
      BY DEF Launched
  <2> QED
      BY <1>0, <1>1, <2>1, <2>2, StartSteps, FilesKept
<1>4. CASE Restarted(t)
  <2>1. applyZapretState(t, mem, loc[t].up, loc[t].s) /\ UNCHANGED <<gone, life, filter, dir, aside>>
      BY <1>4 DEF Restarted, Env
  <2> QED
      BY <1>0, <2>1, ApplySteps, FilesKept
<1> QED
    BY <1>2, <1>3, <1>4

\* Any step the command loop shares with the job.
LEMMA SharedSteps ==
    ASSUME IInv, NEW t \in {"cmd", "job"}, Shared(t), t = "cmd" => life = "up"
    PROVE  Steps(t)
    BY LaunchSteps, MoveInSteps, EmbedSteps, RaiseSteps, TunnelSteps, UpdateSteps, RestartSteps DEF Shared

----------------------------------------------------------------------------
(* The command loop's own steps.                                           *)

\* start_zapret and stop_zapret.
LEMMA SwitchSteps ==
    ASSUME IInv, StartLock \/ StartGo \/ StartDone \/ StopLock \/ RecordWish \/ StopGo
    PROVE  Steps("cmd")
<1>0. "cmd" \in Threads /\ Switched(mem)
    BY DEF Threads, IInv, Shape
<1>1. CASE StartLock
    BY <1>0, <1>1, AcquireSteps DEF StartLock, Unpacked
<1>2. CASE StopLock
    BY <1>0, <1>2, AcquireSteps DEF StopLock, Unpacked
<1>3. ASSUME At("cmd", "start_go") \/ At("cmd", "start_done") \/ At("cmd", "stop_wish") \/ At("cmd", "stop_go")
      PROVE  op = "cmd"
    BY <1>0, <1>3 DEF At, IInv, Holds, Owning
<1>4. ASSUME Finish("cmd"), UNCHANGED <<mem, gone, life>>, Stores
      PROVE  Steps("cmd")
  <2>1. Turn("cmd") /\ pc'["cmd"] \in {"tick", "idle"}
      BY <1>0, <1>4, FinishTurns DEF Finish
  <2> QED
      BY <1>4, <2>1, MemKept DEF Steps
<1>5. CASE StartGo
  <2> DEFINE want == IF loc["cmd"].s # NoStrategy THEN loc["cmd"].s ELSE mem.active
             s == Chosen(want)
  <2>1. UNCHANGED <<mem, filter, dir, aside, gone, life>>
      BY <1>5 DEF StartGo, Env, Bypass
  <2>2. (Start("cmd", s, "start_done") /\ UNCHANGED op) \/ Finish("cmd")
      BY <1>5 DEF StartGo
  <2> HIDE DEF s
  <2>3. "start_done" \in Launched
      BY DEF Launched
  <2> QED
      BY <1>0, <1>3, <1>4, <1>5, <2>1, <2>2, <2>3, StartSteps, FilesKept DEF StartGo
<1>6. CASE StartDone
  <2>1. UNCHANGED <<filter, dir, aside, gone, life>> /\ op = "cmd"
      BY <1>3, <1>6 DEF StartDone, Env
  <2>2. CASE Finish("cmd") /\ UNCHANGED <<mem, disk>>
      BY <1>4, <2>1, <2>2, FilesKept
  <2>3. CASE applyZapretChoice("cmd", TRUE, loc["cmd"].s)
    <3> DEFINE m == [mem EXCEPT !.wanted = "on"]
    <3>1. Switched(m)
        BY <1>0 DEF Switched
    <3>2. applyZapretState("cmd", m, TRUE, loc["cmd"].s)
        BY <2>3 DEF applyZapretChoice
    <3> HIDE DEF m
    <3> QED
        BY <1>0, <2>1, <3>1, <3>2, ApplySteps, FilesKept
  <2> QED
      BY <1>6, <2>2, <2>3 DEF StartDone
<1>7. CASE RecordWish
  <2>1. Turn("cmd") /\ pc'["cmd"] = "stop_go"
      BY <1>0, <1>3, <1>7, GotoTurns DEF RecordWish, PreparedAt, Unpacked
  <2>2. Switches("cmd")
      BY <1>0, <1>3, <1>7, <2>1 DEF RecordWish, Switches, Switched
  <2> QED
      BY <1>7, <2>1, <2>2, FilesKept DEF Steps, RecordWish, Env
<1>8. CASE StopGo
  <2>1. UNCHANGED <<dir, aside, gone, life>> /\ op = "cmd" /\ filter' = NoStrategy
      BY <1>3, <1>8 DEF StopGo, Env
  <2>2. Stores
      BY <2>1 DEF Stores, IInv, Shape, Bundles, FilterIsPinned
  <2>3. CASE Finish("cmd") /\ UNCHANGED <<mem, disk>>
      BY <1>4, <2>1, <2>2, <2>3
  <2>4. CASE applyZapretChoice("cmd", FALSE, NoStrategy)
    <3> DEFINE m == [mem EXCEPT !.wanted = "off"]
    <3>1. Switched(m)
        BY <1>0 DEF Switched
    <3>2. applyZapretState("cmd", m, FALSE, NoStrategy)
        BY <2>4 DEF applyZapretChoice
    <3> HIDE DEF m
    <3> QED
        BY <1>0, <2>1, <2>2, <3>1, <3>2, ApplySteps
  <2> QED
      BY <1>8, <2>3, <2>4 DEF StopGo
<1> QED
    BY <1>1, <1>2, <1>5, <1>6, <1>7, <1>8

\* pick_zapret.
LEMMA PickSteps ==
    ASSUME IInv, PickLock \/ PickGo \/ PickTry \/ PickProbe \/ PickEnd
    PROVE  Steps("cmd")
<1>0. "cmd" \in Threads
    BY DEF Threads
<1>1. CASE PickLock
    BY <1>0, <1>1, AcquireSteps DEF PickLock, Unpacked
<1>2. ASSUME At("cmd", "pick_go") \/ At("cmd", "pick_try") \/ At("cmd", "pick_probe")
      PROVE  op = "cmd"
    BY <1>0, <1>2 DEF At, IInv, Holds, Owning
<1>3. ASSUME UNCHANGED <<dir, aside>>, filter' \in {filter, NoStrategy}
      PROVE  Stores
    BY <1>3 DEF Stores, IInv, Shape, Bundles, FilterIsPinned
<1>4. ASSUME Finish("cmd"), UNCHANGED <<mem, gone, life, dir, aside>>, filter' \in {filter, NoStrategy}
      PROVE  Steps("cmd")
  <2>1. Turn("cmd") /\ pc'["cmd"] \in {"tick", "idle"}
      BY <1>0, <1>4, FinishTurns DEF Finish
  <2> QED
      BY <1>3, <1>4, <2>1, MemKept DEF Steps
<1>5. ASSUME Goto("cmd", "pick_try"), UNCHANGED <<op, loc, mem, gone, life, dir, aside>>, op = "cmd",
             filter' \in {filter, NoStrategy}
      PROVE  Steps("cmd")
  <2>1. Turn("cmd") /\ pc'["cmd"] = "pick_try"
      BY <1>0, <1>5, GotoTurns DEF PreparedAt, Unpacked
  <2> QED
      BY <1>3, <1>5, <2>1, MemKept DEF Steps
<1>6. CASE PickGo
    BY <1>2, <1>4, <1>5, <1>6 DEF PickGo, Env
<1>7. CASE PickTry
  <2>1. CASE Finish("cmd")
      BY <1>4, <1>7, <2>1 DEF PickTry, Env
  <2>2. CASE Start("cmd", Head(results.todo), "pick_probe") /\ UNCHANGED op
    <3>1. "pick_probe" \in Launched
        BY DEF Launched
    <3> QED
        BY <1>0, <1>2, <1>7, <2>2, <3>1, StartSteps, FilesKept DEF PickTry, Env
  <2> QED
      BY <1>7, <2>1, <2>2 DEF PickTry
<1>8. CASE PickProbe
    BY <1>2, <1>5, <1>8 DEF PickProbe, Env
<1>9. CASE PickEnd
  <2>1. UNCHANGED <<mem, dir, aside, gone, life>> /\ filter' = NoStrategy /\ op = "cmd"
      BY <1>2, <1>9 DEF PickEnd, Env
  <2>2. CASE Finish("cmd")
      BY <1>4, <2>1, <2>2
  <2>3. ASSUME NEW s, Start("cmd", s, "start_done"), UNCHANGED op
        PROVE  Steps("cmd")
    <3>1. "start_done" \in Launched
        BY DEF Launched
    <3> QED
        BY <1>0, <1>3, <2>1, <2>3, <3>1, StartSteps
  <2> QED
      BY <1>9, <2>2, <2>3 DEF PickEnd
<1> QED
    BY <1>1, <1>6, <1>7, <1>8, <1>9

\* What records where the raise left the routing, and the import.
LEMMA RecordAndImportSteps ==
    ASSUME IInv, RecordRaise \/ ImportWipe \/ ImportBats \/ ImportBin \/ ImportStamp
    PROVE  Steps("cmd")
<1>0. /\ "cmd" \in Threads /\ "cmd" \in DOMAIN loc /\ IsLocal(loc["cmd"]) /\ Switched(mem)
      /\ IsDir(dir) /\ TrustedDir(dir)
    BY DEF Threads, IInv, Shape, Bundles
<1>1. CASE RecordRaise
  <2>1. IsLocal([Idle EXCEPT !.for = "connecting"])
      BY DEF IsLocal, Idle
  <2>2. Turn("cmd") /\ pc'["cmd"] = "conn"
      BY <1>0, <1>1, <2>1, GotoTurns DEF RecordRaise, PreparedAt, Unpacked, Owning
  <2>3. Switches("cmd")
      BY <1>0, <1>1, <2>2 DEF RecordRaise, Switches, Switched
  <2> QED
      BY <1>1, <2>2, <2>3, FilesKept DEF Steps, RecordRaise, Env
<1>2. ASSUME pc["cmd"] \in Unpacked
      PROVE  loc["cmd"].rel \in Archives
    BY <1>0, <1>2 DEF IInv, Prepared, PreparedAt
<1>3. ASSUME Return("cmd"), UNCHANGED Unpacking, IsDir(dir'), TrustedDir(dir'), FilterIsPinned'
      PROVE  Steps("cmd")
  <2>1. Turn("cmd") /\ pc'["cmd"] \in {"tick", "idle"}
      BY <1>0, <1>3, FinishTurns DEF Unpacking, Env
  <2>2. Stores
      BY <1>3 DEF Stores, Unpacking, Env, IInv, Shape, Bundles
  <2> QED
      BY <1>3, <2>1, <2>2, MemKept DEF Steps, Unpacking, Env
<1>4. ASSUME NEW l \in {"imp_bats", "imp_bin", "imp_stamp"}, Goto("cmd", l), UNCHANGED loc, UNCHANGED Unpacking,
             IsDir(dir'), TrustedDir(dir'), FilterIsPinned', pc["cmd"] \in Unpacked
      PROVE  Steps("cmd")
  <2>1. PreparedAt(l, loc'["cmd"]) /\ l # "launch" /\ l \notin Owning
      BY <1>2, <1>4 DEF PreparedAt, Owning
  <2>2. Turn("cmd") /\ pc'["cmd"] = l
      BY <1>0, <1>4, <2>1, GotoTurns DEF Unpacking, Env
  <2>3. Stores
      BY <1>4 DEF Stores, Unpacking, Env, IInv, Shape, Bundles
  <2> QED
      BY <1>4, <2>1, <2>2, <2>3, MemKept DEF Steps, Unpacking, Env
<1>5. CASE ImportWipe
  <2>1. pc["cmd"] \in Unpacked
      BY <1>5 DEF ImportWipe, At, Unpacked
  <2>2. CASE filter # NoStrategy
    <3>1. dir' = [files |-> {f \in dir.files : f[2] = "bin"}, stamp |-> <<>>] /\ Return("cmd") /\ UNCHANGED Unpacking
        BY <1>5, <2>2 DEF ImportWipe
    <3>2. IsDir(dir') /\ TrustedDir(dir')
        BY <1>0, <3>1 DEF IsDir, TrustedDir
    <3>3. FilterIsPinned'
        BY <2>2, <3>1 DEF Unpacking, Env, FilterIsPinned, IInv
    <3> QED
        BY <1>3, <3>1, <3>2, <3>3
  <2>3. CASE filter = NoStrategy
    <3>1. dir' = NoDir /\ Goto("cmd", "imp_bats") /\ UNCHANGED loc /\ UNCHANGED Unpacking
        BY <1>5, <2>3 DEF ImportWipe
    <3>2. IsDir(dir') /\ TrustedDir(dir') /\ FilterIsPinned'
        BY <2>3, <3>1 DEF IsDir, TrustedDir, NoDir, FilterIsPinned, Unpacking, Env
    <3> QED
        BY <1>4, <2>1, <3>1, <3>2
  <2> QED
      BY <2>2, <2>3
<1>6. ASSUME NEW from \in {"imp_bats", "imp_bin"}, NEW part, NEW to \in {"imp_bin", "imp_stamp"},
             ImportFiles(from, part, to)
      PROVE  Steps("cmd")
  <2>1. pc["cmd"] \in Unpacked /\ UNCHANGED Unpacking
      BY <1>6 DEF ImportFiles, At, Unpacked
  <2>2. CASE Return("cmd") /\ UNCHANGED dir
      BY <1>0, <1>3, <2>1, <2>2 DEF IInv, FilterIsPinned, Unpacking, Env, IsDir, TrustedDir
  <2>3. CASE /\ dir' = [dir EXCEPT !.files = @ \cup {<<loc["cmd"].rel, part>>}]
             /\ Goto("cmd", to) /\ UNCHANGED loc
    <3>1. IsDir(dir') /\ dir'.files = dir.files \cup {<<loc["cmd"].rel, part>>}
        BY <1>0, <2>3 DEF IsDir
    <3>2. TrustedDir(dir')
        BY <1>0, <1>2, <2>1, <3>1 DEF TrustedDir, Trusted
    <3>3. FilterIsPinned'
        BY <2>1, <3>1 DEF IInv, FilterIsPinned, Unpacking, Env
    <3> QED
        BY <1>4, <2>1, <2>3, <3>1, <3>2, <3>3
  <2> QED
      BY <1>6, <2>2, <2>3 DEF ImportFiles
<1>7. CASE ImportBats
    BY <1>6, <1>7 DEF ImportBats
<1>8. CASE ImportBin
    BY <1>6, <1>8 DEF ImportBin
<1>9. CASE ImportStamp
  <2>1. IsDir(dir') /\ dir'.files = dir.files
      BY <1>0, <1>9 DEF ImportStamp, IsDir
  <2>2. TrustedDir(dir') /\ FilterIsPinned'
      BY <1>0, <1>9, <2>1 DEF ImportStamp, TrustedDir, IInv, FilterIsPinned, Unpacking, Env
  <2> QED
      BY <1>3, <1>9, <2>1, <2>2 DEF ImportStamp
<1> QED
    BY <1>1, <1>5, <1>7, <1>8, <1>9

\* Before Close the command loop serves; a command is never in the middle of
\* Close's two rounds.
LEMMA CommandIsServed ==
    ASSUME IInv, Alive, pc["cmd"] \notin Leaving
    PROVE  life = "up"
    BY DEF IInv, Alive, Closing

\* Every step of a command, and of connect and disconnect as far as the tunnel.
LEMMA CmdKeeps ==
    ASSUME IInv, Alive,
           \/ RecordRaise \/ StartLock \/ StartGo \/ StartDone
           \/ StopLock \/ RecordWish \/ StopGo
           \/ PickLock \/ PickGo \/ PickTry \/ PickProbe \/ PickEnd
           \/ ImportWipe \/ ImportBats \/ ImportBin \/ ImportStamp
    PROVE  IInv'
<1>1. Steps("cmd")
    BY SwitchSteps, PickSteps, RecordAndImportSteps
<1>2. pc["cmd"] \notin Leaving
    BY DEF RecordRaise, StartLock, StartGo, StartDone, StopLock, RecordWish, StopGo, PickLock, PickGo,
           PickTry, PickProbe, PickEnd, ImportWipe, ImportBats, ImportBin, ImportStamp, ImportFiles,
           Acquire, At, Leaving
<1> QED
    BY <1>1, <1>2, CommandIsServed, StepKeeps DEF Threads

\* The same of the steps the command loop shares with the job, the last one of
\* Close's rounds apart.
LEMMA SharedKeeps ==
    ASSUME IInv, NEW t \in {"cmd", "job"}, Shared(t), t = "cmd" => Alive /\ (life = "up" \/ ~Teardown(t))
    PROVE  IInv'
<1>1. ASSUME t = "cmd", life # "up"
      PROVE  FALSE
  <2>1. /\ ~Teardown(t) /\ pc["cmd"] \in Leaving
      BY <1>1, CommandIsServed
  <2> QED
      BY <1>1, <2>1 DEF Shared, Launch, MoveIn, EmbedPresent, EmbedLock, EmbedGiveUp, EmbedInstall, RaiseCheck,
           RaiseLock, RaiseGiveUp, RaiseGo, RaiseDone, Reapply, ReapplyNothing, UpdateLock, UpdateLookup,
           UpdateStop, UpdateApply, Restart, Restarted, GiveUp, Acquire, At, Leaving
<1> QED
    BY <1>1, SharedSteps, StepKeeps DEF Threads

----------------------------------------------------------------------------
(* The commands, the verify goroutine and the daemon's life.               *)

\* The command loop picks a command only while it serves.
LEMMA CommandsKeep ==
    ASSUME IInv, Commands
    PROVE  IInv'
<1>0. "cmd" \in Threads /\ "cmd" \in DOMAIN loc /\ IsLocal(loc["cmd"]) /\ Switched(mem)
    BY DEF Threads, IInv, Shape
<1>1. life = "up" /\ pc["cmd"] = "idle"
    BY DEF Commands, handleConnect, handleDisconnect, handleStartZapret, handleStopZapret, handlePickZapret,
           handleUpdateZapret, handleImportZapret, handleSetZapretAutoUpdate, Command, At
<1>2. ASSUME NEW l \in {"embed", "stop_lock", "pick_lock", "upd_lock"}, Command(l), UNCHANGED loc
      PROVE  Steps("cmd")
    BY <1>0, <1>2, MoveSteps DEF Command, Bypass, Owning, Unpacked
<1>3. ASSUME NEW l \in {"conn", "start_lock", "imp_wipe"}, Command(l),
             NEW r, loc' = [loc EXCEPT !["cmd"] = r], IsLocal(r), l = "imp_wipe" => r.rel \in Archives
      PROVE  Steps("cmd")
  <2>1. PreparedAt(l, loc'["cmd"]) /\ l # "launch" /\ l \notin Owning
      BY <1>0, <1>3 DEF PreparedAt, Owning, Unpacked
  <2>2. Turn("cmd") /\ pc'["cmd"] = l
      BY <1>0, <1>3, <2>1, GotoTurns DEF Command
  <2> QED
      BY <1>3, <2>1, <2>2, MemKept, FilesKept DEF Steps, Command, Bypass
<1>4. CASE handleDisconnect
  <2>1. loc' = [loc EXCEPT !["cmd"] = [loc["cmd"] EXCEPT !["for"] = "idle"]]
      BY <1>0, <1>4 DEF handleDisconnect, Set
  <2>2. IsLocal([loc["cmd"] EXCEPT !["for"] = "idle"])
      BY <1>0 DEF IsLocal
  <2> QED
      BY <1>0, <1>1, <1>3, <1>4, <2>1, <2>2, StepKeeps DEF handleDisconnect
<1>5. CASE handleStartZapret
  <2>1. PICK s : Command("start_lock") /\ Set("cmd", "s", s)
      BY <1>5 DEF handleStartZapret
  <2>2. loc' = [loc EXCEPT !["cmd"] = [loc["cmd"] EXCEPT !["s"] = s]]
      BY <1>0, <2>1 DEF Set
  <2>3. IsLocal([loc["cmd"] EXCEPT !["s"] = s])
      BY <1>0 DEF IsLocal
  <2> QED
      BY <1>0, <1>1, <1>3, <2>1, <2>2, <2>3, StepKeeps
<1>6. CASE handleImportZapret
  <2>1. PICK v \in Archives, named \in BOOLEAN :
            Command("imp_wipe") /\ loc' = [loc EXCEPT !["cmd"].rel = v, !["cmd"].up = named]
      BY <1>6 DEF handleImportZapret
  <2>2. loc' = [loc EXCEPT !["cmd"] = [loc["cmd"] EXCEPT !.rel = v, !.up = named]]
      BY <1>0, <2>1
  <2>3. IsLocal([loc["cmd"] EXCEPT !.rel = v, !.up = named]) /\ [loc["cmd"] EXCEPT !.rel = v, !.up = named].rel = v
      BY <1>0 DEF IsLocal
  <2> QED
      BY <1>0, <1>1, <1>3, <2>1, <2>2, <2>3, StepKeeps
<1>7. CASE handleSetZapretAutoUpdate
  <2>1. UNCHANGED <<op, pc, loc, filter, dir, aside, gone, life>> /\ \E on : mem' = [mem EXCEPT !.auto = on]
      BY <1>7 DEF handleSetZapretAutoUpdate
  <2>2. Turn("cmd")
      BY <1>0, <1>1, <2>1 DEF Turn, IInv, Shape, Prepared, Owning
  <2>3. Switches("cmd")
      BY <1>0, <1>1, <2>1 DEF Switches, Switched
  <2> QED
      BY <1>0, <1>1, <2>1, <2>2, <2>3, FilesKept, StepKeeps DEF Steps
<1> QED
    BY <1>0, <1>1, <1>2, <1>4, <1>5, <1>6, <1>7, StepKeeps
       DEF Commands, handleConnect, handleStopZapret, handlePickZapret, handleUpdateZapret

\* The job's own steps.
LEMMA JobKeeps ==
    ASSUME IInv, JobWake \/ JobRaised \/ JobTick \/ StartJob
    PROVE  IInv'
<1>0. "job" \in Threads /\ Switched(mem)
    BY DEF Threads, IInv, Shape
<1>1. CASE JobWake
  <2>1. CASE Goto("job", "raise") /\ UNCHANGED loc
      BY <1>0, <1>1, <2>1, MoveSteps, StepKeeps DEF JobWake, Bypass, Env, Owning, Unpacked
  <2>2. CASE Return("job")
    <3>1. Turn("job") /\ pc'["job"] \in {"tick", "idle"}
        BY <1>0, <1>1, <2>2, FinishTurns DEF JobWake
    <3> QED
        BY <1>0, <1>1, <3>1, MemKept, FilesKept, StepKeeps DEF Steps, JobWake, Bypass, Env
  <2> QED
      BY <1>1, <2>1, <2>2 DEF JobWake
<1>2. CASE JobRaised
  <2>1. UNCHANGED <<filter, dir, aside, gone, life>>
      BY <1>2 DEF JobRaised, Env
  <2>2. CASE Finish("job") /\ UNCHANGED <<mem, disk>>
    <3>1. Turn("job") /\ pc'["job"] \in {"tick", "idle"}
        BY <1>0, <2>2, FinishTurns DEF Finish
    <3> QED
        BY <1>0, <2>1, <2>2, <3>1, MemKept, FilesKept, StepKeeps DEF Steps
  <2>3. CASE applyZapretState("job", mem, TRUE, NoStrategy)
      BY <1>0, <2>1, <2>3, ApplySteps, FilesKept, StepKeeps
  <2> QED
      BY <1>2, <2>2, <2>3 DEF JobRaised
<1>3. CASE JobTick
  <2>1. (IF mem.auto THEN "upd_lock" ELSE "tick") \notin Owning \cup Unpacked
      BY DEF Owning, Unpacked
  <2> QED
      BY <1>0, <1>3, <2>1, MoveSteps, StepKeeps DEF JobTick, Bypass
<1>4. CASE StartJob
    BY <1>0, <1>4, MoveSteps, StepKeeps DEF StartJob, Life, Bypass, Env, Owning, Unpacked
<1> QED
    BY <1>1, <1>2, <1>3, <1>4

\* verifyBypass, and the tunnel coming up or failing.
LEMMA VerifyKeeps ==
    ASSUME IInv, VerifyStep \/ TunnelUp \/ TunnelFails
    PROVE  IInv'
<1>0. "verify" \in Threads /\ Switched(mem)
    BY DEF Threads, IInv, Shape
<1>1. ASSUME NEW l \in {"off", "verify", "delay", "probe1", "probe2", "fall"}, VerifyGo(l)
      PROVE  IInv'
    BY <1>0, <1>1, MoveSteps, StepKeeps DEF VerifyGo, Bypass, Env, Owning, Unpacked
<1>2. CASE VerifyWait \/ VerifyLate \/ VerifyProbe
    BY <1>1, <1>2 DEF VerifyWait, VerifyLate, VerifyProbe
<1>3. CASE fallBackToTunnel
  <2>1. Turn("verify") /\ pc'["verify"] = "off"
      BY <1>0, <1>3, GotoTurns DEF fallBackToTunnel, PreparedAt, Unpacked, Owning
  <2>2. Switches("verify")
      BY <1>0, <1>3, <2>1 DEF fallBackToTunnel, Switches, Switched
  <2> QED
      BY <1>0, <1>3, <2>1, <2>2, FilesKept, StepKeeps DEF Steps, fallBackToTunnel, Env
<1>4. CASE TunnelUp
    BY <1>0, <1>4, MoveSteps, StepKeeps DEF TunnelUp, Bypass, Env, Owning, Unpacked
<1>5. CASE TunnelFails
    BY <1>5 DEF TunnelFails, Bypass, Env, IInv, Shape, Holds, Prepared, RaiseObeysSwitch, FilterIsPinned, Bundles,
           Closing
<1> QED
    BY <1>2, <1>3, <1>4, <1>5 DEF VerifyStep

\* Sessions end and start, the daemon is told to end, Close begins.
LEMMA LifeKeeps ==
    ASSUME IInv, SessionEnds \/ NewSession \/ Signal \/ CloseBegin
    PROVE  IInv'
<1>0. "cmd" \in Threads
    BY DEF Threads
<1>1. CASE SessionEnds \/ NewSession \/ Signal
  <2>1. UNCHANGED <<op, pc, loc, mem, filter, dir, aside, life>>
      BY <1>1 DEF SessionEnds, NewSession, Signal, Life, Bypass
  <2>2. life \in {"leaving", "closed"} => "daemon" \in gone'
      BY <1>1 DEF SessionEnds, NewSession, Signal, IInv, Closing
  <2> QED
      BY <2>1, <2>2 DEF IInv, Shape, Holds, Prepared, RaiseObeysSwitch, FilterIsPinned, Bundles, Closing
<1>2. CASE CloseBegin
  <2>1. Turn("cmd") /\ pc'["cmd"] = "close"
      BY <1>0, <1>2, GotoTurns DEF CloseBegin, Life, PreparedAt, Unpacked, Owning
  <2>2. Closing'
      BY <1>2, <2>1 DEF CloseBegin, Closing, Leaving
  <2> QED
      BY <1>0, <1>2, <2>1, <2>2, MemKept, FilesKept, TurnKeeps DEF CloseBegin, Life, Bypass
<1> QED
    BY <1>1, <1>2

\* Close, one lock at a time: after its second round the filter is down, and by
\* then the daemon's context has ended.
LEMMA CloseKeeps ==
    ASSUME IInv, Alive, CloseLock \/ CloseStop \/ TakeDown("cmd") \/ (Teardown("cmd") /\ life # "up")
    PROVE  IInv'
<1>0. "cmd" \in Threads /\ "cmd" \in DOMAIN loc /\ IsLocal(loc["cmd"])
    BY DEF Threads, IInv, Shape
<1>1. CASE CloseLock
  <2>1. Steps("cmd")
      BY <1>0, <1>1, AcquireSteps DEF CloseLock, Unpacked
  <2>2. Closing'
      BY <1>0, <1>1, <2>1 DEF CloseLock, Acquire, Goto, Steps, IInv, Shape, Closing, Leaving
  <2> QED
      BY <1>0, <2>1, <2>2, TurnKeeps DEF Steps, IInv, Shape
<1>2. CASE CloseStop
  <2>1. op = "cmd" /\ UNCHANGED <<dir, aside, mem, gone, life>>
      BY <1>0, <1>2 DEF CloseStop, At, Env, IInv, Holds, Owning
  <2>2. filter' = NoStrategy
      BY <1>2 DEF CloseStop, IInv, FilterIsPinned, NoDir
  <2>3. loc' = [loc EXCEPT !["cmd"] = [loc["cmd"] EXCEPT !["for"] = "idle"]]
      BY <1>0, <1>2 DEF CloseStop, Set
  <2>4. IsLocal([loc["cmd"] EXCEPT !["for"] = "idle"])
      BY <1>0 DEF IsLocal
  <2>5. PreparedAt("conn", loc'["cmd"])
      BY DEF PreparedAt, Unpacked
  <2>6. Turn("cmd") /\ pc'["cmd"] = "conn"
      BY <1>0, <1>2, <2>1, <2>3, <2>4, <2>5, GotoTurns DEF CloseStop, Owning
  <2>7. Stores
      BY <2>1, <2>2 DEF Stores, IInv, Shape, Bundles, FilterIsPinned
  <2>8. Closing'
      BY <2>1, <2>2, <2>6 DEF IInv, Closing, Leaving
  <2> QED
      BY <1>0, <2>1, <2>6, <2>7, <2>8, MemKept, TurnKeeps DEF IInv, Shape
<1>3. CASE TakeDown("cmd")
  <2> DEFINE r == [loc["cmd"] EXCEPT !.for = loc["cmd"].for, !.was = mem.flag]
  <2>1. loc' = [loc EXCEPT !["cmd"] = r]
      BY <1>0, <1>3 DEF TakeDown, BeginTeardown
  <2>2. IsLocal(r)
      BY <1>0 DEF IsLocal
  <2> HIDE DEF r
  <2>3. PreparedAt("teardown", loc'["cmd"])
      BY DEF PreparedAt, Unpacked
  <2>4. Turn("cmd") /\ pc'["cmd"] = "teardown"
      BY <1>0, <1>3, <2>1, <2>2, <2>3, GotoTurns DEF TakeDown, BeginTeardown, Owning
  <2>5. UNCHANGED <<mem, filter, dir, aside, gone, life>> /\ pc["cmd"] = "conn"
      BY <1>3 DEF TakeDown, BeginTeardown, Bypass, Env, At
  <2>6. Closing'
      BY <2>4, <2>5 DEF IInv, Closing, Leaving
  <2> QED
      BY <1>0, <2>4, <2>5, <2>6, MemKept, FilesKept, TurnKeeps DEF IInv, Shape
<1>4. CASE Teardown("cmd") /\ life # "up"
  <2>1. /\ life' = (IF life = "closing" THEN "leaving" ELSE "closed")
        /\ gone' = {"session", "daemon"}
        /\ Goto("cmd", IF life = "closing" THEN "close" ELSE "idle")
        /\ loc' = [loc EXCEPT !["cmd"] = Idle]
        /\ UNCHANGED <<op, mem, filter, dir, aside>> /\ pc["cmd"] = "teardown"
      BY <1>4 DEF Teardown, Bypass, At
  <2>2. IsLocal(Idle)
      BY DEF IsLocal, Idle
  <2> DEFINE l == IF life = "closing" THEN "close" ELSE "idle"
  <2>3. PreparedAt(l, loc'["cmd"]) /\ l \notin Owning /\ l # "launch"
      BY DEF PreparedAt, Unpacked, Owning
  <2>4. Turn("cmd") /\ pc'["cmd"] = l
      BY <1>0, <2>1, <2>2, <2>3, GotoTurns
  <2>5. Closing'
      BY <1>4, <2>1, <2>4 DEF IInv, Closing, Leaving, Alive
  <2> QED
      BY <1>0, <2>1, <2>3, <2>4, <2>5, MemKept, FilesKept, TurnKeeps
<1> QED
    BY <1>1, <1>2, <1>3, <1>4

----------------------------------------------------------------------------
(* The theorems.                                                           *)

\* A daemon that starts satisfies the invariant, also on a filter that its
\* predecessor left running and on a swap that was cut short.
LEMMA InitHolds == Init => IInv
<1> SUFFICES ASSUME Init PROVE IInv
    OBVIOUS
<1> USE DEF Init
<1>1. Shape
    BY DEF Shape, Threads, Idle, IsLocal, Switched, IsDir, NoDir, Bundle
<1>2. Holds /\ Prepared /\ RaiseObeysSwitch
    BY DEF Holds, Owning, Prepared, PreparedAt, Unpacked, RaiseObeysSwitch, Threads
<1>3. FilterIsPinned
  <2>1. CASE filter = NoStrategy
      BY <2>1 DEF FilterIsPinned
  <2>2. CASE dir = Bundle(Embedded)
    <3>1. <<Embedded, "bin">> \in Bundle(Embedded).files
        BY DEF Bundle
    <3> QED
        BY <2>2, <3>1 DEF FilterIsPinned
  <2> QED
      BY <2>1, <2>2
<1>4. Bundles
    BY DEF Bundles, TrustedDir, Trusted, NoDir, Bundle
<1>5. Closing
    BY DEF Closing
<1> QED
    BY <1>1, <1>2, <1>3, <1>4, <1>5 DEF IInv

\* Every step keeps it.
LEMMA NextKeeps == IInv /\ [Next]_vars => IInv'
<1> SUFFICES ASSUME IInv, [Next]_vars PROVE IInv'
    OBVIOUS
<1>1. CASE CmdStep
  <2>1. CASE Shared("cmd") /\ (life = "up" \/ ~Teardown("cmd"))
      BY <1>1, <2>1, SharedKeeps DEF CmdStep
  <2> QED
      BY <1>1, <2>1, CmdKeeps, CloseKeeps DEF CmdStep, Shared
<1>2. CASE JobStep
    BY <1>2, SharedKeeps, JobKeeps DEF JobStep
<1>3. CASE UNCHANGED vars
    BY <1>3 DEF vars, IInv, Shape, Holds, Prepared, RaiseObeysSwitch, FilterIsPinned, Bundles, Closing
<1> QED
    BY <1>1, <1>2, <1>3, CommandsKeep, JobKeeps, VerifyKeeps, LifeKeeps DEF Next

\* The inductive invariant of the bypass.
LEMMA ZapretInvariant == Spec => []IInv
    BY InitHolds, NextKeeps, PTL DEF Spec

\* Two operations never drive winws or swap the bundle at once: zapretOpMu is
\* held from Stop to the end of Start and from one rename to the other.
THEOREM ZapretIsSerialized == Spec => []FilterIsSerialized
<1>1. IInv => FilterIsSerialized
    BY DEF IInv, Holds, Owning, FilterIsSerialized
<1> QED
    BY <1>1, ZapretInvariant, PTL

\* The filter is never raised against a recorded OFF, and a daemon that has
\* closed leaves none behind.
THEOREM ZapretFollowsSwitch == Spec => []FilterFollowsSwitch
<1>1. IInv => FilterFollowsSwitch
    BY DEF IInv, Closing, FilterFollowsSwitch, ClosedMeansNoFilter
<1> QED
    BY <1>1, ZapretInvariant, PTL

\* Only what is compiled in, pinned by its checksum or imported by the user is
\* ever in the bundle directory, or in the one a swap moved aside.
THEOREM ZapretTrustsBundles == Spec => []OnlyTrustedBundles
<1>1. IInv => OnlyTrustedBundles
    BY DEF IInv, Bundles, TrustedDir, Trusted, OnlyTrustedBundles
<1> QED
    BY <1>1, ZapretInvariant, PTL
=============================================================================
