------------------------------- MODULE Runner -------------------------------
(***************************************************************************)
(* The platform runners (adapters/linux, adapters/windows, adapters/macos):*)
(* one sing-box engine at a time, spawned with a temporary config file,    *)
(* reaped by one watcher goroutine, and asked about over the loopback      *)
(* clash API.  The three adapters share Stop, Done, the watcher and the    *)
(* API client and differ in Start: Windows gives the engine a lifetime job *)
(* that dies with the core (process_lifetime*.go).                         *)
(*                                                                         *)
(* A run n is the n-th call of Start that got as far as a config file.     *)
(* Callers are goroutines of the daemon; the engine, the job object and    *)
(* the clash API server are external.  A step that holds r.mu and does not *)
(* wait is one action; the Windows launch, which does system calls under   *)
(* the lock, is four.                                                      *)
(***************************************************************************)
EXTENDS Integers, Sequences, FiniteSets, SequencesExt

CONSTANTS
    Platforms,   \* the builds checked: a subset of {"linux", "windows", "macos"}
    Callers,     \* goroutines that call Start and Stop
    MaxRuns,     \* bound: calls of Start that write a config
    MaxChunks,   \* bound: writes of engine output
    MaxPending,  \* processlog maxPendingBytes
    MaxCrashes   \* bound: deaths of the core

ASSUME RunnerAssumption ==
    /\ Platforms \subseteq {"linux", "windows", "macos"}
    /\ "free" \notin Callers   \* mu is a caller or "free"
    /\ MaxRuns \in Nat /\ MaxChunks \in Nat /\ MaxPending \in Nat \ {0} /\ MaxCrashes \in Nat

NoRun == 0
Runs == 1..MaxRuns

VARIABLES
    platform, \* the build
    mu,       \* r.mu across the Windows launch: the caller that holds it, or "free"
    pc,       \* pc[c]: where caller c is
    arg,      \* arg[c]: the run c starts, or the run whose exit it waits for
    stopped,  \* stopped[c]: the run whose Stop last returned to c, until c goes on
    cmd,      \* r.cmd: the current run
    doneOf,   \* r.done: the run whose channel Done returns
    secret,   \* r.clashSecret: the run whose config it came from
    lastRun,  \* runs begun so far
    cfgs,     \* the config files in the temp directory
    proc,     \* proc[n]: "none", "suspended", "running" or "exited"
    job,      \* job[n]: the lifetime job: "none", "empty", "owns" or "closed"
    cancelled,\* the runs whose context is cancelled
    watcher,  \* watcher[n]: "none", "wait", "reaped", "cleared" or "published"
    chan,     \* chan[n]: the done channel: "open", "full" (value and closed) or "drained"
    out,      \* out[n]: the processlog writer of the run
    said,     \* said[n]: the text bytes the engine of run n has written (history)
    chunks,   \* output chunks written so far
    awaits,   \* the daemon's exit watcher: the run it waits on, or NoRun
    api,      \* the clash API call in flight
    selected, \* the runs whose selector a Select moved
    crashes   \* deaths of the core so far

own   == <<mu, pc, arg, stopped, cmd, doneOf, secret, watcher, chan, awaits>>
vars  == <<platform, own, lastRun, cfgs, proc, job, cancelled, out, said, chunks, api, selected, crashes>>

-----------------------------------------------------------------------------
(* processlog.Writer, one byte at a time: "x" is any byte of a line, "r" a *)
(* carriage return, "n" the newline that ends the line.                    *)

Quiet == [pending |-> <<>>, hasData |-> FALSE, lines |-> <<>>]

\* A line loses one trailing carriage return and reaches the ring.
emitPending(w) ==
    LET trimmed == IF w.pending # <<>> /\ Last(w.pending) = "r" THEN Front(w.pending) ELSE w.pending
    IN [w EXCEPT !.pending = <<>>, !.lines = Append(@, trimmed)]

\* A byte joins the pending line; a full buffer is emitted as a chunk.
appendBounded(w, b) ==
    LET longer == [pending |-> Append(w.pending, b), hasData |-> TRUE, lines |-> w.lines]
    IN IF Len(longer.pending) = MaxPending THEN emitPending(longer) ELSE longer

\* The newline of a line that was already emitted in whole chunks adds no
\* empty line of its own.
endLine(w) ==
    LET ended == IF w.pending # <<>> \/ ~w.hasData THEN emitPending(w) ELSE w
    IN [ended EXCEPT !.hasData = FALSE]

Write(w, p) ==
    LET after[i \in 0..Len(p)] ==
            IF i = 0 THEN w
            ELSE IF p[i] = "n" THEN endLine(after[i - 1]) ELSE appendBounded(after[i - 1], p[i])
    IN after[Len(p)]

Flush(w) ==
    LET last == IF w.pending # <<>> THEN emitPending(w) ELSE w
    IN [last EXCEPT !.hasData = FALSE]

\* How many bytes of a line carry text, and how many of all lines together.
Words(line) == Cardinality({k \in DOMAIN line : line[k] = "x"})
WordsOf(lines) ==
    Cardinality(UNION {{<<i, k>> : k \in {j \in DOMAIN lines[i] : lines[i][j] = "x"}} : i \in DOMAIN lines})

\* What the engine writes at once: a line that just fills the buffer, ended by
\* CRLF, and the beginning of one that is longer.
Output == {<<"x", "r", "n", "x", "x", "x">>}

-----------------------------------------------------------------------------
NoCall == [auth |-> NoRun, by |-> NoRun, status |-> "none", result |-> "none"]

Init ==
    /\ platform \in Platforms
    /\ mu = "free"
    /\ pc = [c \in Callers |-> "idle"]
    /\ arg = [c \in Callers |-> NoRun]
    /\ stopped = [c \in Callers |-> NoRun]
    /\ cmd = NoRun /\ doneOf = NoRun /\ secret = NoRun
    /\ lastRun = 0
    /\ cfgs = {}
    /\ proc = [n \in Runs |-> "none"]
    /\ job = [n \in Runs |-> "none"]
    /\ cancelled = {}
    /\ watcher = [n \in Runs |-> "none"]
    /\ chan = [n \in Runs |-> "open"]
    /\ out = [n \in Runs |-> Quiet]
    /\ said = [n \in Runs |-> 0]
    /\ chunks = 0
    /\ awaits = NoRun
    /\ api = NoCall
    /\ selected = {}
    /\ crashes = 0

Return(c) == /\ pc' = [pc EXCEPT ![c] = "idle"]
             /\ arg' = [arg EXCEPT ![c] = NoRun]

-----------------------------------------------------------------------------
(* Start.  Before the lock: the binary is resolved (on Windows wintun.dll  *)
(* is placed beside it) and the config is written to a temporary file.  A  *)
(* failure of either leaves nothing behind and changes nothing.            *)

writeConfig(c) ==
    /\ pc[c] = "idle" /\ lastRun < MaxRuns
    /\ lastRun' = lastRun + 1
    /\ stopped' = [stopped EXCEPT ![c] = NoRun]
    /\ cfgs' = cfgs \cup {lastRun'}
    /\ pc' = [pc EXCEPT ![c] = "lock"]
    /\ arg' = [arg EXCEPT ![c] = lastRun']
    /\ UNCHANGED <<platform, mu, cmd, doneOf, secret, watcher, chan, awaits, proc, job, cancelled,
                   out, said, chunks, api, selected, crashes>>

\* The spawned run becomes the current one, with a watcher and a fresh channel.
Spawned(n) ==
    /\ proc' = [proc EXCEPT ![n] = "running"]
    /\ cmd' = n /\ doneOf' = n /\ secret' = n
    /\ watcher' = [watcher EXCEPT ![n] = "wait"]

\* A start that failed after the config was written removes it.
Abandoned(n) ==
    /\ cfgs' = cfgs \ {n}
    /\ UNCHANGED <<cmd, doneOf, secret, watcher>>

\* Linux and macOS: exec starts the engine, or refuses.
StartUnix(c) ==
    LET n == arg[c] IN
    /\ platform # "windows" /\ pc[c] = "lock" /\ mu = "free"
    /\ \/ /\ cmd = NoRun
          /\ Spawned(n)
          /\ UNCHANGED cfgs
       \/ /\ Abandoned(n)   \* already running, or cmd.Start failed
          /\ UNCHANGED proc
    /\ Return(c)
    /\ UNCHANGED <<platform, mu, stopped, chan, awaits, lastRun, job, cancelled, out, said, chunks, api,
                   selected, crashes>>

\* Windows: the lock is taken; with a process running the start is refused.
StartWindows(c) ==
    LET n == arg[c] IN
    /\ platform = "windows" /\ pc[c] = "lock" /\ mu = "free"
    /\ \/ /\ cmd = NoRun
          /\ mu' = c
          /\ pc' = [pc EXCEPT ![c] = "Prepare"]
          /\ UNCHANGED <<cmd, doneOf, secret, watcher, cfgs, arg>>
       \/ /\ cmd # NoRun
          /\ Abandoned(n)
          /\ Return(c)
          /\ UNCHANGED mu
    /\ UNCHANGED <<platform, stopped, chan, awaits, lastRun, proc, job, cancelled, out, said, chunks, api,
                   selected, crashes>>

\* A launch step that fails kills what was started and closes the job.
LaunchFails(c) ==
    LET n == arg[c] IN
    /\ proc' = [proc EXCEPT ![n] = IF @ = "suspended" THEN "exited" ELSE @]
    /\ job' = [job EXCEPT ![n] = IF @ = "none" THEN "none" ELSE "closed"]
    /\ Abandoned(n)
    /\ Return(c)
    /\ mu' = "free"

Steps(c, n, next) ==
    /\ pc' = [pc EXCEPT ![c] = next]
    /\ UNCHANGED <<mu, arg, cmd, doneOf, secret, watcher, cfgs>>

\* An unnamed job with kill-on-close.
Prepare(c) ==
    LET n == arg[c] IN
    /\ pc[c] = "Prepare"
    /\ \/ /\ job' = [job EXCEPT ![n] = "empty"]
          /\ Steps(c, n, "StartSuspended")
          /\ UNCHANGED proc
       \/ LaunchFails(c)
    /\ UNCHANGED <<platform, stopped, chan, awaits, lastRun, cancelled, out, said, chunks, api, selected, crashes>>

StartSuspended(c) ==
    LET n == arg[c] IN
    /\ pc[c] = "StartSuspended"
    /\ \/ /\ proc' = [proc EXCEPT ![n] = "suspended"]
          /\ Steps(c, n, "Assign")
          /\ UNCHANGED job
       \/ LaunchFails(c)
    /\ UNCHANGED <<platform, stopped, chan, awaits, lastRun, cancelled, out, said, chunks, api, selected, crashes>>

Assign(c) ==
    LET n == arg[c] IN
    /\ pc[c] = "Assign"
    /\ \/ /\ job' = [job EXCEPT ![n] = "owns"]
          /\ Steps(c, n, "Resume")
          /\ UNCHANGED proc
       \/ LaunchFails(c)
    /\ UNCHANGED <<platform, stopped, chan, awaits, lastRun, cancelled, out, said, chunks, api, selected, crashes>>

\* The engine's only thread is resumed and the run is published.
Resume(c) ==
    LET n == arg[c] IN
    /\ pc[c] = "Resume"
    /\ \/ /\ Spawned(n)
          /\ Return(c)
          /\ mu' = "free"
          /\ UNCHANGED <<job, cfgs>>
       \/ LaunchFails(c)
    /\ UNCHANGED <<platform, stopped, chan, awaits, lastRun, cancelled, out, said, chunks, api, selected, crashes>>

-----------------------------------------------------------------------------
(* Stop and Done.                                                          *)

\* Mutant: Stop frees the runner before the engine is gone.
StopForgets(c) ==
    /\ pc[c] = "idle" /\ mu = "free" /\ cmd # NoRun
    /\ cancelled' = cancelled \cup {cmd}
    /\ pc' = [pc EXCEPT ![c] = "stopping"]
    /\ arg' = [arg EXCEPT ![c] = doneOf]
    /\ cmd' = NoRun
    /\ UNCHANGED <<platform, mu, stopped, doneOf, secret, watcher, chan, awaits, lastRun, cfgs, proc, job,
                   out, said, chunks, api, selected, crashes>>

\* Stop reads the current run under the lock and cancels its context.
Stop(c) ==
    /\ pc[c] = "idle" /\ mu = "free"
    /\ stopped' = [stopped EXCEPT ![c] = NoRun]
    /\ \/ /\ cmd = NoRun
          /\ stopped[c] # NoRun     \* nothing to do; only a change of the ghost is a step
          /\ UNCHANGED <<pc, arg, cancelled>>
       \/ /\ cmd # NoRun
          /\ cancelled' = cancelled \cup {cmd}
          /\ pc' = [pc EXCEPT ![c] = "stopping"]
          /\ arg' = [arg EXCEPT ![c] = doneOf]
    /\ UNCHANGED <<platform, mu, cmd, doneOf, secret, watcher, chan, awaits, lastRun, cfgs, proc, job,
                   out, said, chunks, api, selected, crashes>>

\* Mutant: the channel is not closed after its value.
ReceivedOnce(n) ==
    /\ chan[n] = "full"
    /\ chan' = [chan EXCEPT ![n] = "drained"]

\* A receive from a done channel that has its value, or that is closed.
Received(n) ==
    /\ chan[n] # "open"
    /\ chan' = [chan EXCEPT ![n] = "drained"]

StopReturns(c) ==
    /\ pc[c] = "stopping"
    /\ Received(arg[c])
    /\ stopped' = [stopped EXCEPT ![c] = arg[c]]
    /\ Return(c)
    /\ UNCHANGED <<platform, mu, cmd, doneOf, secret, watcher, awaits, lastRun, cfgs, proc, job, cancelled,
                   out, said, chunks, api, selected, crashes>>

\* The daemon's watcher asks Done for a channel; before any Start it blocks.
Done ==
    /\ awaits = NoRun /\ mu = "free" /\ doneOf # NoRun
    /\ chan[doneOf] # "drained"
    /\ awaits' = doneOf
    /\ UNCHANGED <<platform, mu, pc, arg, stopped, cmd, doneOf, secret, watcher, chan, lastRun, cfgs, proc,
                   job, cancelled, out, said, chunks, api, selected, crashes>>

ExitSeen ==
    /\ awaits # NoRun
    /\ Received(awaits)
    /\ awaits' = NoRun
    /\ UNCHANGED <<platform, mu, pc, arg, stopped, cmd, doneOf, secret, watcher, lastRun, cfgs, proc, job,
                   cancelled, out, said, chunks, api, selected, crashes>>

-----------------------------------------------------------------------------
(* The watcher goroutine of run n.                                         *)

\* Mutant: the unterminated last line is not flushed.
ReapUnflushed(n) ==
    /\ watcher[n] = "wait" /\ proc[n] = "exited"
    /\ cfgs' = cfgs \ {n}
    /\ watcher' = [watcher EXCEPT ![n] = "reaped"]
    /\ UNCHANGED <<platform, mu, pc, arg, stopped, cmd, doneOf, secret, chan, awaits, lastRun, proc, job,
                   cancelled, out, said, chunks, api, selected, crashes>>

\* Wait returns: the job is closed, both writers are flushed, the config goes.
Reap(n) ==
    /\ watcher[n] = "wait" /\ proc[n] = "exited"
    /\ job' = [job EXCEPT ![n] = IF @ = "none" THEN "none" ELSE "closed"]
    /\ out' = [out EXCEPT ![n] = Flush(@)]
    /\ cancelled' = cancelled \cup {n}
    /\ cfgs' = cfgs \ {n}
    /\ watcher' = [watcher EXCEPT ![n] = "reaped"]
    /\ UNCHANGED <<platform, mu, pc, arg, stopped, cmd, doneOf, secret, chan, awaits, lastRun, proc, said, chunks,
                   api, selected, crashes>>

\* Under the lock the runner becomes startable again, unless superseded.
Clear(n) ==
    /\ watcher[n] = "reaped" /\ mu = "free"
    /\ cmd' = IF cmd = n THEN NoRun ELSE cmd
    /\ watcher' = [watcher EXCEPT ![n] = "cleared"]
    /\ UNCHANGED <<platform, mu, pc, arg, stopped, doneOf, secret, chan, awaits, lastRun, cfgs, proc, job,
                   cancelled, out, said, chunks, api, selected, crashes>>

\* The exit is sent on the buffered channel, which is then closed.
Publish(n) ==
    /\ watcher[n] = "cleared"
    /\ chan' = [chan EXCEPT ![n] = "full"]
    /\ watcher' = [watcher EXCEPT ![n] = "published"]
    /\ UNCHANGED <<platform, mu, pc, arg, stopped, cmd, doneOf, secret, awaits, lastRun, cfgs, proc, job,
                   cancelled, out, said, chunks, api, selected, crashes>>

-----------------------------------------------------------------------------
(* The engine, external.                                                   *)

EngineWrites(n) ==
    /\ proc[n] = "running" /\ watcher[n] = "wait" /\ chunks < MaxChunks
    /\ chunks' = chunks + 1
    /\ \E p \in Output :
        /\ out' = [out EXCEPT ![n] = Write(@, p)]
        /\ said' = [said EXCEPT ![n] = @ + Words(p)]
    /\ UNCHANGED <<platform, own, lastRun, cfgs, proc, job, cancelled, api, selected, crashes>>

EngineExits(n) ==
    /\ proc[n] = "running"
    /\ proc' = [proc EXCEPT ![n] = "exited"]
    /\ UNCHANGED <<platform, own, lastRun, cfgs, job, cancelled, out, said, chunks, api, selected, crashes>>

\* exec kills the engine of a cancelled context.
EngineKilled(n) ==
    /\ n \in cancelled
    /\ EngineExits(n)

-----------------------------------------------------------------------------
(* The clash API client.  Stats, ProbeVia and Select are one exchange with *)
(* one difference, followed here: an answered Select has moved the         *)
(* selector.  One call per behaviour: calls share nothing but the secret.  *)

\* The bearer secret is read under the lock; the request follows without it.
clashAuth ==
    /\ api = NoCall /\ secret # NoRun /\ mu = "free"
    /\ api' = [NoCall EXCEPT !.auth = secret, !.status = "sent"]
    /\ UNCHANGED <<platform, own, lastRun, cfgs, proc, job, cancelled, out, said, chunks, selected, crashes>>

\* The engine that listens on the port answers: 200 to its own secret, having
\* done what was asked, 4xx to another's or to a request it cannot serve.
ApiAnswers(n) ==
    /\ api.status = "sent" /\ proc[n] = "running"
    /\ \/ /\ api.auth = n
          /\ api' = [api EXCEPT !.status = "200", !.by = n]
          /\ selected' = selected \cup {n}
       \/ /\ api' = [api EXCEPT !.status = "4xx", !.by = n]
          /\ UNCHANGED selected
    /\ UNCHANGED <<platform, own, lastRun, cfgs, proc, job, cancelled, out, said, chunks, crashes>>

\* What the caller makes of a status: only success counts.
Accepts(status) == status = "200"

ApiReturns ==
    /\ api.status \in {"200", "4xx"}
    /\ api' = [api EXCEPT !.status = "none",
                          !.result = IF Accepts(api.status) THEN "ok" ELSE "error"]
    /\ UNCHANGED <<platform, own, lastRun, cfgs, proc, job, cancelled, out, said, chunks, selected, crashes>>

\* Nobody listens, or the client's timeout ends the call, answered or not.
ApiFails ==
    /\ api.status # "none"
    /\ api' = [NoCall EXCEPT !.result = "error"]
    /\ UNCHANGED <<platform, own, lastRun, cfgs, proc, job, cancelled, out, said, chunks, selected, crashes>>

-----------------------------------------------------------------------------
(* The core dies at any point and is started again.  Its goroutines are    *)
(* gone; the system closes its job handles and with them kills the engines *)
(* they own; an engine without a job lives on.                             *)
CoreDies ==
    /\ crashes < MaxCrashes /\ lastRun > 0
    /\ crashes' = crashes + 1
    /\ mu' = "free"
    /\ pc' = [c \in Callers |-> "idle"]
    /\ arg' = [c \in Callers |-> NoRun]
    /\ stopped' = [c \in Callers |-> NoRun]
    /\ cmd' = NoRun /\ doneOf' = NoRun /\ secret' = NoRun
    /\ watcher' = [n \in Runs |-> "none"]
    /\ awaits' = NoRun
    /\ api' = NoCall
    /\ proc' = [n \in Runs |-> IF job[n] = "owns" /\ proc[n] \in {"suspended", "running"}
                                 THEN "exited" ELSE proc[n]]
    /\ job' = [n \in Runs |-> IF job[n] \in {"empty", "owns"} THEN "closed" ELSE job[n]]
    /\ UNCHANGED <<platform, chan, lastRun, cfgs, cancelled, out, said, chunks, selected>>

-----------------------------------------------------------------------------
Next ==
    \/ \E c \in Callers :
        \/ writeConfig(c) \/ StartUnix(c) \/ StartWindows(c)
        \/ Prepare(c) \/ StartSuspended(c) \/ Assign(c) \/ Resume(c)
        \/ Stop(c) \/ StopReturns(c)
    \/ Done \/ ExitSeen
    \/ \E n \in Runs :
        \/ Reap(n) \/ Clear(n) \/ Publish(n)
        \/ EngineWrites(n) \/ EngineExits(n) \/ ApiAnswers(n)
    \/ clashAuth \/ ApiReturns \/ ApiFails
    \/ CoreDies

Spec == Init /\ [][Next]_vars

\* Goroutines that can go on do, and a killed process dies; nothing makes the
\* engine exit on its own or a caller call.
Fairness ==
    /\ \A c \in Callers :
        WF_vars(StartUnix(c)) /\ WF_vars(StartWindows(c)) /\ WF_vars(Prepare(c))
        /\ WF_vars(StartSuspended(c)) /\ WF_vars(Assign(c)) /\ WF_vars(Resume(c))
        /\ WF_vars(StopReturns(c))
    /\ \A n \in Runs :
        WF_vars(Reap(n)) /\ SF_vars(Clear(n)) /\ WF_vars(Publish(n)) /\ WF_vars(EngineKilled(n))
    /\ WF_vars(ExitSeen)

FairSpec == Spec /\ Fairness

-----------------------------------------------------------------------------
\* The shape of the state; the pending line of a writer stays below its bound.
TypeOK ==
    /\ platform \in Platforms
    /\ mu \in Callers \cup {"free"}
    /\ pc \in [Callers -> {"idle", "lock", "Prepare", "StartSuspended", "Assign", "Resume", "stopping"}]
    /\ arg \in [Callers -> Runs \cup {NoRun}]
    /\ stopped \in [Callers -> Runs \cup {NoRun}]
    /\ {cmd, doneOf, secret, awaits} \subseteq Runs \cup {NoRun}
    /\ lastRun \in 0..MaxRuns
    /\ cfgs \subseteq Runs /\ cancelled \subseteq Runs /\ selected \subseteq Runs
    /\ proc \in [Runs -> {"none", "suspended", "running", "exited"}]
    /\ job \in [Runs -> {"none", "empty", "owns", "closed"}]
    /\ watcher \in [Runs -> {"none", "wait", "reaped", "cleared", "published"}]
    /\ chan \in [Runs -> {"open", "full", "drained"}]
    /\ \A n \in Runs : Len(out[n].pending) < MaxPending
    /\ chunks \in 0..MaxChunks /\ crashes \in 0..MaxCrashes

\* One engine at a time (Start, "spawns and supervises one sing-box process at
\* a time"): two never live together, whatever the order of Start, Stop, exits
\* and failed launches.  On Windows this survives the death of the core; an
\* engine that outlives it there is suspended and never runs.
OneEngine ==
    LET live == {n \in Runs : proc[n] \in (IF crashes = 0 THEN {"suspended", "running"} ELSE {"running"})}
    IN (platform = "windows" \/ crashes = 0) => Cardinality(live) <= 1

\* When Stop has returned, the engine it stopped is gone with its config, and
\* the runner no longer counts it as running, so the next Start is not refused
\* on its account: the watcher clears before it publishes.
StopMeansGone ==
    \A c \in Callers : stopped[c] # NoRun =>
        /\ proc[stopped[c]] = "exited"
        /\ stopped[c] \notin cfgs
        /\ cmd # stopped[c]

\* The config file, which holds the credentials of the exit, is on disk only
\* while its start is in progress or its engine has not been reaped; only a
\* death of the core leaves one behind.
ConfigIsRemoved ==
    crashes = 0 => \A n \in cfgs :
        \/ \E c \in Callers : arg[c] = n /\ pc[c] # "stopping"
        \/ watcher[n] = "wait"

\* What the engine wrote last, newline or not, is in the log before its exit is
\* published (processlog: "before process completion is published"), and nothing
\* is lost where a long line is cut: a failed start can be explained from the log.
LastWordsKept ==
    \A n \in Runs :
        LET logged == WordsOf(out[n].lines)
        IN IF watcher[n] = "published" THEN logged = said[n]
                                       ELSE logged + Words(out[n].pending) = said[n]

\* A call that reports success was served by the engine whose secret it
\* carried, and a Select that reports success moved that engine's selector,
\* whatever restarted between reading the secret and the answer.
AnswersAreOwn ==
    api.result = "ok" => api.by = api.auth /\ api.by \in selected

\* The runner owns its engine: one at a time, gone when Stop has returned, its
\* config file with it, and every API answer comes from the engine selected.
EngineIsOwned == OneEngine /\ StopMeansGone /\ ConfigIsRemoved /\ AnswersAreOwn

\* Every Stop returns: the cancelled engine dies, its watcher publishes, and
\* neither a second Stop nor the daemon's own watcher takes the wake-up away.
StopCompletes ==
    \A c \in Callers : (pc[c] = "stopping") ~> (pc[c] # "stopping")
=============================================================================
