---------------------------- MODULE RunnerProofs ----------------------------
(***************************************************************************)
(* The platform runner owns its engine, for every number of callers, runs  *)
(* and deaths of the core, and every build; it keeps the engine's last     *)
(* words; and the check before a connect reports a family as captured      *)
(* exactly when it is, and refuses for a reason where the uplink is plain. *)
(*                                                                         *)
(* The inductive invariant follows a run through its life.  A run that has *)
(* not begun has left no trace (Fresh); while it is being started it has   *)
(* one caller and the process and job of the step that caller is at        *)
(* (StartIsOwned); the caller inside the Windows launch holds the lock     *)
(* (LaunchHasLock); once spawned it is current until its watcher has       *)
(* cleared it (OneCurrent), and its exit is published only then            *)
(* (ExitIsPublished).  What lives or lies on disk has one of these owners  *)
(* (EngineHasOwner, ConfigHasOwner).                                       *)
(***************************************************************************)
EXTENDS Launch, TLAPS, FiniteSetTheorems, FunctionTheorems, WellFoundedInduction

Launching == {"Prepare", "StartSuspended", "Assign", "Resume"}
Starting == {"lock"} \cup Launching

Shape ==
    /\ platform \in {"linux", "windows", "macos"}
    /\ mu \in Callers \cup {"free"}
    /\ pc \in [Callers -> Starting \cup {"idle", "stopping"}]
    /\ arg \in [Callers -> Runs \cup {NoRun}]
    /\ stopped \in [Callers -> Runs \cup {NoRun}]
    /\ cmd \in Runs \cup {NoRun} /\ doneOf \in Runs \cup {NoRun}
    /\ secret \in Runs \cup {NoRun} /\ awaits \in Runs \cup {NoRun}
    /\ lastRun \in 0..MaxRuns
    /\ cfgs \subseteq Runs /\ selected \subseteq Runs
    /\ proc \in [Runs -> {"none", "suspended", "running", "exited"}]
    /\ job \in [Runs -> {"none", "empty", "owns", "closed"}]
    /\ watcher \in [Runs -> {"none", "wait", "reaped", "cleared", "published"}]
    /\ chan \in [Runs -> {"open", "full", "drained"}]
    /\ api \in [auth : Runs \cup {NoRun}, by : Runs \cup {NoRun},
                status : {"none", "sent", "200", "4xx"}, result : {"none", "ok", "error"}]
    /\ crashes \in Nat

\* A run that has not begun has left no trace.
Fresh ==
    \A n \in Runs : n > lastRun =>
        /\ proc[n] = "none" /\ job[n] = "none"
        /\ watcher[n] = "none" /\ chan[n] = "open"

\* A run being started has begun, nobody watches it yet, and it is as far as
\* the caller that starts it.
StartIsOwned ==
    \A c \in Callers : pc[c] \in Starting =>
        /\ arg[c] \in Runs /\ arg[c] <= lastRun
        /\ watcher[arg[c]] = "none" /\ chan[arg[c]] = "open"
        /\ proc[arg[c]] = IF pc[c] \in {"Assign", "Resume"} THEN "suspended" ELSE "none"
        /\ pc[c] \in {"lock", "Prepare"} => job[arg[c]] = "none"
        /\ pc[c] = "Resume" => job[arg[c]] = "owns"

\* No two callers start one run.
OneStarter ==
    \A c, d \in Callers :
        pc[c] \in Starting /\ pc[d] \in Starting /\ arg[c] = arg[d] => c = d

\* A caller is inside the Windows launch exactly while it holds the lock, and
\* then nothing is current.
LaunchHasLock ==
    \A c \in Callers :
        /\ pc[c] \in Launching <=> mu = c
        /\ pc[c] \in Launching => platform = "windows" /\ cmd = NoRun

\* The current run, and no other, is spawned and not yet cleared; it is the one
\* whose channel Done returns.
OneCurrent ==
    /\ cmd # NoRun => doneOf = cmd /\ watcher[cmd] \in {"wait", "reaped"}
    /\ \A n \in Runs : watcher[n] \in {"wait", "reaped"} => cmd = n

\* An exit reaches the channel of a watched run last: the process is gone and
\* its config with it.
ExitIsPublished ==
    \A n \in Runs :
        /\ watcher[n] # "none" => n <= lastRun
        /\ watcher[n] \in {"reaped", "cleared", "published"} => proc[n] = "exited" /\ n \notin cfgs
        /\ watcher[n] # "none" /\ chan[n] # "open" => watcher[n] = "published"

\* A Stop waits for a run that is watched, and one that returned has seen the
\* exit published.
StopIsAnswered ==
    \A c \in Callers :
        /\ pc[c] = "stopping" => arg[c] \in Runs /\ watcher[arg[c]] # "none"
        /\ stopped[c] # NoRun => watcher[stopped[c]] = "published"

\* A process that lives is watched or being launched; on Windows one that runs
\* is watched whatever died, for its job dies with the core.
EngineHasOwner ==
    \A n \in Runs :
        /\ proc[n] = "running" /\ (platform = "windows" \/ crashes = 0) => watcher[n] = "wait"
        /\ proc[n] = "running" /\ platform = "windows" => job[n] = "owns"
        /\ proc[n] = "suspended" /\ crashes = 0 =>
               \E c \in Callers : pc[c] \in Launching /\ arg[c] = n

\* A config file is on disk while its start is in progress or its engine has
\* not been reaped.
ConfigHasOwner ==
    crashes = 0 => \A n \in cfgs :
        \/ \E c \in Callers : pc[c] \in Starting /\ arg[c] = n
        \/ watcher[n] = "wait"

\* A 200 comes from the engine whose secret was sent, with its selector moved,
\* and a call in flight has no result yet.
AnswerIsSigned ==
    /\ api.status = "200" \/ api.result = "ok" => api.by = api.auth /\ api.by \in selected
    /\ api.status # "none" => api.result = "none"

IInv ==
    /\ Shape /\ Fresh /\ StartIsOwned /\ OneStarter /\ LaunchHasLock /\ OneCurrent
    /\ ExitIsPublished /\ StopIsAnswered /\ EngineHasOwner /\ ConfigHasOwner /\ AnswerIsSigned

-----------------------------------------------------------------------------
\* A start that fails, at whatever step, leaves no process, no job and no config.
LEMMA LaunchFailsKeeps ==
    ASSUME IInv, NEW c \in Callers, pc[c] \in Starting, mu \in {c, "free"}, LaunchFails(c),
           UNCHANGED <<platform, stopped, chan, awaits, lastRun, api, selected, crashes>>
    PROVE  IInv'
<1>0. arg[c] \in Runs
    BY DEF IInv, StartIsOwned
<1> DEFINE n == arg[c]
<1>a. /\ proc' \in [Runs -> {"none", "suspended", "running", "exited"}]
      /\ \A m \in Runs : m # n => proc'[m] = proc[m]
      /\ proc'[n] = IF proc[n] = "suspended" THEN "exited" ELSE proc[n]
    BY <1>0 DEF IInv, Shape, LaunchFails
<1>b. /\ job' \in [Runs -> {"none", "empty", "owns", "closed"}]
      /\ \A m \in Runs : m # n => job'[m] = job[m]
      /\ proc[n] = "none" /\ job[n] = "none" => job'[n] = "none"
    BY <1>0 DEF IInv, Shape, LaunchFails
<1>c. /\ pc' \in [Callers -> Starting \cup {"idle", "stopping"}]
      /\ arg' \in [Callers -> Runs \cup {NoRun}]
      /\ \A d \in Callers : d # c => pc'[d] = pc[d] /\ arg'[d] = arg[d]
      /\ pc'[c] = "idle" /\ arg'[c] = NoRun
    BY DEF IInv, Shape, LaunchFails, Return
<1>d. mu' = "free" /\ cfgs' = cfgs \ {n} /\ UNCHANGED <<cmd, doneOf, secret, watcher>>
    BY DEF LaunchFails, Abandoned
<1> HIDE DEF n
<1>1. Shape'
    BY <1>0, <1>a, <1>b, <1>c, <1>d DEF IInv, Shape
<1>2. Fresh'
    BY <1>a, <1>b, <1>d DEF IInv, Fresh
<1>3. StartIsOwned'
    BY <1>a, <1>b, <1>c, <1>d, RunnerAssumption DEF IInv, StartIsOwned, LaunchHasLock, Launching,
       Starting
<1>4. OneStarter'
    BY <1>c DEF IInv, OneStarter, Launching, Starting
<1>5. LaunchHasLock'
    BY <1>c, <1>d, RunnerAssumption DEF IInv, LaunchHasLock, Launching
<1>6. OneCurrent'
    BY <1>d DEF IInv, OneCurrent
<1>7. ExitIsPublished'
    BY <1>a, <1>d DEF IInv, ExitIsPublished
<1>8. StopIsAnswered'
    BY <1>c, <1>d DEF IInv, StopIsAnswered
<1>9. EngineHasOwner'
    BY <1>a, <1>c, <1>d DEF IInv, EngineHasOwner, StartIsOwned, LaunchFails
<1>10. ConfigHasOwner'
  <2> SUFFICES ASSUME crashes = 0, NEW m \in cfgs'
               PROVE  \/ \E d \in Callers : pc'[d] \in Starting /\ arg'[d] = m
                      \/ watcher'[m] = "wait"
    BY DEF ConfigHasOwner
  <2>1. m \in cfgs /\ m # n
    BY <1>d
  <2>2. CASE watcher[m] = "wait"
    BY <2>2, <1>d
  <2>3. CASE \E d \in Callers : pc[d] \in Starting /\ arg[d] = m
    <3>1. PICK d \in Callers : pc[d] \in Starting /\ arg[d] = m
      BY <2>3
    <3> QED
      BY <3>1, <2>1, <1>c DEF n
  <2> QED
    BY <2>1, <2>2, <2>3 DEF IInv, ConfigHasOwner
<1>11. AnswerIsSigned'
    BY DEF IInv, AnswerIsSigned
<1> QED
    BY <1>1, <1>2, <1>3, <1>4, <1>5, <1>6, <1>7, <1>8, <1>9, <1>10, <1>11 DEF IInv

\* A start that succeeds makes its run the current one.
LEMMA SpawnedKeeps ==
    ASSUME IInv, NEW c \in Callers, mu \in {c, "free"}, cmd = NoRun,
           (pc[c] = "lock" /\ platform # "windows" /\ mu = "free") \/ pc[c] = "Resume",
           Spawned(arg[c]), Return(c), mu' = "free", UNCHANGED <<cfgs, job>>,
           UNCHANGED <<platform, stopped, chan, awaits, lastRun, api, selected, crashes>>
    PROVE  IInv'
<1>0. arg[c] \in Runs /\ pc[c] \in Starting
    BY DEF IInv, StartIsOwned, Starting, Launching
<1> DEFINE n == arg[c]
<1>a. /\ proc' \in [Runs -> {"none", "suspended", "running", "exited"}]
      /\ \A m \in Runs : m # n => proc'[m] = proc[m]
      /\ proc'[n] = "running"
    BY <1>0 DEF IInv, Shape, Spawned
<1>b. /\ watcher' \in [Runs -> {"none", "wait", "reaped", "cleared", "published"}]
      /\ \A m \in Runs : m # n => watcher'[m] = watcher[m]
      /\ watcher'[n] = "wait"
    BY <1>0 DEF IInv, Shape, Spawned
<1>c. /\ pc' \in [Callers -> Starting \cup {"idle", "stopping"}]
      /\ arg' \in [Callers -> Runs \cup {NoRun}]
      /\ \A d \in Callers : d # c => pc'[d] = pc[d] /\ arg'[d] = arg[d]
      /\ pc'[c] = "idle" /\ arg'[c] = NoRun
    BY DEF IInv, Shape, Return
<1>d. cmd' = n /\ doneOf' = n /\ secret' = n
    BY DEF Spawned
<1> HIDE DEF n
<1>1. Shape'
    BY <1>0, <1>a, <1>b, <1>c, <1>d DEF IInv, Shape, n
<1>2. Fresh'
    BY <1>a, <1>b DEF IInv, Shape, Fresh, StartIsOwned, NoRun, n
<1>3. StartIsOwned'
    BY <1>a, <1>b, <1>c DEF IInv, StartIsOwned, OneStarter, Launching, Starting, n
<1>4. OneStarter'
    BY <1>c DEF IInv, OneStarter, Launching, Starting
<1>5. LaunchHasLock'
    BY <1>c, RunnerAssumption DEF IInv, LaunchHasLock, Launching
<1>6. OneCurrent'
    BY <1>b, <1>d DEF IInv, OneCurrent, NoRun, Runs
<1>7. ExitIsPublished'
    BY <1>0, <1>a, <1>b DEF IInv, ExitIsPublished, StartIsOwned, n
<1>8. StopIsAnswered'
    BY <1>b, <1>c DEF IInv, Shape, StopIsAnswered, StartIsOwned, n
<1>9. EngineHasOwner'
    BY <1>0, <1>a, <1>b, <1>c DEF IInv, EngineHasOwner, StartIsOwned, n
<1>10. ConfigHasOwner'
  <2> SUFFICES ASSUME crashes = 0, NEW m \in cfgs
               PROVE  \/ \E d \in Callers : pc'[d] \in Starting /\ arg'[d] = m
                      \/ watcher'[m] = "wait"
    BY DEF ConfigHasOwner
  <2>1. m \in Runs
    BY DEF IInv, Shape
  <2>2. CASE m = n \/ watcher[m] = "wait"
    BY <2>1, <2>2, <1>b
  <2>3. CASE m # n /\ \E d \in Callers : pc[d] \in Starting /\ arg[d] = m
    <3>1. PICK d \in Callers : pc[d] \in Starting /\ arg[d] = m
      BY <2>3
    <3> QED
      BY <3>1, <2>3, <1>c DEF n
  <2> QED
    BY <2>2, <2>3 DEF IInv, ConfigHasOwner
<1>11. AnswerIsSigned'
    BY DEF IInv, AnswerIsSigned
<1> QED
    BY <1>1, <1>2, <1>3, <1>4, <1>5, <1>6, <1>7, <1>8, <1>9, <1>10, <1>11 DEF IInv

\* The lifetime job is made, or the launch fails.
LEMMA PrepareKeeps ==
    ASSUME IInv, NEW c \in Callers, Prepare(c)
    PROVE  IInv'
<1> SUFFICES ASSUME ~LaunchFails(c) PROVE IInv'
    BY LaunchFailsKeeps DEF IInv, LaunchHasLock, Prepare, Starting, Launching
<1>0. /\ arg[c] \in Runs /\ mu = c /\ cmd = NoRun /\ platform = "windows"
      /\ pc[c] \in Starting /\ pc[c] \in Launching
    BY DEF IInv, StartIsOwned, LaunchHasLock, Prepare, Starting, Launching
<1> DEFINE n == arg[c]
<1>a. /\ job' \in [Runs -> {"none", "empty", "owns", "closed"}]
      /\ \A m \in Runs : m # n => job'[m] = job[m]
      /\ job'[n] = "empty" /\ proc' = proc
    BY <1>0 DEF IInv, Shape, Prepare
<1>b. /\ pc' \in [Callers -> Starting \cup {"idle", "stopping"}]
      /\ \A d \in Callers : d # c => pc'[d] = pc[d]
      /\ pc'[c] = "StartSuspended"
    BY DEF IInv, Shape, Prepare, Steps, Starting, Launching
<1>c. /\ pc[c] = "Prepare"
      /\ UNCHANGED <<mu, arg, cmd, doneOf, secret, watcher, cfgs>>
      /\ UNCHANGED <<platform, stopped, chan, awaits, lastRun, api, selected, crashes>>
    BY DEF Prepare, Steps
<1>d. job'[arg[c]] = "empty" /\ \A m \in Runs : m # arg[c] => job'[m] = job[m]
    BY <1>a
<1> HIDE DEF n
<1>1. Shape'
    BY <1>b, <1>c, <1>a DEF IInv, Shape
<1>2. Fresh'
    BY <1>0, <1>c, <1>d, <1>a DEF IInv, Shape, Fresh, StartIsOwned, NoRun
<1>3. StartIsOwned'
    BY <1>0, <1>b, <1>c, <1>d, <1>a DEF IInv, StartIsOwned, OneStarter, Starting, Runs
<1>4. OneStarter'
    BY <1>0, <1>b, <1>c DEF IInv, OneStarter
<1>5. LaunchHasLock'
    BY <1>b, <1>c DEF IInv, LaunchHasLock, Launching
<1>6. OneCurrent'
    BY <1>c DEF IInv, OneCurrent
<1>7. ExitIsPublished'
    BY <1>c, <1>a DEF IInv, ExitIsPublished
<1>8. StopIsAnswered'
    BY <1>b, <1>c DEF IInv, StopIsAnswered
<1>9. EngineHasOwner'
  <2> SUFFICES ASSUME NEW m \in Runs
               PROVE  /\ proc'[m] = "running" => watcher[m] = "wait" \/ ~(platform = "windows" \/ crashes = 0)
                      /\ proc'[m] = "running" /\ platform = "windows" => job'[m] = "owns"
                      /\ proc'[m] = "suspended" /\ crashes = 0 =>
                             \E d \in Callers : pc'[d] \in Launching /\ arg[d] = m
    BY <1>c DEF EngineHasOwner
  <2>1. pc'[c] \in Launching
    BY <1>b DEF Launching
  <2>2. CASE m = arg[c]
    BY <1>0, <1>a, <2>1, <2>2 DEF IInv, StartIsOwned
  <2>3. CASE m # arg[c]
    <3>1. proc'[m] = proc[m] /\ job'[m] = job[m]
      BY <1>a, <1>d, <2>3
    <3>2. ASSUME NEW d \in Callers, pc[d] \in Launching, arg[d] = m
          PROVE  pc'[d] \in Launching
      BY <1>b, <2>3, <3>2
    <3> QED
      BY <3>1, <3>2 DEF IInv, EngineHasOwner
  <2> QED
    BY <2>2, <2>3
<1>10. ConfigHasOwner'
  <2> SUFFICES ASSUME crashes = 0, NEW m \in cfgs
               PROVE  \/ \E d \in Callers : pc'[d] \in Starting /\ arg'[d] = m
                      \/ watcher'[m] = "wait"
    BY <1>c DEF ConfigHasOwner
  <2>1. CASE watcher[m] = "wait"
    BY <2>1, <1>c
  <2>2. CASE \E d \in Callers : pc[d] \in Starting /\ arg[d] = m
    <3>1. PICK d \in Callers : pc[d] \in Starting /\ arg[d] = m
      BY <2>2
    <3>2. pc'[d] \in Starting /\ arg'[d] = m
      BY <3>1, <1>b, <1>c DEF Starting, Launching
    <3> QED
      BY <3>2
  <2> QED
    BY <2>1, <2>2 DEF IInv, ConfigHasOwner
<1>11. AnswerIsSigned'
    BY <1>c DEF IInv, AnswerIsSigned
<1> QED
    BY <1>1, <1>2, <1>3, <1>4, <1>5, <1>6, <1>7, <1>8, <1>9, <1>10, <1>11 DEF IInv

\* The engine is created suspended, or the launch fails.
LEMMA StartSuspendedKeeps ==
    ASSUME IInv, NEW c \in Callers, StartSuspended(c)
    PROVE  IInv'
<1> SUFFICES ASSUME ~LaunchFails(c) PROVE IInv'
    BY LaunchFailsKeeps DEF IInv, LaunchHasLock, StartSuspended, Starting, Launching
<1>0. /\ arg[c] \in Runs /\ mu = c /\ cmd = NoRun /\ platform = "windows"
      /\ pc[c] \in Starting /\ pc[c] \in Launching
    BY DEF IInv, StartIsOwned, LaunchHasLock, StartSuspended, Starting, Launching
<1> DEFINE n == arg[c]
<1>a. /\ proc' \in [Runs -> {"none", "suspended", "running", "exited"}]
      /\ \A m \in Runs : m # n => proc'[m] = proc[m]
      /\ proc'[n] = "suspended" /\ job' = job
    BY <1>0 DEF IInv, Shape, StartSuspended
<1>b. /\ pc' \in [Callers -> Starting \cup {"idle", "stopping"}]
      /\ \A d \in Callers : d # c => pc'[d] = pc[d]
      /\ pc'[c] = "Assign"
    BY DEF IInv, Shape, StartSuspended, Steps, Starting, Launching
<1>c. /\ pc[c] = "StartSuspended"
      /\ UNCHANGED <<mu, arg, cmd, doneOf, secret, watcher, cfgs>>
      /\ UNCHANGED <<platform, stopped, chan, awaits, lastRun, api, selected, crashes>>
    BY DEF StartSuspended, Steps
<1>d. proc'[arg[c]] = "suspended" /\ \A m \in Runs : m # arg[c] => proc'[m] = proc[m]
    BY <1>a
<1> HIDE DEF n
<1>1. Shape'
    BY <1>b, <1>c, <1>a DEF IInv, Shape
<1>2. Fresh'
    BY <1>0, <1>c, <1>d, <1>a DEF IInv, Shape, Fresh, StartIsOwned, NoRun
<1>3. StartIsOwned'
    BY <1>0, <1>b, <1>c, <1>d, <1>a DEF IInv, StartIsOwned, OneStarter, Starting, Runs
<1>4. OneStarter'
    BY <1>0, <1>b, <1>c DEF IInv, OneStarter
<1>5. LaunchHasLock'
    BY <1>b, <1>c DEF IInv, LaunchHasLock, Launching
<1>6. OneCurrent'
    BY <1>c DEF IInv, OneCurrent
<1>7. ExitIsPublished'
    BY <1>0, <1>c, <1>d DEF IInv, ExitIsPublished, StartIsOwned
<1>8. StopIsAnswered'
    BY <1>b, <1>c DEF IInv, StopIsAnswered
<1>9. EngineHasOwner'
  <2> SUFFICES ASSUME NEW m \in Runs
               PROVE  /\ proc'[m] = "running" => watcher[m] = "wait" \/ ~(platform = "windows" \/ crashes = 0)
                      /\ proc'[m] = "running" /\ platform = "windows" => job'[m] = "owns"
                      /\ proc'[m] = "suspended" /\ crashes = 0 =>
                             \E d \in Callers : pc'[d] \in Launching /\ arg[d] = m
    BY <1>c DEF EngineHasOwner
  <2>1. pc'[c] \in Launching
    BY <1>b DEF Launching
  <2>2. CASE m = arg[c]
    BY <1>d, <2>1, <2>2
  <2>3. CASE m # arg[c]
    <3>1. proc'[m] = proc[m] /\ job'[m] = job[m]
      BY <1>a, <1>d, <2>3
    <3>2. ASSUME NEW d \in Callers, pc[d] \in Launching, arg[d] = m
          PROVE  pc'[d] \in Launching
      BY <1>b, <2>3, <3>2
    <3> QED
      BY <3>1, <3>2 DEF IInv, EngineHasOwner
  <2> QED
    BY <2>2, <2>3
<1>10. ConfigHasOwner'
  <2> SUFFICES ASSUME crashes = 0, NEW m \in cfgs
               PROVE  \/ \E d \in Callers : pc'[d] \in Starting /\ arg'[d] = m
                      \/ watcher'[m] = "wait"
    BY <1>c DEF ConfigHasOwner
  <2>1. CASE watcher[m] = "wait"
    BY <2>1, <1>c
  <2>2. CASE \E d \in Callers : pc[d] \in Starting /\ arg[d] = m
    <3>1. PICK d \in Callers : pc[d] \in Starting /\ arg[d] = m
      BY <2>2
    <3>2. pc'[d] \in Starting /\ arg'[d] = m
      BY <3>1, <1>b, <1>c DEF Starting, Launching
    <3> QED
      BY <3>2
  <2> QED
    BY <2>1, <2>2 DEF IInv, ConfigHasOwner
<1>11. AnswerIsSigned'
    BY <1>c DEF IInv, AnswerIsSigned
<1> QED
    BY <1>1, <1>2, <1>3, <1>4, <1>5, <1>6, <1>7, <1>8, <1>9, <1>10, <1>11 DEF IInv

\* The job takes the engine, or the launch fails.
LEMMA AssignKeeps ==
    ASSUME IInv, NEW c \in Callers, Assign(c)
    PROVE  IInv'
<1> SUFFICES ASSUME ~LaunchFails(c) PROVE IInv'
    BY LaunchFailsKeeps DEF IInv, LaunchHasLock, Assign, Starting, Launching
<1>0. /\ arg[c] \in Runs /\ mu = c /\ cmd = NoRun /\ platform = "windows"
      /\ pc[c] \in Starting /\ pc[c] \in Launching
    BY DEF IInv, StartIsOwned, LaunchHasLock, Assign, Starting, Launching
<1> DEFINE n == arg[c]
<1>a. /\ job' \in [Runs -> {"none", "empty", "owns", "closed"}]
      /\ \A m \in Runs : m # n => job'[m] = job[m]
      /\ job'[n] = "owns" /\ proc' = proc
    BY <1>0 DEF IInv, Shape, Assign
<1>b. /\ pc' \in [Callers -> Starting \cup {"idle", "stopping"}]
      /\ \A d \in Callers : d # c => pc'[d] = pc[d]
      /\ pc'[c] = "Resume"
    BY DEF IInv, Shape, Assign, Steps, Starting, Launching
<1>c. /\ pc[c] = "Assign"
      /\ UNCHANGED <<mu, arg, cmd, doneOf, secret, watcher, cfgs>>
      /\ UNCHANGED <<platform, stopped, chan, awaits, lastRun, api, selected, crashes>>
    BY DEF Assign, Steps
<1>d. job'[arg[c]] = "owns" /\ \A m \in Runs : m # arg[c] => job'[m] = job[m]
    BY <1>a
<1> HIDE DEF n
<1>1. Shape'
    BY <1>b, <1>c, <1>a DEF IInv, Shape
<1>2. Fresh'
    BY <1>0, <1>c, <1>d, <1>a DEF IInv, Fresh, StartIsOwned
<1>3. StartIsOwned'
    BY <1>0, <1>b, <1>c, <1>d, <1>a DEF IInv, StartIsOwned, Starting, Runs
<1>4. OneStarter'
    BY <1>0, <1>b, <1>c DEF IInv, OneStarter
<1>5. LaunchHasLock'
    BY <1>b, <1>c DEF IInv, LaunchHasLock, Launching
<1>6. OneCurrent'
    BY <1>c DEF IInv, OneCurrent
<1>7. ExitIsPublished'
    BY <1>c, <1>a DEF IInv, ExitIsPublished
<1>8. StopIsAnswered'
    BY <1>b, <1>c DEF IInv, StopIsAnswered
<1>9. EngineHasOwner'
  <2> SUFFICES ASSUME NEW m \in Runs
               PROVE  /\ proc'[m] = "running" => watcher[m] = "wait" \/ ~(platform = "windows" \/ crashes = 0)
                      /\ proc'[m] = "running" /\ platform = "windows" => job'[m] = "owns"
                      /\ proc'[m] = "suspended" /\ crashes = 0 =>
                             \E d \in Callers : pc'[d] \in Launching /\ arg[d] = m
    BY <1>c DEF EngineHasOwner
  <2>1. pc'[c] \in Launching
    BY <1>b DEF Launching
  <2>2. CASE m = arg[c]
    BY <1>0, <1>a, <2>1, <2>2 DEF IInv, StartIsOwned
  <2>3. CASE m # arg[c]
    <3>1. proc'[m] = proc[m] /\ job'[m] = job[m]
      BY <1>a, <1>d, <2>3
    <3>2. ASSUME NEW d \in Callers, pc[d] \in Launching, arg[d] = m
          PROVE  pc'[d] \in Launching
      BY <1>b, <2>3, <3>2
    <3> QED
      BY <3>1, <3>2 DEF IInv, EngineHasOwner
  <2> QED
    BY <2>2, <2>3
<1>10. ConfigHasOwner'
  <2> SUFFICES ASSUME crashes = 0, NEW m \in cfgs
               PROVE  \/ \E d \in Callers : pc'[d] \in Starting /\ arg'[d] = m
                      \/ watcher'[m] = "wait"
    BY <1>c DEF ConfigHasOwner
  <2>1. CASE watcher[m] = "wait"
    BY <2>1, <1>c
  <2>2. CASE \E d \in Callers : pc[d] \in Starting /\ arg[d] = m
    <3>1. PICK d \in Callers : pc[d] \in Starting /\ arg[d] = m
      BY <2>2
    <3>2. pc'[d] \in Starting /\ arg'[d] = m
      BY <3>1, <1>b, <1>c DEF Starting, Launching
    <3> QED
      BY <3>2
  <2> QED
    BY <2>1, <2>2 DEF IInv, ConfigHasOwner
<1>11. AnswerIsSigned'
    BY <1>c DEF IInv, AnswerIsSigned
<1> QED
    BY <1>1, <1>2, <1>3, <1>4, <1>5, <1>6, <1>7, <1>8, <1>9, <1>10, <1>11 DEF IInv

\* A new run begins with its config file and one caller, at the lock.
LEMMA writeConfigKeeps ==
    ASSUME IInv, NEW c \in Callers, writeConfig(c)
    PROVE  IInv'
<1>1. Shape'
    BY RunnerAssumption DEF IInv, Shape, writeConfig, Starting, Runs
<1>2. Fresh'
    BY DEF IInv, Shape, Fresh, writeConfig, Runs
<1>3. StartIsOwned'
    BY RunnerAssumption DEF IInv, Shape, Fresh, StartIsOwned, writeConfig, Runs
<1>4. OneStarter'
    BY DEF IInv, Shape, OneStarter, StartIsOwned, writeConfig
<1>5. LaunchHasLock'
    BY DEF IInv, LaunchHasLock, writeConfig, Launching
<1>6. OneCurrent'
    BY DEF IInv, OneCurrent, writeConfig
<1>7. ExitIsPublished'
    BY DEF IInv, Shape, ExitIsPublished, writeConfig, Runs
<1>8. StopIsAnswered'
    BY DEF IInv, StopIsAnswered, writeConfig
<1>9. EngineHasOwner'
  <2>1. \A d \in Callers : pc[d] \in Launching => pc'[d] \in Launching /\ arg'[d] = arg[d]
    BY DEF IInv, Shape, writeConfig, Launching
  <2> QED
    BY <2>1 DEF IInv, EngineHasOwner, writeConfig
<1>10. ConfigHasOwner'
  <2>1. /\ \A d \in Callers : pc[d] \in Starting => pc'[d] \in Starting /\ arg'[d] = arg[d]
        /\ pc'[c] \in Starting /\ arg'[c] = lastRun + 1
    BY DEF IInv, Shape, writeConfig, Starting, Launching
  <2> QED
    BY <2>1 DEF IInv, ConfigHasOwner, writeConfig
<1>11. AnswerIsSigned'
    BY DEF IInv, AnswerIsSigned, writeConfig
<1> QED
    BY <1>1, <1>2, <1>3, <1>4, <1>5, <1>6, <1>7, <1>8, <1>9, <1>10, <1>11 DEF IInv

\* On Linux and macOS the run is spawned and current, or its config is removed.
LEMMA StartUnixKeeps ==
    ASSUME IInv, NEW c \in Callers, StartUnix(c)
    PROVE  IInv'
<1>1. /\ arg[c] \in Runs /\ pc[c] \in Starting
      /\ proc[arg[c]] = "none" /\ job[arg[c]] = "none"
    BY DEF IInv, StartIsOwned, StartUnix, Starting
<1>2. /\ pc[c] = "lock" /\ platform # "windows" /\ mu = "free" /\ mu' = "free"
      /\ Return(c) /\ job' = job
      /\ UNCHANGED <<platform, stopped, chan, awaits, lastRun, api, selected, crashes>>
    BY DEF StartUnix
<1>3. CASE cmd = NoRun /\ Spawned(arg[c]) /\ UNCHANGED cfgs
    BY <1>1, <1>2, <1>3, SpawnedKeeps
<1>4. CASE Abandoned(arg[c]) /\ UNCHANGED proc
  <2>1. LaunchFails(c)
    BY <1>1, <1>2, <1>4 DEF LaunchFails, IInv, Shape
  <2> QED
    BY <1>1, <1>2, <2>1, LaunchFailsKeeps
<1> QED
    BY <1>3, <1>4 DEF StartUnix

\* On Windows the launch begins with the lock, or is refused and its config removed.
LEMMA StartWindowsKeeps ==
    ASSUME IInv, NEW c \in Callers, StartWindows(c)
    PROVE  IInv'
<1>1. /\ arg[c] \in Runs /\ pc[c] \in Starting
      /\ proc[arg[c]] = "none" /\ job[arg[c]] = "none"
    BY DEF IInv, StartIsOwned, StartWindows, Starting
<1>2. /\ pc[c] = "lock" /\ platform = "windows" /\ mu = "free" /\ proc' = proc /\ job' = job
      /\ UNCHANGED <<platform, stopped, chan, awaits, lastRun, api, selected, crashes>>
    BY DEF StartWindows
<1>3. CASE Abandoned(arg[c]) /\ Return(c) /\ UNCHANGED mu
  <2>1. LaunchFails(c)
    BY <1>1, <1>2, <1>3 DEF LaunchFails, IInv, Shape
  <2> QED
    BY <1>1, <1>2, <2>1, LaunchFailsKeeps
<1>4. CASE /\ cmd = NoRun /\ mu' = c /\ pc' = [pc EXCEPT ![c] = "Prepare"]
           /\ UNCHANGED <<cmd, doneOf, secret, watcher, cfgs, arg>>
  <2>0. /\ \A d \in Callers : d # c => pc'[d] = pc[d] /\ d # mu /\ pc[d] \notin Launching
        /\ pc'[c] = "Prepare" /\ pc[c] \notin Launching
        /\ pc' \in [Callers -> Starting \cup {"idle", "stopping"}]
    BY <1>2, <1>4, RunnerAssumption DEF IInv, Shape, LaunchHasLock, Launching, Starting

  <2>1. Shape'
    BY <1>2, <1>4, <2>0 DEF IInv, Shape
  <2>2. Fresh'
    BY <1>2, <1>4 DEF IInv, Fresh
  <2>3. StartIsOwned'
    BY <1>1, <1>2, <1>4 DEF IInv, StartIsOwned
  <2>4. OneStarter'
    BY <1>1, <1>4 DEF IInv, OneStarter
  <2>5. LaunchHasLock'
    BY <1>2, <1>4, <2>0 DEF LaunchHasLock, Launching
  <2>6. OneCurrent'
    BY <1>4 DEF IInv, OneCurrent
  <2>7. ExitIsPublished'
    BY <1>2, <1>4 DEF IInv, ExitIsPublished
  <2>8. StopIsAnswered'
    BY <1>2, <1>4 DEF IInv, StopIsAnswered
  <2>9. EngineHasOwner'
    BY <1>2, <1>4, <2>0 DEF IInv, EngineHasOwner
  <2>10. ConfigHasOwner'
    BY <1>2, <1>4, <2>0 DEF IInv, ConfigHasOwner
  <2>11. AnswerIsSigned'
    BY <1>2 DEF IInv, AnswerIsSigned
  <2> QED
    BY <2>1, <2>2, <2>3, <2>4, <2>5, <2>6, <2>7, <2>8, <2>9, <2>10, <2>11 DEF IInv
<1> QED
    BY <1>3, <1>4 DEF StartWindows

\* The engine is resumed and its run published, or the launch fails.
LEMMA ResumeKeeps ==
    ASSUME IInv, NEW c \in Callers, Resume(c)
    PROVE  IInv'
<1>1. /\ pc[c] = "Resume" /\ pc[c] \in Starting /\ mu = c /\ cmd = NoRun
      /\ UNCHANGED <<platform, stopped, chan, awaits, lastRun, api, selected, crashes>>
    BY DEF IInv, LaunchHasLock, Resume, Starting, Launching
<1>2. CASE LaunchFails(c)
    BY <1>1, <1>2, LaunchFailsKeeps
<1>3. CASE Spawned(arg[c]) /\ Return(c) /\ mu' = "free" /\ UNCHANGED <<job, cfgs>>
    BY <1>1, <1>3, SpawnedKeeps
<1> QED
    BY <1>2, <1>3 DEF Resume

\* Stop waits on the channel of the run it cancels.
LEMMA StopKeeps ==
    ASSUME IInv, NEW c \in Callers, Stop(c)
    PROVE  IInv'
<1>1. Shape'
  <2>1. /\ arg' \in [Callers -> Runs \cup {NoRun}]
        /\ pc' \in [Callers -> Starting \cup {"idle", "stopping"}]
        /\ stopped' \in [Callers -> Runs \cup {NoRun}]
    BY DEF IInv, Shape, Stop, NoRun
  <2> QED
    BY <2>1 DEF IInv, Shape, Stop
<1>2. Fresh'
    BY DEF IInv, Fresh, Stop
<1>3. StartIsOwned'
    BY DEF IInv, Shape, StartIsOwned, Stop, Launching, Starting
<1>4. OneStarter'
    BY DEF IInv, Shape, OneStarter, Stop, Launching, Starting
<1>5. LaunchHasLock'
    BY DEF IInv, Shape, LaunchHasLock, Stop, Launching
<1>6. OneCurrent'
    BY DEF IInv, OneCurrent, Stop
<1>7. ExitIsPublished'
    BY DEF IInv, ExitIsPublished, Stop
<1>8. StopIsAnswered'
    BY DEF IInv, Shape, StopIsAnswered, OneCurrent, Stop
<1>9. EngineHasOwner'
    BY DEF IInv, EngineHasOwner, LaunchHasLock, Stop
<1>10. ConfigHasOwner'
    BY DEF IInv, Shape, ConfigHasOwner, Stop, Launching, Starting
<1>11. AnswerIsSigned'
    BY DEF IInv, AnswerIsSigned, Stop
<1> QED
    BY <1>1, <1>2, <1>3, <1>4, <1>5, <1>6, <1>7, <1>8, <1>9, <1>10, <1>11 DEF IInv

\* Stop returns with the exit of its run published.
LEMMA StopReturnsKeeps ==
    ASSUME IInv, NEW c \in Callers, StopReturns(c)
    PROVE  IInv'
<1>0. arg[c] \in Runs
    BY DEF IInv, StopIsAnswered, StopReturns
<1>1. Shape'
  <2>1. /\ arg' \in [Callers -> Runs \cup {NoRun}]
        /\ pc' \in [Callers -> Starting \cup {"idle", "stopping"}]
        /\ stopped' \in [Callers -> Runs \cup {NoRun}]
        /\ chan' \in [Runs -> {"open", "full", "drained"}]
    BY <1>0 DEF IInv, Shape, StopReturns, Received, Return
  <2> QED
    BY <2>1 DEF IInv, Shape, StopReturns
<1>2. Fresh'
    BY DEF IInv, Fresh, StopReturns, Received
<1>3. StartIsOwned'
    BY DEF IInv, StartIsOwned, StopReturns, Received, Return, Launching, Starting
<1>4. OneStarter'
    BY DEF IInv, OneStarter, StopReturns, Return, Launching, Starting
<1>5. LaunchHasLock'
    BY DEF IInv, LaunchHasLock, StopReturns, Return, Launching
<1>6. OneCurrent'
    BY DEF IInv, OneCurrent, StopReturns
<1>7. ExitIsPublished'
    BY DEF IInv, ExitIsPublished, StopReturns, Received
<1>8. StopIsAnswered'
    BY DEF IInv, Shape, StopIsAnswered, ExitIsPublished, StopReturns, Received, Return
<1>9. EngineHasOwner'
    BY DEF IInv, EngineHasOwner, StopReturns, Return, Launching
<1>10. ConfigHasOwner'
    BY DEF IInv, ConfigHasOwner, StartIsOwned, StopReturns, Received, Return
<1>11. AnswerIsSigned'
    BY DEF IInv, AnswerIsSigned, StopReturns
<1> QED
    BY <1>1, <1>2, <1>3, <1>4, <1>5, <1>6, <1>7, <1>8, <1>9, <1>10, <1>11 DEF IInv

\* The daemon's watcher waits for the exit of the last run.
LEMMA DoneKeeps ==
    ASSUME IInv, Done
    PROVE  IInv'
<1>1. Shape'
    BY RunnerAssumption DEF IInv, Shape, Done, Launching, Starting, NoRun, Runs
<1>2. Fresh'
    BY DEF IInv, Fresh, Done
<1>3. StartIsOwned'
    BY DEF IInv, StartIsOwned, Done
<1>4. OneStarter'
    BY DEF IInv, OneStarter, Done
<1>5. LaunchHasLock'
    BY DEF IInv, LaunchHasLock, Done
<1>6. OneCurrent'
    BY DEF IInv, OneCurrent, Done
<1>7. ExitIsPublished'
    BY DEF IInv, ExitIsPublished, Done
<1>8. StopIsAnswered'
    BY DEF IInv, StopIsAnswered, Done
<1>9. EngineHasOwner'
    BY DEF IInv, EngineHasOwner, Done
<1>10. ConfigHasOwner'
    BY DEF IInv, ConfigHasOwner, Done
<1>11. AnswerIsSigned'
    BY DEF IInv, AnswerIsSigned, Done
<1> QED
    BY <1>1, <1>2, <1>3, <1>4, <1>5, <1>6, <1>7, <1>8, <1>9, <1>10, <1>11 DEF IInv

\* The daemon's watcher receives an exit.
LEMMA ExitSeenKeeps ==
    ASSUME IInv, ExitSeen
    PROVE  IInv'
<1>1. Shape'
    BY DEF IInv, Shape, ExitSeen, Received
<1>2. Fresh'
    BY DEF IInv, Fresh, ExitSeen, Received
<1>3. StartIsOwned'
    BY DEF IInv, StartIsOwned, ExitSeen, Received
<1>4. OneStarter'
    BY DEF IInv, OneStarter, ExitSeen
<1>5. LaunchHasLock'
    BY DEF IInv, LaunchHasLock, ExitSeen
<1>6. OneCurrent'
    BY DEF IInv, OneCurrent, ExitSeen
<1>7. ExitIsPublished'
    BY DEF IInv, ExitIsPublished, ExitSeen, Received
<1>8. StopIsAnswered'
    BY DEF IInv, StopIsAnswered, ExitSeen
<1>9. EngineHasOwner'
    BY DEF IInv, EngineHasOwner, ExitSeen
<1>10. ConfigHasOwner'
    BY DEF IInv, ConfigHasOwner, ExitSeen
<1>11. AnswerIsSigned'
    BY DEF IInv, AnswerIsSigned, ExitSeen
<1> QED
    BY <1>1, <1>2, <1>3, <1>4, <1>5, <1>6, <1>7, <1>8, <1>9, <1>10, <1>11 DEF IInv

\* Reaping removes the config of a process that is gone.
LEMMA ReapKeeps ==
    ASSUME IInv, NEW n \in Runs, Reap(n)
    PROVE  IInv'
<1>1. Shape'
    BY RunnerAssumption DEF IInv, Shape, Reap, Launching, Starting, NoRun, Runs
<1>2. Fresh'
    BY DEF IInv, Fresh, Reap
<1>3. StartIsOwned'
    BY DEF IInv, StartIsOwned, Reap
<1>4. OneStarter'
    BY DEF IInv, OneStarter, Reap
<1>5. LaunchHasLock'
    BY DEF IInv, LaunchHasLock, Reap
<1>6. OneCurrent'
    BY DEF IInv, OneCurrent, Reap
<1>7. ExitIsPublished'
    BY DEF IInv, ExitIsPublished, Reap
<1>8. StopIsAnswered'
    BY DEF IInv, StopIsAnswered, Reap
<1>9. EngineHasOwner'
    BY DEF IInv, EngineHasOwner, Reap
<1>10. ConfigHasOwner'
    BY DEF IInv, ConfigHasOwner, Reap
<1>11. AnswerIsSigned'
    BY DEF IInv, AnswerIsSigned, Reap
<1> QED
    BY <1>1, <1>2, <1>3, <1>4, <1>5, <1>6, <1>7, <1>8, <1>9, <1>10, <1>11 DEF IInv

\* Clearing frees the runner of the reaped run.
LEMMA ClearKeeps ==
    ASSUME IInv, NEW n \in Runs, Clear(n)
    PROVE  IInv'
<1>1. Shape'
    BY RunnerAssumption DEF IInv, Shape, Clear, Launching, Starting, NoRun, Runs
<1>2. Fresh'
    BY DEF IInv, Fresh, Clear
<1>3. StartIsOwned'
    BY DEF IInv, StartIsOwned, OneCurrent, Clear
<1>4. OneStarter'
    BY DEF IInv, OneStarter, Clear
<1>5. LaunchHasLock'
    BY DEF IInv, LaunchHasLock, Clear
<1>6. OneCurrent'
    BY DEF IInv, Shape, OneCurrent, Clear
<1>7. ExitIsPublished'
  <2>1. watcher'[n] = "cleared" /\ \A m \in Runs : m # n => watcher'[m] = watcher[m]
    BY DEF IInv, Shape, Clear
  <2>2. chan[n] = "open" /\ n <= lastRun /\ proc[n] = "exited" /\ n \notin cfgs
    BY DEF IInv, Shape, ExitIsPublished, Clear
  <2>3. UNCHANGED <<chan, proc, cfgs, lastRun>>
    BY DEF Clear
  <2> QED
    BY <2>1, <2>2, <2>3 DEF IInv, ExitIsPublished
<1>8. StopIsAnswered'
    BY DEF IInv, StopIsAnswered, Clear
<1>9. EngineHasOwner'
    BY DEF IInv, EngineHasOwner, Clear
<1>10. ConfigHasOwner'
    BY DEF IInv, ConfigHasOwner, Clear
<1>11. AnswerIsSigned'
    BY DEF IInv, AnswerIsSigned, Clear
<1> QED
    BY <1>1, <1>2, <1>3, <1>4, <1>5, <1>6, <1>7, <1>8, <1>9, <1>10, <1>11 DEF IInv

\* The exit of a cleared run is published.
LEMMA PublishKeeps ==
    ASSUME IInv, NEW n \in Runs, Publish(n)
    PROVE  IInv'
<1>1. Shape'
    BY DEF IInv, Shape, Publish
<1>2. Fresh'
    BY DEF IInv, Fresh, Publish
<1>3. StartIsOwned'
    BY DEF IInv, StartIsOwned, Publish
<1>4. OneStarter'
    BY DEF IInv, OneStarter, Publish
<1>5. LaunchHasLock'
    BY DEF IInv, LaunchHasLock, Publish
<1>6. OneCurrent'
    BY DEF IInv, OneCurrent, Publish
<1>7. ExitIsPublished'
    BY DEF IInv, Shape, ExitIsPublished, Publish
<1>8. StopIsAnswered'
    BY DEF IInv, StopIsAnswered, Publish
<1>9. EngineHasOwner'
    BY DEF IInv, EngineHasOwner, Publish
<1>10. ConfigHasOwner'
    BY DEF IInv, ConfigHasOwner, Publish
<1>11. AnswerIsSigned'
    BY DEF IInv, AnswerIsSigned, Publish
<1> QED
    BY <1>1, <1>2, <1>3, <1>4, <1>5, <1>6, <1>7, <1>8, <1>9, <1>10, <1>11 DEF IInv

\* An engine that exits stays watched.
LEMMA EngineExitsKeeps ==
    ASSUME IInv, NEW n \in Runs, EngineExits(n)
    PROVE  IInv'
<1>1. Shape'
    BY DEF IInv, Shape, EngineExits, own
<1>2. Fresh'
    BY DEF IInv, Fresh, EngineExits, own
<1>3. StartIsOwned'
    BY DEF IInv, StartIsOwned, EngineExits, own
<1>4. OneStarter'
    BY DEF IInv, OneStarter, EngineExits, own
<1>5. LaunchHasLock'
    BY DEF IInv, LaunchHasLock, EngineExits, own
<1>6. OneCurrent'
    BY DEF IInv, OneCurrent, EngineExits, own
<1>7. ExitIsPublished'
    BY DEF IInv, ExitIsPublished, EngineExits, own
<1>8. StopIsAnswered'
    BY DEF IInv, StopIsAnswered, EngineExits, own
<1>9. EngineHasOwner'
    BY DEF IInv, EngineHasOwner, EngineExits, own
<1>10. ConfigHasOwner'
    BY DEF IInv, ConfigHasOwner, EngineExits, own
<1>11. AnswerIsSigned'
    BY DEF IInv, AnswerIsSigned, EngineExits
<1> QED
    BY <1>1, <1>2, <1>3, <1>4, <1>5, <1>6, <1>7, <1>8, <1>9, <1>10, <1>11 DEF IInv

\* Only the engine whose secret was sent answers 200.
LEMMA ApiAnswersKeeps ==
    ASSUME IInv, NEW n \in Runs, ApiAnswers(n)
    PROVE  IInv'
<1>1. UNCHANGED <<platform, own, lastRun, cfgs, proc, job, crashes>>
    BY DEF ApiAnswers
<1>2. Shape'
  <2>1. /\ api' \in [auth : Runs \cup {NoRun}, by : Runs \cup {NoRun},
                    status : {"none", "sent", "200", "4xx"}, result : {"none", "ok", "error"}]
        /\ selected' \subseteq Runs
    BY ZenonT(30) DEF IInv, Shape, ApiAnswers, NoCall, NoRun
  <2> QED
    BY <1>1, <2>1 DEF IInv, Shape, own
<1>3. AnswerIsSigned'
  <2>0. api.status = "sent" /\ api.result = "none"
    BY DEF IInv, AnswerIsSigned, ApiAnswers
  <2>1. CASE api.auth = n /\ api' = [api EXCEPT !.status = "200", !.by = n] /\ selected' = selected \cup {n}
    <3>1. api'.auth = n /\ api'.by = n /\ api'.result = "none"
      BY <2>0, <2>1 DEF IInv, Shape
    <3> QED
      BY <2>1, <3>1 DEF AnswerIsSigned
  <2>2. CASE api' = [api EXCEPT !.status = "4xx", !.by = n] /\ UNCHANGED selected
    <3>1. api'.status = "4xx" /\ api'.result = "none"
      BY <2>0, <2>2 DEF IInv, Shape
    <3> QED
      BY <3>1 DEF AnswerIsSigned
  <2> QED
    BY <2>1, <2>2 DEF ApiAnswers
<1>4. (Fresh /\ StartIsOwned /\ OneStarter /\ LaunchHasLock /\ OneCurrent)'
    BY <1>1 DEF IInv, Fresh, StartIsOwned, OneStarter, LaunchHasLock, OneCurrent, own
<1>5. (ExitIsPublished /\ StopIsAnswered /\ EngineHasOwner /\ ConfigHasOwner)'
    BY <1>1 DEF IInv, ExitIsPublished, StopIsAnswered, EngineHasOwner, ConfigHasOwner, own
<1> QED
    BY <1>2, <1>3, <1>4, <1>5 DEF IInv

\* A call that is sent has no answer yet.
LEMMA clashAuthKeeps ==
    ASSUME IInv, clashAuth
    PROVE  IInv'
<1>1. UNCHANGED <<platform, own, lastRun, cfgs, proc, job, crashes>>
    BY DEF clashAuth
<1>2. Shape'
  <2>1. /\ api' \in [auth : Runs \cup {NoRun}, by : Runs \cup {NoRun},
                    status : {"none", "sent", "200", "4xx"}, result : {"none", "ok", "error"}]
        /\ selected' \subseteq Runs
    BY DEF IInv, Shape, clashAuth, NoCall, NoRun
  <2> QED
    BY <1>1, <2>1 DEF IInv, Shape, own
<1>3. AnswerIsSigned'
    BY DEF IInv, Shape, AnswerIsSigned, clashAuth, NoCall
<1>4. (Fresh /\ StartIsOwned /\ OneStarter /\ LaunchHasLock /\ OneCurrent)'
    BY <1>1 DEF IInv, Fresh, StartIsOwned, OneStarter, LaunchHasLock, OneCurrent, own
<1>5. (ExitIsPublished /\ StopIsAnswered /\ EngineHasOwner /\ ConfigHasOwner)'
    BY <1>1 DEF IInv, ExitIsPublished, StopIsAnswered, EngineHasOwner, ConfigHasOwner, own
<1> QED
    BY <1>2, <1>3, <1>4, <1>5 DEF IInv

\* A call reports success for a 200 only.
LEMMA ApiReturnsKeeps ==
    ASSUME IInv, ApiReturns
    PROVE  IInv'
<1>1. UNCHANGED <<platform, own, lastRun, cfgs, proc, job, crashes>>
    BY DEF ApiReturns
<1>2. Shape'
  <2>1. /\ api' \in [auth : Runs \cup {NoRun}, by : Runs \cup {NoRun},
                    status : {"none", "sent", "200", "4xx"}, result : {"none", "ok", "error"}]
        /\ selected' \subseteq Runs
    BY DEF IInv, Shape, ApiReturns, NoCall, NoRun
  <2> QED
    BY <1>1, <2>1 DEF IInv, Shape, own
<1>3. AnswerIsSigned'
    BY DEF IInv, Shape, AnswerIsSigned, ApiReturns, Accepts
<1>4. (Fresh /\ StartIsOwned /\ OneStarter /\ LaunchHasLock /\ OneCurrent)'
    BY <1>1 DEF IInv, Fresh, StartIsOwned, OneStarter, LaunchHasLock, OneCurrent, own
<1>5. (ExitIsPublished /\ StopIsAnswered /\ EngineHasOwner /\ ConfigHasOwner)'
    BY <1>1 DEF IInv, ExitIsPublished, StopIsAnswered, EngineHasOwner, ConfigHasOwner, own
<1> QED
    BY <1>2, <1>3, <1>4, <1>5 DEF IInv

\* A call that failed reports no success.
LEMMA ApiFailsKeeps ==
    ASSUME IInv, ApiFails
    PROVE  IInv'
<1>1. UNCHANGED <<platform, own, lastRun, cfgs, proc, job, crashes>>
    BY DEF ApiFails
<1>2. Shape'
  <2>1. /\ api' \in [auth : Runs \cup {NoRun}, by : Runs \cup {NoRun},
                    status : {"none", "sent", "200", "4xx"}, result : {"none", "ok", "error"}]
        /\ selected' \subseteq Runs
    BY DEF IInv, Shape, ApiFails, NoCall, NoRun
  <2> QED
    BY <1>1, <2>1 DEF IInv, Shape, own
<1>3. AnswerIsSigned'
    BY DEF IInv, Shape, AnswerIsSigned, ApiFails, NoCall
<1>4. (Fresh /\ StartIsOwned /\ OneStarter /\ LaunchHasLock /\ OneCurrent)'
    BY <1>1 DEF IInv, Fresh, StartIsOwned, OneStarter, LaunchHasLock, OneCurrent, own
<1>5. (ExitIsPublished /\ StopIsAnswered /\ EngineHasOwner /\ ConfigHasOwner)'
    BY <1>1 DEF IInv, ExitIsPublished, StopIsAnswered, EngineHasOwner, ConfigHasOwner, own
<1> QED
    BY <1>2, <1>3, <1>4, <1>5 DEF IInv

\* After a death of the core nothing is current, and on Windows nothing runs.
LEMMA CoreDiesKeeps ==
    ASSUME IInv, CoreDies
    PROVE  IInv'
<1>1. Shape'
  <2>1. api' \in [auth : Runs \cup {NoRun}, by : Runs \cup {NoRun},
                  status : {"none", "sent", "200", "4xx"}, result : {"none", "ok", "error"}]
    BY DEF CoreDies, NoCall, NoRun
  <2>2. /\ pc' \in [Callers -> Starting \cup {"idle", "stopping"}]
        /\ arg' \in [Callers -> Runs \cup {NoRun}] /\ stopped' \in [Callers -> Runs \cup {NoRun}]
        /\ watcher' \in [Runs -> {"none", "wait", "reaped", "cleared", "published"}]
    BY DEF CoreDies, NoRun
  <2>3. /\ proc' \in [Runs -> {"none", "suspended", "running", "exited"}]
        /\ job' \in [Runs -> {"none", "empty", "owns", "closed"}]
    BY DEF IInv, Shape, CoreDies
  <2> QED
    BY <2>1, <2>2, <2>3 DEF IInv, Shape, CoreDies, NoRun
<1>2. Fresh'
    BY DEF IInv, Fresh, CoreDies
<1>3. StartIsOwned'
    BY DEF StartIsOwned, CoreDies, Launching, Starting
<1>4. OneStarter'
    BY DEF OneStarter, CoreDies, Launching, Starting
<1>5. LaunchHasLock'
    BY RunnerAssumption DEF LaunchHasLock, CoreDies, Launching
<1>6. OneCurrent'
    BY DEF OneCurrent, CoreDies
<1>7. ExitIsPublished'
    BY DEF ExitIsPublished, CoreDies
<1>8. StopIsAnswered'
    BY DEF StopIsAnswered, CoreDies
<1>9. EngineHasOwner'
    BY DEF IInv, Shape, EngineHasOwner, CoreDies
<1>10. ConfigHasOwner'
    BY DEF IInv, Shape, ConfigHasOwner, CoreDies
<1>11. AnswerIsSigned'
    BY DEF AnswerIsSigned, CoreDies, NoCall
<1> QED
    BY <1>1, <1>2, <1>3, <1>4, <1>5, <1>6, <1>7, <1>8, <1>9, <1>10, <1>11 DEF IInv

\* Output of the engine changes nothing the invariant reads.
LEMMA EngineWritesKeeps ==
    ASSUME IInv, NEW n \in Runs, EngineWrites(n)
    PROVE  IInv'
<1>1. UNCHANGED <<platform, own, lastRun, cfgs, proc, job, api, selected, crashes>>
    BY DEF EngineWrites
<1>2. (Shape /\ AnswerIsSigned)'
    BY <1>1 DEF IInv, Shape, AnswerIsSigned, own
<1>3. (Fresh /\ StartIsOwned /\ OneStarter /\ LaunchHasLock /\ OneCurrent)'
    BY <1>1 DEF IInv, Fresh, StartIsOwned, OneStarter, LaunchHasLock, OneCurrent, own
<1>4. (ExitIsPublished /\ StopIsAnswered /\ EngineHasOwner /\ ConfigHasOwner)'
    BY <1>1 DEF IInv, ExitIsPublished, StopIsAnswered, EngineHasOwner, ConfigHasOwner, own
<1> QED
    BY <1>2, <1>3, <1>4 DEF IInv

\* Nothing runs and nothing is on disk before the first start.
LEMMA InitIInv ==
    ASSUME Init
    PROVE  IInv
<1>1. Shape
  <2>1. api \in [auth : Runs \cup {NoRun}, by : Runs \cup {NoRun},
                 status : {"none", "sent", "200", "4xx"}, result : {"none", "ok", "error"}]
    BY DEF Init, NoCall, NoRun
  <2> QED
    BY <2>1, RunnerAssumption DEF Init, Shape, NoRun
<1>2. AnswerIsSigned
    BY DEF Init, AnswerIsSigned, NoCall
<1>3. Fresh /\ StartIsOwned /\ OneStarter /\ OneCurrent
    BY DEF Init, Fresh, StartIsOwned, OneStarter, OneCurrent, Starting, Launching
<1>4. LaunchHasLock
    BY RunnerAssumption DEF Init, LaunchHasLock, Launching
<1>5. ExitIsPublished /\ StopIsAnswered /\ EngineHasOwner /\ ConfigHasOwner
    BY DEF Init, ExitIsPublished, StopIsAnswered, EngineHasOwner, ConfigHasOwner
<1> QED
    BY <1>1, <1>2, <1>3, <1>4, <1>5 DEF IInv

\* Every step of the runner, its engines and its core keeps the invariant.
LEMMA NextIInv ==
    ASSUME IInv, [Next]_vars
    PROVE  IInv'
<1>1. CASE UNCHANGED vars
  <2>1. (Shape /\ AnswerIsSigned)'
    BY <1>1 DEF IInv, Shape, AnswerIsSigned, vars, own
  <2>2. (Fresh /\ StartIsOwned /\ OneStarter /\ LaunchHasLock /\ OneCurrent)'
    BY <1>1 DEF IInv, Fresh, StartIsOwned, OneStarter, LaunchHasLock, OneCurrent, vars, own
  <2>3. (ExitIsPublished /\ StopIsAnswered /\ EngineHasOwner /\ ConfigHasOwner)'
    BY <1>1 DEF IInv, ExitIsPublished, StopIsAnswered, EngineHasOwner, ConfigHasOwner, vars, own
  <2> QED
    BY <2>1, <2>2, <2>3 DEF IInv
<1>2. ASSUME NEW c \in Callers,
             \/ writeConfig(c) \/ StartUnix(c) \/ StartWindows(c)
             \/ Prepare(c) \/ StartSuspended(c) \/ Assign(c) \/ Resume(c)
             \/ Stop(c) \/ StopReturns(c)
      PROVE  IInv'
    BY <1>2, writeConfigKeeps, StartUnixKeeps, StartWindowsKeeps, PrepareKeeps, StartSuspendedKeeps,
       AssignKeeps, ResumeKeeps, StopKeeps, StopReturnsKeeps
<1>3. ASSUME NEW n \in Runs,
             \/ Reap(n) \/ Clear(n) \/ Publish(n)
             \/ EngineWrites(n) \/ EngineExits(n) \/ ApiAnswers(n)
      PROVE  IInv'
    BY <1>3, ReapKeeps, ClearKeeps, PublishKeeps, EngineWritesKeeps, EngineExitsKeeps,
       ApiAnswersKeeps
<1>4. CASE Done \/ ExitSeen \/ clashAuth \/ ApiReturns \/ ApiFails \/ CoreDies
    BY <1>4, DoneKeeps, ExitSeenKeeps, clashAuthKeeps, ApiReturnsKeeps, ApiFailsKeeps, CoreDiesKeeps
<1> QED
    BY <1>1, <1>2, <1>3, <1>4 DEF Next

\* A set without two different members has at most one.
LEMMA AtMostOne ==
    ASSUME NEW S, \A x, y \in S : x = y
    PROVE  Cardinality(S) <= 1
<1>1. CASE S = {}
    BY <1>1, FS_EmptySet
<1>2. CASE S # {}
  <2>1. PICK x \in S : TRUE
    BY <1>2
  <2>2. S = {x}
    BY <2>1
  <2> QED
    BY <2>2, FS_Singleton
<1> QED
    BY <1>1, <1>2

\* What the invariant says of an engine that lives: it is the current run, or
\* it is suspended in the launch of the caller that holds the lock.
LEMMA OwnedIsOne ==
    ASSUME IInv
    PROVE  OneEngine
<1> DEFINE alive == IF crashes = 0 THEN {"suspended", "running"} ELSE {"running"}
           live == {n \in Runs : proc[n] \in alive}
<1> SUFFICES ASSUME platform = "windows" \/ crashes = 0
             PROVE  Cardinality(live) <= 1
    BY DEF OneEngine
<1>1. ASSUME NEW n \in Runs, proc[n] = "running"
      PROVE  cmd = n
    BY <1>1 DEF IInv, EngineHasOwner, OneCurrent
<1>2. ASSUME NEW n \in Runs, proc[n] = "suspended", crashes = 0
      PROVE  \E c \in Callers : mu = c /\ arg[c] = n /\ cmd = NoRun
    BY <1>2 DEF IInv, EngineHasOwner, LaunchHasLock
<1>3. ASSUME NEW m \in live, NEW n \in live
      PROVE  m = n
  <2>4. alive \subseteq {"suspended", "running"} /\ (crashes # 0 => alive = {"running"})
    OBVIOUS
  <2>5. m \in Runs /\ n \in Runs /\ proc[m] \in alive /\ proc[n] \in alive
    BY <1>3
  <2> HIDE DEF alive
  <2>1. /\ m \in Runs /\ n \in Runs /\ m # NoRun /\ n # NoRun
        /\ proc[m] = "running" \/ (proc[m] = "suspended" /\ crashes = 0)
        /\ proc[n] = "running" \/ (proc[n] = "suspended" /\ crashes = 0)
    <3>1. m # NoRun /\ n # NoRun
      BY <2>5, RunnerAssumption DEF Runs, NoRun
    <3>2. ASSUME NEW p \in alive
          PROVE  p = "running" \/ (p = "suspended" /\ crashes = 0)
      BY <2>4, <3>2
    <3> QED
      BY <2>5, <3>1, <3>2
  <2>2. CASE proc[m] = "running"
    BY <1>1, <1>2, <2>1, <2>2
  <2>3. CASE proc[m] = "suspended" /\ crashes = 0
    BY <1>1, <1>2, <2>1, <2>3
  <2> QED
    BY <2>1, <2>2, <2>3
<1> HIDE DEF live
<1> QED
    BY <1>3, AtMostOne

\* One engine at a time, gone with its config when Stop has returned, and every
\* answer of its API its own: for every build, any number of callers and runs,
\* and every death of the core.
THEOREM RunnerOwnsEngine == Spec => []EngineIsOwned
<1>1. ASSUME IInv
      PROVE  EngineIsOwned
  <2>1. OneEngine
    BY <1>1, OwnedIsOne
  <2>2. StopMeansGone
    <3> SUFFICES ASSUME NEW c \in Callers, stopped[c] # NoRun
                 PROVE  /\ proc[stopped[c]] = "exited" /\ stopped[c] \notin cfgs
                        /\ cmd # stopped[c]
      BY DEF StopMeansGone
    <3>1. stopped[c] \in Runs /\ watcher[stopped[c]] = "published"
      BY <1>1 DEF IInv, Shape, StopIsAnswered
    <3>2. cmd # stopped[c]
      BY <1>1, <3>1 DEF IInv, OneCurrent
    <3> QED
      BY <1>1, <3>1, <3>2 DEF IInv, ExitIsPublished
  <2>3. ConfigIsRemoved
    BY <1>1 DEF IInv, ConfigHasOwner, ConfigIsRemoved, Starting, Launching
  <2>4. AnswersAreOwn
    BY <1>1 DEF IInv, AnswerIsSigned, AnswersAreOwn
  <2> QED
    BY <2>1, <2>2, <2>3, <2>4 DEF EngineIsOwned
<1> QED
    BY <1>1, InitIInv, NextIInv, PTL DEF Spec

-----------------------------------------------------------------------------
\* A set of numbers that is not empty has a least element.
LEMMA LeastNat ==
    ASSUME NEW S \in SUBSET Nat, S # {}
    PROVE  \E x \in S : \A y \in S : x <= y
<1>1. PICK x \in S : \A y \in S : ~(<<y, x>> \in OpToRel(<, Nat))
    BY NatLessThanWellFounded, WFMin
<1>2. ASSUME NEW y \in S PROVE x <= y
  <2>1. x \in Nat /\ y \in Nat /\ <<y, x>> \in Nat \X Nat /\ <<y, x>>[1] = y /\ <<y, x>>[2] = x
    OBVIOUS
  <2>2. y < x => <<y, x>> \in OpToRel(<, Nat)
    BY <2>1, Zenon DEF OpToRel
  <2>3. ~(y < x)
    BY <1>1, <2>2, Zenon
  <2> QED
    BY <2>1, <2>3
<1> QED
    BY <1>2

\* Induction over the numbers, for a set of them.
LEMMA Induct ==
    ASSUME NEW P \in SUBSET Nat, 0 \in P, \A n \in P : n + 1 \in P
    PROVE  P = Nat
<1>1. SUFFICES ASSUME Nat \ P # {} PROVE FALSE
    OBVIOUS
<1>2. PICK m \in Nat \ P : \A y \in Nat \ P : m <= y
    BY <1>1, LeastNat
<1>3. m # 0 /\ m - 1 \in Nat /\ ~(m <= m - 1) /\ m - 1 + 1 = m
    BY <1>2
<1>4. m - 1 \in P
    BY <1>2, <1>3
<1> QED
    BY <1>2, <1>3, <1>4

\* A bounded set of numbers that is not empty has a greatest element.
LEMMA GreatestNat ==
    ASSUME NEW S \in SUBSET Nat, S # {}, NEW top \in Nat, \A x \in S : x <= top
    PROVE  \E x \in S : \A y \in S : y <= x
<1> DEFINE B == {b \in Nat : \A x \in S : x <= b}
<1>1. PICK b \in B : \A c \in B : b <= c
  <2>1. top \in B
    OBVIOUS
  <2> HIDE DEF B
  <2>2. B \in SUBSET Nat
    BY DEF B
  <2> QED
    BY <2>1, <2>2, LeastNat
<1>2. b \in S
  <2>1. SUFFICES ASSUME b \notin S PROVE FALSE
    OBVIOUS
  <2>2. PICK x \in S : TRUE
    OBVIOUS
  <2>3. b # 0
    BY <2>1, <2>2
  <2>4. b - 1 \in B
    BY <2>1, <2>3
  <2> QED
    BY <1>1, <2>4
<1> QED
    BY <1>2

-----------------------------------------------------------------------------
(***************************************************************************)
(* The engine's last words: the writer loses no text, wherever a line is   *)
(* cut, and nothing of it is still pending when the exit is published.     *)
(***************************************************************************)
\* Writing one field of a writer leaves the others.
LEMMA NoData ==
    ASSUME NEW w, w = [pending |-> w.pending, hasData |-> w.hasData, lines |-> w.lines]
    PROVE  LET v == [w EXCEPT !.hasData = FALSE]
           IN  /\ v = [pending |-> v.pending, hasData |-> v.hasData, lines |-> v.lines]
               /\ v.pending = w.pending /\ v.hasData = FALSE /\ v.lines = w.lines
<1> DEFINE g == FALSE
           a == w.pending
           h == w.hasData
           l == w.lines
           v == [w EXCEPT !.hasData = g]
<1>1. w = [pending |-> a, hasData |-> h, lines |-> l]
    OBVIOUS
<1> HIDE DEF g, a, h, l
<1>2. v = [pending |-> a, hasData |-> g, lines |-> l]
    BY <1>1
<1> HIDE DEF v
<1>3. v.pending = a /\ v.hasData = g /\ v.lines = l
    BY <1>2
<1>4. v = [pending |-> v.pending, hasData |-> v.hasData, lines |-> v.lines]
    BY <1>2, <1>3
<1> QED
    BY <1>3, <1>4 DEF v, g, a, l

Bytes == {"x", "r", "n"}
TextAt(line) == {k \in DOMAIN line : line[k] = "x"}
Placed(lines) == UNION {{<<i, k>> : k \in {j \in DOMAIN lines[i] : lines[i][j] = "x"}} : i \in DOMAIN lines}

\* The text of a line: none in an empty one, one more byte at most with one
\* more byte, and none lost with a trailing carriage return.
LEMMA WordsFacts ==
    ASSUME NEW s \in Seq(Bytes)
    PROVE  /\ IsFiniteSet(TextAt(s)) /\ Words(s) = Cardinality(TextAt(s)) /\ Words(s) \in Nat
           /\ Words(<< >>) = 0
           /\ \A b \in Bytes : Words(Append(s, b)) = Words(s) + (IF b = "x" THEN 1 ELSE 0)
           /\ s # << >> /\ Last(s) = "r" => Front(s) \in Seq(Bytes) /\ Words(Front(s)) = Words(s)
           /\ Words(s) = 0 <=> \A k \in DOMAIN s : s[k] # "x"
<1>1. DOMAIN s = 1..Len(s) /\ Len(s) \in Nat
    OBVIOUS
<1>2. IsFiniteSet(TextAt(s))
  <2>1. IsFiniteSet(1..Len(s))
    BY <1>1, FS_Interval
  <2>2. TextAt(s) \in SUBSET (1..Len(s))
    BY <1>1 DEF TextAt
  <2> QED
    BY <2>1, <2>2, FS_Subset
<1>3. \A t : Words(t) = Cardinality(TextAt(t))
    BY DEF Words, TextAt
<1>4. Words(s) \in Nat
    BY <1>2, <1>3, FS_CardinalityType
<1>5. Words(<< >>) = 0
  <2>1. TextAt(<< >>) = {}
    BY DEF TextAt
  <2> QED
    BY <1>3, <2>1, FS_EmptySet
<1>6. ASSUME NEW b \in Bytes
      PROVE  Words(Append(s, b)) = Words(s) + (IF b = "x" THEN 1 ELSE 0)
  <2> DEFINE t == Append(s, b)
             last == Len(s) + 1
  <2>1. /\ DOMAIN t = DOMAIN s \cup {last} /\ t[last] = b /\ last \notin DOMAIN s
        /\ \A k \in DOMAIN s : t[k] = s[k]
    BY <1>1
  <2> HIDE DEF t, last
  <2>2. TextAt(t) = TextAt(s) \cup (IF b = "x" THEN {last} ELSE {}) /\ last \notin TextAt(s)
    BY <2>1 DEF TextAt
  <2>3. CASE b = "x"
    BY <2>2, <2>3, <1>2, <1>3, FS_AddElement DEF t
  <2>4. CASE b # "x"
    <3>1. TextAt(t) = TextAt(s)
      BY <2>2, <2>4
    <3> QED
      BY <3>1, <2>4, <1>3, <1>4 DEF t
  <2> QED
    BY <2>3, <2>4
<1>7. ASSUME s # << >>, Last(s) = "r"
      PROVE  Front(s) \in Seq(Bytes) /\ Words(Front(s)) = Words(s)
  <2> DEFINE t == Front(s)
  <2>1. Len(s) > 0 /\ s[Len(s)] = "r"
    BY <1>1, <1>7 DEF Last
  <2>2. t \in Seq(Bytes) /\ DOMAIN t = 1..(Len(s) - 1) /\ \A k \in 1..(Len(s) - 1) : t[k] = s[k]
    BY <2>1, <1>1 DEF Front
  <2> HIDE DEF t
  <2>3. TextAt(t) = TextAt(s)
    <3>1. \A k \in DOMAIN s : k = Len(s) \/ k \in 1..(Len(s) - 1)
      BY <1>1
    <3>2. \A k \in 1..(Len(s) - 1) : k \in DOMAIN s
      BY <1>1
    <3> QED
      BY <2>1, <2>2, <3>1, <3>2 DEF TextAt
  <2> QED
    BY <2>2, <2>3, <1>3 DEF t
<1>8. Words(s) = 0 <=> \A k \in DOMAIN s : s[k] # "x"
  <2>1. Words(s) = 0 <=> TextAt(s) = {}
    BY <1>2, <1>3, FS_EmptySet
  <2> QED
    BY <2>1 DEF TextAt
<1> QED
    BY <1>2, <1>3, <1>4, <1>5, <1>6, <1>7, <1>8

\* One more line in the log adds its own text.
LEMMA WordsOfMore ==
    ASSUME NEW lines \in Seq(Seq(Bytes)), IsFiniteSet(Placed(lines)), NEW line \in Seq(Bytes)
    PROVE  /\ IsFiniteSet(Placed(Append(lines, line)))
           /\ WordsOf(Append(lines, line)) = WordsOf(lines) + Words(line)
<1> DEFINE N == Len(lines) + 1
           more == Append(lines, line)
           added == {<<N, k>> : k \in TextAt(line)}
           f == [k \in TextAt(line) |-> <<N, k>>]
<1>1. DOMAIN lines = 1..Len(lines) /\ Len(lines) \in Nat
    OBVIOUS
<1>2. /\ DOMAIN more = DOMAIN lines \cup {N} /\ more[N] = line /\ N \notin DOMAIN lines
      /\ \A i \in DOMAIN lines : more[i] = lines[i]
    BY <1>1
<1> HIDE DEF more, N
<1>3. Placed(more) = Placed(lines) \cup added
    BY <1>2 DEF Placed, TextAt
<1>4. Placed(lines) \cap added = {}
    BY <1>2 DEF Placed
<1>5. IsFiniteSet(added) /\ Cardinality(added) = Cardinality(TextAt(line))
  <2>1. f \in Bijection(TextAt(line), added)
    BY DEF Bijection, Injection, Surjection, IsInjective
  <2>2. ExistsBijection(TextAt(line), added)
    BY <2>1 DEF ExistsBijection
  <2> HIDE DEF added
  <2> QED
    BY <2>2, WordsFacts, FS_Bijection
<1> HIDE DEF added
<1>6. /\ IsFiniteSet(Placed(more))
      /\ Cardinality(Placed(more)) = Cardinality(Placed(lines)) + Cardinality(added)
  <2>1. /\ IsFiniteSet(Placed(lines) \cup added)
        /\ Cardinality(Placed(lines) \cup added)
             = Cardinality(Placed(lines)) + Cardinality(added) - Cardinality(Placed(lines) \cap added)
    BY <1>5, FS_Union
  <2>2. Cardinality(Placed(lines) \cap added) = 0
    BY <1>4, FS_EmptySet
  <2>3. Cardinality(Placed(lines)) \in Nat /\ Cardinality(added) \in Nat
    BY <1>5, FS_CardinalityType
  <2> QED
    BY <1>3, <2>1, <2>2, <2>3
<1>7. \A ls : WordsOf(ls) = Cardinality(Placed(ls))
    BY DEF WordsOf, Placed
<1> QED
    BY <1>5, <1>6, <1>7, WordsFacts DEF more

\* A writer between two calls, and the text it has been given.
Writer(w) ==
    /\ w = [pending |-> w.pending, hasData |-> w.hasData, lines |-> w.lines]
    /\ w.pending \in Seq(Bytes) /\ w.hasData \in BOOLEAN /\ w.lines \in Seq(Seq(Bytes))
    /\ IsFiniteSet(Placed(w.lines))
Text(w) == WordsOf(w.lines) + Words(w.pending)

\* A line cut from the buffer takes its text into the log.
LEMMA EmitKeeps ==
    ASSUME NEW w, Writer(w)
    PROVE  /\ Writer(emitPending(w)) /\ emitPending(w).pending = << >>
           /\ Text(emitPending(w)) = Text(w)
           /\ emitPending(w).hasData = w.hasData
<1> DEFINE trimmed == IF w.pending # << >> /\ Last(w.pending) = "r" THEN Front(w.pending) ELSE w.pending
           e == emitPending(w)
<1>1. w.pending \in Seq(Bytes) /\ w.lines \in Seq(Seq(Bytes)) /\ IsFiniteSet(Placed(w.lines))
      /\ w.hasData \in BOOLEAN
    BY DEF Writer
<1>2. trimmed \in Seq(Bytes) /\ Words(trimmed) = Words(w.pending)
    BY <1>1, WordsFacts
<1>3. e = [pending |-> << >>, hasData |-> w.hasData, lines |-> Append(w.lines, trimmed)]
  <2>1. w = [pending |-> w.pending, hasData |-> w.hasData, lines |-> w.lines]
    BY DEF Writer
  <2>2. e = [w EXCEPT !.pending = << >>, !.lines = Append(w.lines, trimmed)]
    BY DEF emitPending
  <2> HIDE DEF e, trimmed
  <2> QED
    BY <2>1, <2>2
<1> HIDE DEF e, trimmed
<1>4. Append(w.lines, trimmed) \in Seq(Seq(Bytes))
    BY <1>1, <1>2
<1>5. /\ IsFiniteSet(Placed(Append(w.lines, trimmed)))
      /\ WordsOf(Append(w.lines, trimmed)) = WordsOf(w.lines) + Words(trimmed)
    BY <1>1, <1>2, WordsOfMore
<1>6. << >> \in Seq(Bytes) /\ Words(<< >>) = 0
  <2>1. << >> \in Seq(Bytes)
    OBVIOUS
  <2> QED
    BY <2>1, WordsFacts
<1>7. WordsOf(w.lines) \in Nat /\ Words(w.pending) \in Nat
  <2>1. WordsOf(w.lines) = Cardinality(Placed(w.lines))
    BY DEF WordsOf, Placed
  <2> QED
    BY <1>1, <2>1, WordsFacts, FS_CardinalityType
<1>8. Writer(e)
    BY <1>1, <1>3, <1>4, <1>5, <1>6 DEF Writer
<1>9. Text(e) = Text(w)
    BY <1>2, <1>3, <1>5, <1>6, <1>7 DEF Text
<1> QED
    BY <1>3, <1>8, <1>9 DEF e

\* What one byte does: text is counted, a newline is not.
LEMMA ByteKeeps ==
    ASSUME NEW w, Writer(w), NEW b \in Bytes
    PROVE  LET v == IF b = "n" THEN endLine(w) ELSE appendBounded(w, b)
           IN  Writer(v) /\ Text(v) = Text(w) + (IF b = "x" THEN 1 ELSE 0)
<1>0. w = [pending |-> w.pending, hasData |-> w.hasData, lines |-> w.lines]
      /\ w.pending \in Seq(Bytes) /\ w.lines \in Seq(Seq(Bytes)) /\ w.hasData \in BOOLEAN
      /\ IsFiniteSet(Placed(w.lines))
    BY DEF Writer
<1>00. WordsOf(w.lines) \in Nat /\ Words(w.pending) \in Nat
  <2>1. WordsOf(w.lines) = Cardinality(Placed(w.lines))
    BY DEF WordsOf, Placed
  <2> QED
    BY <1>0, <2>1, WordsFacts, FS_CardinalityType
<1>1. Writer(endLine(w)) /\ Text(endLine(w)) = Text(w)
  <2> DEFINE e == IF w.pending # << >> \/ ~w.hasData THEN emitPending(w) ELSE w
             d == [e EXCEPT !.hasData = FALSE]
  <2>1. Writer(e) /\ Text(e) = Text(w)
    BY EmitKeeps
  <2>2. endLine(w) = d
    BY DEF endLine
  <2> HIDE DEF e
  <2>3. e = [pending |-> e.pending, hasData |-> e.hasData, lines |-> e.lines]
    BY <2>1 DEF Writer
  <2>5. d = [pending |-> d.pending, hasData |-> d.hasData, lines |-> d.lines]
        /\ d.pending = e.pending /\ d.hasData = FALSE /\ d.lines = e.lines
    BY <2>3, NoData
  <2> HIDE DEF d
  <2> QED
    BY <2>1, <2>2, <2>5 DEF Writer, Text
<1>2. ASSUME b # "n"
      PROVE  /\ Writer(appendBounded(w, b))
             /\ Text(appendBounded(w, b)) = Text(w) + (IF b = "x" THEN 1 ELSE 0)
  <2> DEFINE longer == [pending |-> Append(w.pending, b), hasData |-> TRUE, lines |-> w.lines]
  <2>1. longer = [pending |-> longer.pending, hasData |-> longer.hasData, lines |-> longer.lines]
        /\ longer.pending = Append(w.pending, b) /\ longer.hasData = TRUE /\ longer.lines = w.lines
    OBVIOUS
  <2>2. Append(w.pending, b) \in Seq(Bytes)
        /\ Words(Append(w.pending, b)) = Words(w.pending) + (IF b = "x" THEN 1 ELSE 0)
    BY <1>0, WordsFacts
  <2>3. appendBounded(w, b) = IF Len(longer.pending) = MaxPending THEN emitPending(longer) ELSE longer
    BY DEF appendBounded
  <2> HIDE DEF longer
  <2>4. Writer(longer)
    BY <1>0, <2>1, <2>2 DEF Writer
  <2>5. Text(longer) = Text(w) + (IF b = "x" THEN 1 ELSE 0)
    BY <1>00, <2>1, <2>2 DEF Text
  <2> QED
    BY <2>3, <2>4, <2>5, EmitKeeps
<1>3. CASE b = "n"
    BY <1>00, <1>1, <1>3 DEF Text
<1>4. CASE b # "n"
    BY <1>2, <1>4
<1> QED
    BY <1>3, <1>4

\* A chunk of output, whatever is in it, is kept: every byte of text in it.
LEMMA WriteKeeps ==
    ASSUME NEW w, Writer(w), NEW p \in Seq(Bytes)
    PROVE  Writer(Write(w, p)) /\ Text(Write(w, p)) = Text(w) + Words(p)
<1> DEFINE n == Len(p)
           Byte(v, b) == IF b = "n" THEN endLine(v) ELSE appendBounded(v, b)
           Step(f, k) == [i \in 0..k |-> IF i = 0 THEN w ELSE Byte(f[i - 1], p[i])]
           P == {k \in Nat : \E f : f = Step(f, k)}
           prefix(k) == SubSeq(p, 1, k)
<1>0. n \in Nat /\ DOMAIN p = 1..n /\ Text(w) \in Nat
  <2>1. WordsOf(w.lines) = Cardinality(Placed(w.lines))
    BY DEF WordsOf, Placed
  <2>2. WordsOf(w.lines) \in Nat /\ Words(w.pending) \in Nat
    BY <2>1, WordsFacts, FS_CardinalityType DEF Writer
  <2> QED
    BY <2>2 DEF Text
<1>1. 0 \in P
  <2>1. Step(Step(<< >>, 0), 0) = Step(<< >>, 0)
    OBVIOUS
  <2> QED
    BY <2>1
<1>2. ASSUME NEW k \in P PROVE k + 1 \in P
  <2>1. PICK f : f = Step(f, k)
    OBVIOUS
  <2> DEFINE g == Step(f, k + 1)
  <2> HIDE DEF Byte
  <2>2. \A i \in 0..k : g[i] = f[i]
    BY <2>1
  <2>3. \A i \in 0..(k + 1) : g[i] = Step(g, k + 1)[i]
    <3>1. ASSUME NEW i \in 0..(k + 1) PROVE g[i] = Step(g, k + 1)[i]
      <4>1. CASE i = 0
        BY <4>1
      <4>2. CASE i # 0
        <5>1. i - 1 \in 0..k
          BY <4>2
        <5>2. g[i - 1] = f[i - 1]
          BY <5>1, <2>2
        <5>3. g[i] = Byte(f[i - 1], p[i])
          BY <4>2
        <5>4. Step(g, k + 1)[i] = Byte(g[i - 1], p[i])
          <6> HIDE DEF g
          <6> QED
            BY <4>2
        <5> QED
          BY <5>2, <5>3, <5>4
      <4> QED
        BY <4>1, <4>2
    <3> QED
      BY <3>1
  <2>4. g = Step(g, k + 1)
    BY <2>3
  <2> HIDE DEF g, Step
  <2> QED
    BY <2>4
<1>3. n \in P
  <2> HIDE DEF P
  <2>1. P \in SUBSET Nat
    BY DEF P
  <2>2. P = Nat
    BY <1>1, <1>2, <2>1, Induct
  <2> QED
    BY <1>0, <2>2
<1> DEFINE after == CHOOSE f : f = Step(f, n)
<1>4. after = Step(after, n)
    BY <1>3
<1>5. Write(w, p) = after[n]
    BY DEF Write
<1>6. after[0] = w /\ \A i \in 1..n : after[i] = Byte(after[i - 1], p[i])
  <2> HIDE DEF after, Byte, n
  <2> QED
    BY <1>0, <1>4
<1> HIDE DEF after, P, n
<1> DEFINE Q == {k \in Nat : k <= n => Writer(after[k]) /\ Text(after[k]) = Text(w) + Words(prefix(k))}
<1>7. 0 \in Q
  <2>1. prefix(0) = << >>
    OBVIOUS
  <2>2. Words(<< >>) = 0
    BY WordsFacts
  <2> HIDE DEF prefix
  <2> QED
    BY <1>0, <1>6, <2>1, <2>2
<1>8. ASSUME NEW k \in Q PROVE k + 1 \in Q
  <2>1. SUFFICES ASSUME k + 1 <= n
                 PROVE  Writer(after[k + 1]) /\ Text(after[k + 1]) = Text(w) + Words(prefix(k + 1))
    OBVIOUS
  <2>2. k \in Nat /\ k <= n /\ k + 1 \in 1..n /\ k + 1 - 1 = k
    BY <1>0, <2>1
  <2>3. Writer(after[k]) /\ Text(after[k]) = Text(w) + Words(prefix(k))
    BY <2>2
  <2>4. p[k + 1] \in Bytes
    BY <1>0, <2>2
  <2>5. prefix(k) \in Seq(Bytes) /\ prefix(k + 1) = Append(prefix(k), p[k + 1])
    BY <1>0, <2>2 DEF n
  <2>6. Words(prefix(k + 1)) = Words(prefix(k)) + (IF p[k + 1] = "x" THEN 1 ELSE 0)
        /\ Words(prefix(k)) \in Nat
    <3> HIDE DEF prefix
    <3> QED
      BY <2>4, <2>5, WordsFacts, ZenonT(30)
  <2>7. after[k + 1] = Byte(after[k], p[k + 1])
    BY <1>6, <2>2
  <2>8. /\ Writer(Byte(after[k], p[k + 1]))
        /\ Text(Byte(after[k], p[k + 1])) = Text(after[k]) + (IF p[k + 1] = "x" THEN 1 ELSE 0)
    BY <2>3, <2>4, ByteKeeps
  <2> HIDE DEF prefix, Byte
  <2> QED
    BY <1>0, <2>3, <2>6, <2>7, <2>8
<1>9. n \in Q
  <2> HIDE DEF Q
  <2>1. Q \in SUBSET Nat
    BY DEF Q
  <2> QED
    BY <1>0, <1>7, <1>8, <2>1, Induct
<1>10. prefix(n) = p
    BY DEF n
<1>11. Writer(after[n]) /\ Text(after[n]) = Text(w) + Words(prefix(n))
  <2> HIDE DEF prefix
  <2> QED
    BY <1>0, <1>9
<1> HIDE DEF prefix, Q
<1> QED
    BY <1>5, <1>10, <1>11

\* Flushing leaves nothing pending and loses nothing.
LEMMA FlushKeeps ==
    ASSUME NEW w, Writer(w)
    PROVE  /\ Writer(Flush(w)) /\ Flush(w).pending = << >>
           /\ Text(Flush(w)) = Text(w)
<1> DEFINE e == IF w.pending # << >> THEN emitPending(w) ELSE w
           d == [e EXCEPT !.hasData = FALSE]
<1>1. Writer(e) /\ Text(e) = Text(w) /\ e.pending = << >>
    BY EmitKeeps
<1>2. Flush(w) = d
    BY DEF Flush
<1> HIDE DEF e
<1>3. e = [pending |-> e.pending, hasData |-> e.hasData, lines |-> e.lines]
    BY <1>1 DEF Writer
<1>5. d = [pending |-> d.pending, hasData |-> d.hasData, lines |-> d.lines]
      /\ d.pending = e.pending /\ d.hasData = FALSE /\ d.lines = e.lines
    BY <1>3, NoData
<1> HIDE DEF d
<1> QED
    BY <1>1, <1>2, <1>5 DEF Writer, Text

\* Every byte of text an engine has written is in the log or pending, and
\* nothing is pending once its watcher has reaped it.
LogInv ==
    /\ watcher \in [Runs -> {"none", "wait", "reaped", "cleared", "published"}]
    /\ out \in [Runs -> [pending : Seq(Bytes), hasData : BOOLEAN, lines : Seq(Seq(Bytes))]]
    /\ said \in [Runs -> Nat]
    /\ \A n \in Runs : /\ Writer(out[n]) /\ Text(out[n]) = said[n]
                       /\ watcher[n] \in {"reaped", "cleared", "published"} => out[n].pending = << >>

\* Before the first run nothing is said and nothing is logged.
LEMMA LogInit == Init => LogInv
<1> SUFFICES ASSUME Init PROVE LogInv
    OBVIOUS
<1>1. << >> \in Seq(Bytes) /\ << >> \in Seq(Seq(Bytes))
    OBVIOUS
<1>2. Placed(<< >>) = {} /\ WordsOf(<< >>) = 0 /\ Words(<< >>) = 0
  <2>1. Placed(<< >>) = {}
    BY DEF Placed
  <2>2. WordsOf(<< >>) = Cardinality(Placed(<< >>))
    BY DEF WordsOf, Placed
  <2> QED
    BY <1>1, <2>1, <2>2, FS_EmptySet, WordsFacts
<1>3. Quiet.pending = << >> /\ Quiet.lines = << >> /\ Quiet.hasData = FALSE
    BY DEF Quiet
<1>4. /\ Writer(Quiet) /\ Text(Quiet) = 0
      /\ Quiet \in [pending : Seq(Bytes), hasData : BOOLEAN, lines : Seq(Seq(Bytes))]
  <2>1. Quiet = [pending |-> Quiet.pending, hasData |-> Quiet.hasData, lines |-> Quiet.lines]
    BY DEF Quiet
  <2>2. Quiet.hasData \in BOOLEAN /\ IsFiniteSet(Placed(Quiet.lines))
    BY <1>2, <1>3, FS_EmptySet
  <2>3. Writer(Quiet)
    BY <1>1, <1>3, <2>1, <2>2 DEF Writer
  <2>4. Text(Quiet) = 0
    BY <1>2, <1>3 DEF Text
  <2>5. Quiet \in [pending : Seq(Bytes), hasData : BOOLEAN, lines : Seq(Seq(Bytes))]
    BY <1>1 DEF Quiet
  <2> QED
    BY <2>3, <2>4, <2>5
<1> QED
    BY <1>4 DEF Init, LogInv

\* A step that moves no byte of output keeps what was said and logged.
LEMMA LogSilent ==
    ASSUME LogInv, UNCHANGED <<out, said>>,
           watcher' \in [Runs -> {"none", "wait", "reaped", "cleared", "published"}],
           \A n \in Runs : watcher'[n] \in {"reaped", "cleared", "published"} =>
                               watcher[n] \in {"reaped", "cleared", "published"}
    PROVE  LogInv'
    BY DEF LogInv

\* Every step keeps what is logged and pending equal to what was said.
LEMMA LogNext == LogInv /\ [Next]_vars => LogInv'
<1> SUFFICES ASSUME LogInv, [Next]_vars PROVE LogInv'
    OBVIOUS
<1>0. ASSUME UNCHANGED <<out, said, watcher>> PROVE LogInv'
    BY <1>0, LogSilent DEF LogInv
<1>1. ASSUME NEW c \in Callers, UNCHANGED <<out, said>>,
             \/ UNCHANGED watcher
             \/ watcher' = [watcher EXCEPT ![arg[c]] = "wait"]
      PROVE  LogInv'
    BY <1>1, LogSilent DEF LogInv
<1>2. ASSUME NEW c \in Callers,
             \/ writeConfig(c) \/ StartUnix(c) \/ StartWindows(c)
             \/ Prepare(c) \/ StartSuspended(c) \/ Assign(c) \/ Resume(c)
             \/ Stop(c) \/ StopReturns(c)
      PROVE  LogInv'
  <2>1. UNCHANGED <<out, said>>
    BY <1>2 DEF writeConfig, StartUnix, StartWindows, Prepare, StartSuspended, Assign, Resume,
                Stop, StopReturns
  <2>2. \/ UNCHANGED watcher
        \/ watcher' = [watcher EXCEPT ![arg[c]] = "wait"]
    BY <1>2 DEF writeConfig, StartUnix, StartWindows, Prepare, StartSuspended, Assign, Resume,
                Stop, StopReturns, Spawned, Abandoned, LaunchFails, Steps
  <2> QED
    BY <1>1, <2>1, <2>2
<1>3. CASE Done \/ ExitSeen
    BY <1>0, <1>3 DEF Done, ExitSeen
<1>4. ASSUME NEW n \in Runs, Reap(n) PROVE LogInv'
  <2>1. /\ out' = [out EXCEPT ![n] = Flush(out[n])] /\ said' = said
        /\ watcher' = [watcher EXCEPT ![n] = "reaped"]
    BY <1>4 DEF Reap
  <2>2. /\ Writer(Flush(out[n])) /\ Flush(out[n]).pending = << >>
        /\ Text(Flush(out[n])) = said[n]
    BY FlushKeeps DEF LogInv
  <2>3. Flush(out[n]) \in [pending : Seq(Bytes), hasData : BOOLEAN, lines : Seq(Seq(Bytes))]
    BY <2>2 DEF Writer
  <2> QED
    BY <2>1, <2>2, <2>3 DEF LogInv
<1>5. ASSUME NEW n \in Runs, Clear(n) \/ Publish(n) PROVE LogInv'
  <2>1. /\ UNCHANGED <<out, said>> /\ watcher[n] \in {"reaped", "cleared"}
        /\ \E s \in {"cleared", "published"} : watcher' = [watcher EXCEPT ![n] = s]
    BY <1>5 DEF Clear, Publish
  <2> QED
    BY <2>1, LogSilent DEF LogInv
<1>6. ASSUME NEW n \in Runs, EngineWrites(n) PROVE LogInv'
  <2>1. PICK p \in Output : /\ out' = [out EXCEPT ![n] = Write(out[n], p)]
                            /\ said' = [said EXCEPT ![n] = said[n] + Words(p)]
    BY <1>6 DEF EngineWrites
  <2>2. watcher' = watcher /\ watcher[n] = "wait"
    BY <1>6 DEF EngineWrites, own
  <2>3. p \in Seq(Bytes)
    <3>1. "x" \in Bytes /\ "r" \in Bytes /\ "n" \in Bytes
      BY DEF Bytes
    <3>2. p = <<"x", "r", "n", "x", "x", "x">>
      BY DEF Output
    <3> QED
      BY <3>1, <3>2
  <2>4. Writer(out[n]) /\ Text(out[n]) = said[n] /\ said[n] \in Nat
    BY DEF LogInv
  <2>5. /\ Writer(Write(out[n], p)) /\ Text(Write(out[n], p)) = said[n] + Words(p)
        /\ Words(p) \in Nat
    BY <2>3, <2>4, WriteKeeps, WordsFacts
  <2>6. Write(out[n], p) \in [pending : Seq(Bytes), hasData : BOOLEAN, lines : Seq(Seq(Bytes))]
    <3> DEFINE v == Write(out[n], p)
    <3>1. Writer(v)
      BY <2>5
    <3> HIDE DEF v
    <3>2. v \in [pending : Seq(Bytes), hasData : BOOLEAN, lines : Seq(Seq(Bytes))]
      BY <3>1 DEF Writer
    <3> QED
      BY <3>2 DEF v
  <2> DEFINE v == Write(out[n], p)
             k == said[n] + Words(p)
  <2>7. /\ out' = [out EXCEPT ![n] = v] /\ said' = [said EXCEPT ![n] = k] /\ k \in Nat
        /\ Writer(v) /\ Text(v) = k
        /\ v \in [pending : Seq(Bytes), hasData : BOOLEAN, lines : Seq(Seq(Bytes))]
    BY <2>1, <2>4, <2>5, <2>6
  <2> HIDE DEF v, k
  <2> QED
    BY <2>2, <2>7 DEF LogInv
<1>7. ASSUME NEW n \in Runs, EngineExits(n) \/ ApiAnswers(n) PROVE LogInv'
    BY <1>0, <1>7 DEF EngineExits, ApiAnswers, own
<1>8. CASE clashAuth \/ ApiReturns \/ ApiFails
    BY <1>0, <1>8 DEF clashAuth, ApiReturns, ApiFails, own
<1>9. CASE CoreDies
  <2>1. UNCHANGED <<out, said>> /\ watcher' = [n \in Runs |-> "none"]
    BY <1>9 DEF CoreDies
  <2> QED
    BY <2>1, LogSilent
<1>10. CASE UNCHANGED vars
    BY <1>0, <1>10 DEF vars, own
<1> QED
    BY <1>2, <1>3, <1>4, <1>5, <1>6, <1>7, <1>8, <1>9, <1>10 DEF Next

\* What the engine wrote is in the log, wherever its lines were cut, and all of
\* it once its exit is published: for every length of the buffer, number of
\* runs, launches and deaths of the core (processlog.Writer, the watcher).
THEOREM RunnerKeepsLastWords == Spec => []LastWordsKept
<1>1. ASSUME LogInv PROVE LastWordsKept
  <2> SUFFICES ASSUME NEW n \in Runs
               PROVE  IF watcher[n] = "published" THEN WordsOf(out[n].lines) = said[n]
                      ELSE WordsOf(out[n].lines) + Words(out[n].pending) = said[n]
    BY DEF LastWordsKept
  <2>1. Text(out[n]) = said[n] /\ (watcher[n] = "published" => out[n].pending = << >>)
    BY <1>1 DEF LogInv
  <2>2. Words(<< >>) = 0 /\ WordsOf(out[n].lines) \in Nat
    <3>1. WordsOf(out[n].lines) = Cardinality(Placed(out[n].lines))
      BY DEF WordsOf, Placed
    <3>2. IsFiniteSet(Placed(out[n].lines))
      BY <1>1 DEF LogInv, Writer
    <3>3. << >> \in Seq(Bytes)
      OBVIOUS
    <3> QED
      BY <3>1, <3>2, <3>3, FS_CardinalityType, WordsFacts
  <2> QED
    BY <2>1, <2>2 DEF Text
<1> QED
    BY <1>1, LogInit, LogNext, PTL DEF Spec

-----------------------------------------------------------------------------
(***************************************************************************)
(* The sweep over a route table: what it reports as covered is covered.    *)
(***************************************************************************)

\* The powers of two an address can need are positive numbers.
LEMMA ShiftFacts == \A k \in 0..Bits : Shift[k] \in Nat \ {0}
<1>0. Bits \in Nat
    BY TunGuardAssumption
<1> DEFINE Step(f, k) == [i \in 0..k |-> IF i = 0 THEN 1 ELSE 2 * f[i - 1]]
           P == {k \in Nat : \E f : f = Step(f, k)}
<1>1. 0 \in P
  <2>1. Step(Step(<< >>, 0), 0) = Step(<< >>, 0)
    OBVIOUS
  <2> QED
    BY <2>1
<1>2. ASSUME NEW k \in P PROVE k + 1 \in P
  <2>1. PICK f : f = Step(f, k)
    OBVIOUS
  <2> DEFINE g == Step(f, k + 1)
  <2>2. \A i \in 0..k : g[i] = f[i]
    BY <2>1
  <2>3. ASSUME NEW i \in 0..(k + 1) PROVE g[i] = Step(g, k + 1)[i]
    <3>1. CASE i = 0
      BY <3>1
    <3>2. CASE i # 0
      <4>1. i - 1 \in 0..k
        BY <3>2
      <4>2. g[i - 1] = f[i - 1]
        BY <4>1, <2>2
      <4>3. g[i] = 2 * f[i - 1]
        BY <3>2
      <4>4. Step(g, k + 1)[i] = 2 * g[i - 1]
        <5> HIDE DEF g
        <5> QED
          BY <3>2
      <4> QED
        BY <4>2, <4>3, <4>4
    <3> QED
      BY <3>1, <3>2
  <2>4. g = Step(g, k + 1)
    BY <2>3
  <2> HIDE DEF g, Step
  <2> QED
    BY <2>4
<1>3. Bits \in P
  <2> HIDE DEF P
  <2>1. P \in SUBSET Nat
    BY DEF P
  <2>2. P = Nat
    BY <1>1, <1>2, <2>1, Induct
  <2> QED
    BY <1>0, <2>2
<1>4. Shift = Step(Shift, Bits)
    BY <1>3 DEF Shift
<1> DEFINE Q == {k \in Nat : k <= Bits => Shift[k] \in Nat \ {0}}
<1>5. 0 \in Q
  <2>1. 0 \in 0..Bits
    BY <1>0
  <2>2. Shift[0] = 1
    BY <1>4, <2>1
  <2> QED
    BY <2>2
<1>6. ASSUME NEW k \in Q PROVE k + 1 \in Q
  <2>1. SUFFICES ASSUME k + 1 <= Bits PROVE Shift[k + 1] \in Nat \ {0}
    OBVIOUS
  <2>2. k + 1 \in 0..Bits /\ k + 1 # 0 /\ k + 1 - 1 = k /\ k <= Bits
    BY <1>0, <2>1
  <2>3. Shift[k + 1] = 2 * Shift[k]
    BY <1>4, <2>2
  <2>4. Shift[k] \in Nat \ {0}
    BY <2>2
  <2> QED
    BY <2>3, <2>4
<1> HIDE DEF Q
<1>7. Q \in SUBSET Nat
    BY DEF Q
<1>8. Q = Nat
    BY <1>5, <1>6, <1>7, Induct
<1> QED
    BY <1>0, <1>8 DEF Q

\* A span of addresses, and whether it holds one.
Spans == [start : Nat, end : Nat]
Covers(s, a) == s.start <= a /\ a < s.end

\* Among finitely many spans one starts no later than the others.
LEMMA LowestFacts ==
    ASSUME NEW S \in SUBSET Spans, S # {}
    PROVE  Lowest(S) \in S /\ \A t \in S : Lowest(S).start <= t.start
<1> DEFINE B == {s.start : s \in S}
<1>1. PICK b \in B : \A c \in B : b <= c
  <2>1. B \in SUBSET Nat /\ B # {}
    BY DEF Spans
  <2> HIDE DEF B
  <2> QED
    BY <2>1, LeastNat
<1>2. \E s \in S : \A t \in S : s.start <= t.start
    BY <1>1
<1> QED
    BY <1>2 DEF Lowest

\* The sweep after k spans: what it holds covered is covered; a span behind it
\* lies below that or past a gap, and starts no later than those ahead.
SweptSoFar(S, w, k) ==
    /\ w.left \subseteq S /\ Cardinality(w.left) = Cardinality(S) - k
    /\ w.covered \in Nat
    /\ \A a \in Nat : a < w.covered => \E s \in S : Covers(s, a)
    /\ \A s \in S \ w.left : s.end <= w.covered \/ s.start > w.covered
    /\ \A s \in S \ w.left, t \in w.left : s.start <= t.start

LEMMA SweptKeeps ==
    ASSUME NEW S \in SUBSET Spans, IsFiniteSet(S), NEW w, NEW k \in Nat, k < Cardinality(S),
           SweptSoFar(S, w, k)
    PROVE  SweptSoFar(S, Swept(w), k + 1)
<1> DEFINE s == Lowest(w.left)
           c == w.covered
           d == IF s.start > c \/ s.end <= c THEN c ELSE s.end
           v == [left |-> w.left \ {s}, covered |-> d]
<1>1. Swept(w) = v
    BY DEF Swept
<1>2. /\ w.left \subseteq S /\ c \in Nat /\ Cardinality(w.left) = Cardinality(S) - k
      /\ \A a \in Nat : a < c => \E t \in S : Covers(t, a)
      /\ \A t \in S \ w.left : t.end <= c \/ t.start > c
      /\ \A t \in S \ w.left, u \in w.left : t.start <= u.start
    BY DEF SweptSoFar
<1>3. IsFiniteSet(w.left) /\ Cardinality(S) \in Nat /\ Cardinality(w.left) > 0
  <2>1. IsFiniteSet(w.left) /\ Cardinality(S) \in Nat
    BY <1>2, FS_Subset, FS_CardinalityType
  <2> QED
    BY <1>2, <2>1
<1>4. w.left # {}
    BY <1>3, FS_EmptySet
<1>5. s \in w.left /\ \A t \in w.left : s.start <= t.start
  <2>1. w.left \in SUBSET Spans
    BY <1>2
  <2> QED
    BY <1>4, <2>1, LowestFacts
<1>6. s \in Spans /\ s.start \in Nat /\ s.end \in Nat
    BY <1>2, <1>5 DEF Spans
<1>7. v.left = w.left \ {s} /\ v.covered = d
    OBVIOUS
<1> HIDE DEF s, v
<1>8. v.left \subseteq S /\ Cardinality(v.left) = Cardinality(S) - (k + 1)
  <2> DEFINE L == w.left
  <2>1. IsFiniteSet(L) /\ s \in L /\ v.left = L \ {s}
    BY <1>3, <1>5, <1>7
  <2> HIDE DEF L
  <2>2. Cardinality(L \ {s}) = Cardinality(L) - 1
    BY <2>1, FS_RemoveElement
  <2>3. Cardinality(v.left) = Cardinality(w.left) - 1
    BY <2>1, <2>2 DEF L
  <2> QED
    BY <1>2, <1>3, <1>7, <2>3
<1>9. d \in Nat /\ c <= d
    BY <1>2, <1>6
<1>10. \A a \in Nat : a < d => \E t \in S : Covers(t, a)
  <2>1. ASSUME NEW a \in Nat, a < d, ~(a < c) PROVE Covers(s, a)
    BY <1>2, <1>6, <2>1 DEF Covers
  <2> QED
    BY <1>2, <1>5, <2>1
<1>11. S \ v.left = (S \ w.left) \cup {s}
    BY <1>2, <1>5, <1>7
<1>12. \A t \in S \ v.left : t.end <= d \/ t.start > d
  <2>1. s.end <= d \/ s.start > d
    BY <1>2, <1>6
  <2>2. ASSUME NEW t \in S \ w.left PROVE t.end <= d \/ t.start > d
    <3>1. t.end <= c \/ t.start > c
      BY <1>2
    <3>2. t.start <= s.start /\ t.start \in Nat /\ t.end \in Nat
      BY <1>2, <1>5 DEF Spans
    <3> QED
      BY <1>2, <1>6, <3>1, <3>2
  <2> QED
    BY <1>11, <2>1, <2>2
<1>13. \A t \in S \ v.left, u \in v.left : t.start <= u.start
    BY <1>2, <1>5, <1>7, <1>11
<1> HIDE DEF d
<1> QED
    BY <1>1, <1>7, <1>8, <1>9, <1>10, <1>12, <1>13 DEF SweptSoFar

\* coversWithin answers the question it is asked about: whether every address
\* lies in one of the spans.
LEMMA CoversWithinFacts ==
    ASSUME NEW prefixes, NEW m, NEW S, S = SpansWithin(prefixes, m), S \in SUBSET Spans, IsFiniteSet(S)
    PROVE  coversWithin(prefixes, m) <=> \A a \in Addresses : \E s \in S : Covers(s, a)
<1> DEFINE n == Cardinality(S)
           begun == [left |-> S, covered |-> 0]
<1>0. n \in Nat
    BY FS_CardinalityType
<1> HIDE DEF n, begun
<1> DEFINE Step(f, k) == [i \in 0..k |-> IF i = 0 THEN begun ELSE Swept(f[i - 1])]
           P == {k \in Nat : \E f : f = Step(f, k)}
<1>1. 0 \in P
  <2>1. Step(Step(<< >>, 0), 0) = Step(<< >>, 0)
    OBVIOUS
  <2> QED
    BY <2>1
<1>2. ASSUME NEW k \in P PROVE k + 1 \in P
  <2>1. PICK f : f = Step(f, k)
    OBVIOUS
  <2> DEFINE g == Step(f, k + 1)
  <2>2. \A i \in 0..k : g[i] = f[i]
    BY <2>1
  <2>3. ASSUME NEW i \in 0..(k + 1) PROVE g[i] = Step(g, k + 1)[i]
    <3>1. CASE i = 0
      BY <3>1
    <3>2. CASE i # 0
      <4>1. i - 1 \in 0..k
        BY <3>2
      <4>2. g[i - 1] = f[i - 1]
        BY <4>1, <2>2
      <4>3. g[i] = Swept(f[i - 1])
        BY <3>2
      <4>4. Step(g, k + 1)[i] = Swept(g[i - 1])
        <5> HIDE DEF g
        <5> QED
          BY <3>2
      <4> QED
        BY <4>2, <4>3, <4>4
    <3> QED
      BY <3>1, <3>2
  <2>4. g = Step(g, k + 1)
    BY <2>3
  <2> HIDE DEF g, Step
  <2> QED
    BY <2>4
<1>3. n \in P
  <2> HIDE DEF P
  <2>1. P \in SUBSET Nat
    BY DEF P
  <2>2. P = Nat
    BY <1>1, <1>2, <2>1, Induct
  <2> QED
    BY <1>0, <2>2
<1> DEFINE sweep == CHOOSE f : f = Step(f, n)
<1>4. sweep = Step(sweep, n)
    BY <1>3
<1>5. coversWithin(prefixes, m) <=> sweep[n].covered >= Total
    BY DEF coversWithin, n, begun
<1> HIDE DEF sweep, P
<1>6. sweep[0] = begun /\ \A k \in 1..n : sweep[k] = Swept(sweep[k - 1])
    BY <1>0, <1>4
<1> HIDE DEF Step
<1> DEFINE Q == {k \in Nat : k <= n => SweptSoFar(S, sweep[k], k)}
<1>7. 0 \in Q
  <2>1. SweptSoFar(S, begun, 0)
    BY <1>0 DEF SweptSoFar, begun, n
  <2> QED
    BY <1>6, <2>1
<1>8. ASSUME NEW k \in Q PROVE k + 1 \in Q
  <2>1. SUFFICES ASSUME k + 1 <= n PROVE SweptSoFar(S, sweep[k + 1], k + 1)
    OBVIOUS
  <2>2. k \in Nat /\ k < n /\ k + 1 \in 1..n /\ k + 1 - 1 = k
    BY <1>0, <2>1
  <2>3. SweptSoFar(S, sweep[k], k)
    BY <1>0, <2>2
  <2>4. sweep[k + 1] = Swept(sweep[k])
    BY <1>6, <2>2
  <2> QED
    BY <2>2, <2>3, <2>4, SweptKeeps DEF n
<1> HIDE DEF Q
<1>9. Q \in SUBSET Nat
    BY DEF Q
<1>10. Q = Nat
    BY <1>7, <1>8, <1>9, Induct
<1> DEFINE w == sweep[n]
<1>11. SweptSoFar(S, w, n)
    BY <1>0, <1>10 DEF Q
<1> HIDE DEF w
<1>12. w.left = {}
  <2>1. w.left \subseteq S /\ Cardinality(w.left) = 0
    BY <1>0, <1>11 DEF SweptSoFar, n
  <2>2. IsFiniteSet(w.left)
    BY <2>1, FS_Subset
  <2> QED
    BY <2>1, <2>2, FS_EmptySet
<1>13. /\ w.covered \in Nat
       /\ \A a \in Nat : a < w.covered => \E s \in S : Covers(s, a)
       /\ \A s \in S : s.end <= w.covered \/ s.start > w.covered
    BY <1>11, <1>12 DEF SweptSoFar
<1>14. Total \in Nat
    BY ShiftFacts, TunGuardAssumption DEF Total
<1>15. CASE w.covered >= Total
  <2>1. \A a \in Addresses : a \in Nat /\ a < w.covered
    BY <1>13, <1>14, <1>15 DEF Addresses
  <2> QED
    BY <1>5, <1>13, <1>15, <2>1 DEF w
<1>16. CASE ~(w.covered >= Total)
  <2>1. w.covered \in Addresses
    BY <1>13, <1>14, <1>16 DEF Addresses
  <2>2. \A s \in S : ~Covers(s, w.covered)
    BY <1>13 DEF Covers, Spans
  <2> QED
    BY <1>5, <1>16, <2>1, <2>2 DEF w
<1> QED
    BY <1>15, <1>16

\* What a set of finitely many becomes under a function is finite.
LEMMA FiniteImage ==
    ASSUME NEW S, IsFiniteSet(S), NEW f, DOMAIN f = S
    PROVE  IsFiniteSet({f[x] : x \in S})
<1> DEFINE T == {f[x] : x \in S}
           g == [x \in S |-> f[x]]
<1>1. g \in Surjection(S, T)
    BY DEF Surjection
<1> QED
    BY <1>1, FS_Surjection

\* The route table read so far: finitely many rows.
GuardInv ==
    /\ known \in BOOLEAN
    /\ table \subseteq Rows /\ IsFiniteSet(table)

CoverPrefixes == [ones : 0..Bits, addr : Nat, metric : 0..MaxMetric]

\* What an accumulator holds is made of finitely many well-formed prefixes.
LEMMA CoverFacts ==
    ASSUME GuardInv, NEW i \in Ifaces, NEW f \in Families
    PROVE  routeCover(i, f) \in SUBSET CoverPrefixes /\ IsFiniteSet(routeCover(i, f))
<1> DEFINE kept == {r \in table : r.iface = i /\ r.family = f /\ isNetworkAddress(r.dest, r.ones)}
           P(r) == [ones |-> r.ones, addr |-> r.dest, metric |-> addMetric(r.metric, ifaceMetric(i, f))]
           g == [r \in kept |-> P(r)]
<1>1. IsFiniteSet(kept)
    BY FS_Subset DEF GuardInv
<1>2. routeCover(i, f) = {P(r) : r \in kept}
    BY DEF routeCover
<1>3. {P(r) : r \in kept} = {g[r] : r \in kept}
    OBVIOUS
<1>4. ASSUME NEW r \in kept PROVE P(r) \in CoverPrefixes
  <2>1. r \in Rows
    BY DEF GuardInv
  <2>2. r.ones \in 0..Bits /\ r.dest \in Addresses /\ r.metric \in 0..MaxMetric
    BY <2>1, TunGuardAssumption
  <2>3. i.metric[f] \in 0..MaxMetric /\ MaxMetric \in Nat
    BY TunGuardAssumption
  <2>4. addMetric(r.metric, ifaceMetric(i, f)) \in 0..MaxMetric
    BY <2>2, <2>3 DEF addMetric, ifaceMetric
  <2>5. r.dest \in Nat
    BY <2>2 DEF Addresses
  <2> QED
    BY <2>2, <2>4, <2>5 DEF CoverPrefixes
<1> HIDE DEF kept, P
<1>5. IsFiniteSet({g[r] : r \in kept})
  <2>1. DOMAIN g = kept
    OBVIOUS
  <2> HIDE DEF g
  <2> QED
    BY <1>1, <2>1, FiniteImage
<1> QED
    BY <1>2, <1>3, <1>4, <1>5

\* Every address lies under a prefix of metric m or less.
Tiled(P, m) ==
    \A a \in Addresses : \E p \in P :
        p.metric <= m /\ p.addr <= a /\ a < p.addr + Shift[Bits - p.ones]

\* coversWithin reports exactly whether the routes of metric m or less tile
\* the family.
LEMMA SweepTiles ==
    ASSUME NEW P \in SUBSET CoverPrefixes, IsFiniteSet(P), NEW m
    PROVE  coversWithin(P, m) <=> Tiled(P, m)
<1> DEFINE Q == {q \in P : q.metric <= m}
           S == SpansWithin(P, m)
           g == [q \in Q |-> Span(q)]
<1>1. IsFiniteSet(Q)
    BY FS_Subset
<1>2. S = {Span(q) : q \in Q}
    BY DEF SpansWithin
<1>3. {Span(q) : q \in Q} = {g[q] : q \in Q}
    OBVIOUS
<1>4. \A q \in Q : q \in CoverPrefixes /\ q.metric <= m
    OBVIOUS
<1>5. \A p \in P : p.metric <= m => p \in Q
    OBVIOUS
<1>50. \A q \in Q : q \in P
    OBVIOUS
<1> HIDE DEF Q, S
<1>6. IsFiniteSet(S)
  <2>1. DOMAIN g = Q
    OBVIOUS
  <2> HIDE DEF g
  <2>2. IsFiniteSet({g[q] : q \in Q})
    BY <1>1, <2>1, FiniteImage
  <2> QED
    BY <1>2, <1>3, <2>2
<1>7. ASSUME NEW q \in Q
      PROVE  /\ Span(q) \in Spans
             /\ Span(q).start = q.addr /\ Span(q).end = q.addr + Shift[Bits - q.ones]
  <2>1. q.ones \in 0..Bits /\ q.addr \in Nat
    BY <1>4 DEF CoverPrefixes
  <2>2. Bits \in Nat
    BY TunGuardAssumption
  <2>3. Bits - q.ones \in 0..Bits
    BY <2>1, <2>2
  <2>4. Shift[Bits - q.ones] \in Nat
    BY <2>3, ShiftFacts
  <2> QED
    BY <2>1, <2>4 DEF Span, Spans
<1>8. S \in SUBSET Spans
    BY <1>2, <1>7
<1>9. coversWithin(P, m) <=> \A a \in Addresses : \E s \in S : Covers(s, a)
    BY <1>6, <1>8, CoversWithinFacts DEF S
<1>10. ASSUME NEW a
       PROVE  (\E s \in S : Covers(s, a))
                <=> \E p \in P : p.metric <= m /\ p.addr <= a /\ a < p.addr + Shift[Bits - p.ones]
    BY <1>2, <1>4, <1>5, <1>50, <1>7 DEF Covers
<1> QED
    BY <1>9, <1>10 DEF Tiled

\* A tiling at some metric is one at the greatest metric in use below it.
LEMMA TiledAtMetric ==
    ASSUME NEW P \in SUBSET CoverPrefixes, NEW m \in Nat, Tiled(P, m)
    PROVE  \E k \in Metrics(P) : k <= m /\ Tiled(P, k)
<1> DEFINE K == {k \in Metrics(P) : k <= m}
<1>1. Metrics(P) \in SUBSET Nat
    BY DEF Metrics, CoverPrefixes
<1>2. K # {}
  <2>1. 0 \in Addresses
    <3>1. Total \in Nat \ {0}
      BY ShiftFacts, TunGuardAssumption DEF Total
    <3> QED
      BY <3>1 DEF Addresses
  <2>2. PICK p \in P : p.metric <= m
    BY <2>1 DEF Tiled
  <2> QED
    BY <2>2 DEF Metrics
<1>3. PICK k \in K : \A j \in K : j <= k
  <2>1. K \in SUBSET Nat /\ \A x \in K : x <= m
    BY <1>1
  <2> HIDE DEF K
  <2> QED
    BY <1>2, <2>1, GreatestNat
<1>4. \A p \in P : p.metric <= m => p.metric <= k
    BY <1>3 DEF Metrics
<1>5. Tiled(P, k)
    BY <1>4 DEF Tiled
<1> QED
    BY <1>3, <1>5

\* Over any finite table the metric reported is the least that tiles.
LEMMA SweepIsRight == GuardInv => SweepIsCover
<1> SUFFICES ASSUME GuardInv, NEW i \in Ifaces, NEW f \in Families
             PROVE  IF familyDefault(i, f) = -1
                      THEN ~Tiled(routeCover(i, f), MaxMetric)
                      ELSE /\ Tiled(routeCover(i, f), familyDefault(i, f))
                           /\ \A m \in 0..(familyDefault(i, f) - 1) : ~Tiled(routeCover(i, f), m)
    BY DEF SweepIsCover, Tiled
<1> DEFINE P == routeCover(i, f)
           enough == {m \in Metrics(P) : coversWithin(P, m)}
           d == familyDefault(i, f)
<1>1. P \in SUBSET CoverPrefixes /\ IsFiniteSet(P)
    BY CoverFacts
<1>2. d = IF enough = {} THEN -1 ELSE CHOOSE m \in enough : \A n \in enough : m <= n
    BY DEF familyDefault, coverMetric
<1>3. MaxMetric \in Nat
    BY TunGuardAssumption
<1> HIDE DEF P, d
<1>4. enough = {m \in Metrics(P) : Tiled(P, m)}
    BY <1>1, SweepTiles
<1>5. Metrics(P) \in SUBSET Nat
    BY <1>1 DEF Metrics, CoverPrefixes
<1>6. \A m \in Nat : Tiled(P, m) => \E k \in enough : k <= m
    BY <1>1, <1>4, TiledAtMetric
<1> HIDE DEF enough
<1>7. CASE enough = {}
    BY <1>2, <1>3, <1>6, <1>7 DEF P, d
<1>8. CASE enough # {}
  <2>1. PICK least \in enough : \A n \in enough : least <= n
    <3>1. enough \in SUBSET Nat
      BY <1>4, <1>5
    <3> QED
      BY <1>8, <3>1, LeastNat
  <2>2. d \in enough /\ \A n \in enough : d <= n
    BY <1>2, <1>8, <2>1
  <2>3. d \in Nat /\ Tiled(P, d) /\ d # -1
    BY <1>4, <1>5, <2>2
  <2>4. \A m \in 0..(d - 1) : ~Tiled(P, m)
    <3>1. SUFFICES ASSUME NEW m \in 0..(d - 1), Tiled(P, m) PROVE FALSE
      OBVIOUS
    <3>2. m \in Nat /\ m < d
      BY <2>3
    <3>3. PICK k \in enough : k <= m
      BY <1>6, <3>1, <3>2
    <3>4. d <= k /\ k \in Nat
      BY <1>4, <1>5, <2>2, <3>3
    <3> QED
      BY <2>3, <3>2, <3>3, <3>4
  <2> QED
    BY <2>3, <2>4 DEF P, d
<1> QED
    BY <1>7, <1>8

\* The check starts with an empty table.
LEMMA GuardInit == LaunchInit => GuardInv
    BY FS_EmptySet DEF LaunchInit, ScanInit, GuardInv

\* Every step of the check keeps the table finite.
LEMMA GuardNext == GuardInv /\ [LaunchNext]_launchVars => GuardInv'
<1> SUFFICES ASSUME GuardInv, [LaunchNext]_launchVars PROVE GuardInv'
    OBVIOUS
<1>1. CASE readRoutes
  <2>1. PICK r \in Rows \ table : table' = table \cup {r}
    BY <1>1 DEF readRoutes
  <2> QED
    BY <1>1, <2>1, FS_AddElement DEF readRoutes, GuardInv
<1>2. CASE Unchecked \/ checkTunConflict
    BY <1>2, FS_EmptySet DEF Unchecked, checkTunConflict, GuardInv
<1>3. CASE UNCHANGED guardVars
    BY <1>3 DEF guardVars, GuardInv
<1> QED
    BY <1>1, <1>2, <1>3 DEF LaunchNext, ScanNext, launchVars

\* For every width of an address and every route table: an interface is
\* reported as capturing a family at exactly the least metric at which its
\* routes leave no address uncovered (coverMetric, coversWithin).
THEOREM SweepAlwaysCovers == LaunchSpec => []SweepIsCover
    BY GuardInit, GuardNext, SweepIsRight, PTL DEF LaunchSpec

\* A connect on one machine is the runner's specification with a check before
\* it: what is proved of the runner holds of it.
THEOREM LaunchIsRunner == LaunchSpec => Spec /\ []EngineIsOwned /\ []LastWordsKept
<1>1. LaunchInit => Init
    BY DEF LaunchInit
<1>2. [LaunchNext]_launchVars => [Next]_vars
    BY DEF LaunchNext, launchVars
<1>3. LaunchSpec => Spec
    BY <1>1, <1>2, PTL DEF LaunchSpec, Spec
<1> QED
    BY <1>3, RunnerOwnsEngine, RunnerKeepsLastWords, PTL

-----------------------------------------------------------------------------
(***************************************************************************)
(* Why a connect is refused, whatever the uplinks are.                     *)
(***************************************************************************)

\* No physical interface is ours or looks like a tunnel.
UplinksArePlain ==
    \A i \in Ifaces : i.physical => ~i.ours /\ ~i.named /\ ~i.iftype

\* A row that holds an address is in the accumulator at its effective metric.
LEMMA RowIsCounted ==
    ASSUME GuardInv, known, NEW r \in table, NEW a, Holds(r, a)
    PROVE  /\ r \in Rows /\ r.iface \in Ifaces /\ r.family \in Families
           /\ Effective(r) \in 0..MaxMetric
           /\ \E p \in routeCover(r.iface, r.family) :
                p.ones = r.ones /\ p.addr = r.dest /\ p.metric = Effective(r)
<1>1. r \in Rows
    BY DEF GuardInv
<1>2. r.iface \in Ifaces /\ r.family \in Families /\ r.metric \in 0..MaxMetric
    BY <1>1, TunGuardAssumption
<1>3. r.iface.metric[r.family] \in 0..MaxMetric /\ MaxMetric \in Nat
    BY <1>2, TunGuardAssumption
<1>4. Effective(r) \in 0..MaxMetric
    BY <1>2, <1>3 DEF Effective, addMetric
<1>5. ifaceMetric(r.iface, r.family) = r.iface.metric[r.family]
    BY DEF ifaceMetric
<1> DEFINE p == [ones |-> r.ones, addr |-> r.dest, metric |-> addMetric(r.metric, ifaceMetric(r.iface, r.family))]
<1>6. p \in routeCover(r.iface, r.family)
    BY DEF routeCover, Holds
<1>7. p.ones = r.ones /\ p.addr = r.dest /\ p.metric = Effective(r)
    BY <1>5 DEF Effective
<1> QED
    BY <1>1, <1>2, <1>4, <1>6, <1>7

\* And what the accumulator holds was a row.
LEMMA CountedIsRow ==
    ASSUME GuardInv, known, NEW i, NEW f, NEW p \in routeCover(i, f), NEW a,
           p.addr <= a, a < p.addr + Shift[Bits - p.ones]
    PROVE  \E r \in table : r.iface = i /\ r.family = f /\ Holds(r, a) /\ Effective(r) = p.metric
<1>1. PICK r \in table :
        /\ r.iface = i /\ r.family = f /\ isNetworkAddress(r.dest, r.ones)
        /\ p = [ones |-> r.ones, addr |-> r.dest, metric |-> addMetric(r.metric, ifaceMetric(i, f))]
    BY DEF routeCover
<1>2. p.ones = r.ones /\ p.addr = r.dest /\ p.metric = addMetric(r.metric, ifaceMetric(i, f))
    BY <1>1
<1>3. ifaceMetric(i, f) = i.metric[f]
    BY DEF ifaceMetric
<1>4. Effective(r) = p.metric
    BY <1>1, <1>2, <1>3 DEF Effective
<1> QED
    BY <1>1, <1>2, <1>4 DEF Holds

LEMMA DefaultType ==
    ASSUME GuardInv, NEW i \in Ifaces, NEW f \in Families
    PROVE  familyDefault(i, f) \in Nat \cup {-1}
<1> DEFINE P == routeCover(i, f)
           enough == {m \in Metrics(P) : coversWithin(P, m)}
           d == familyDefault(i, f)
<1>1. d = IF enough = {} THEN -1 ELSE CHOOSE m \in enough : \A n \in enough : m <= n
    BY DEF familyDefault, coverMetric
<1>2. enough \in SUBSET Nat
  <2>1. P \in SUBSET CoverPrefixes
    BY CoverFacts
  <2> QED
    BY <2>1 DEF Metrics, CoverPrefixes
<1> HIDE DEF enough, d
<1>3. ASSUME enough # {} PROVE d \in enough
  <2>1. \E m \in enough : \A n \in enough : m <= n
    BY <1>2, <1>3, LeastNat
  <2> QED
    BY <1>1, <1>3, <2>1
<1> QED
    BY <1>1, <1>2, <1>3 DEF d

\* No interface that counts as an uplink has a lower default metric.
LEMMA UplinkIsLeast ==
    ASSUME GuardInv, NEW f \in Families, NEW j \in Interfaces, ~IsTunnelIface(j), ~isOwn(j),
           familyDefault(j, f) # -1
    PROVE  uplinkMetric(f) \in Nat /\ uplinkMetric(f) <= familyDefault(j, f)
<1> DEFINE metrics == {familyDefault(i, f) : i \in {i \in Interfaces : ~IsTunnelIface(i) /\ ~isOwn(i)}} \ {-1}
           u == uplinkMetric(f)
<1>1. u = IF metrics = {} THEN -1 ELSE CHOOSE m \in metrics : \A n \in metrics : m <= n
    BY DEF uplinkMetric
<1>2. metrics \in SUBSET Nat
  <2>1. Interfaces \subseteq Ifaces
    BY DEF Interfaces
  <2> QED
    BY <2>1, DefaultType
<1>3. familyDefault(j, f) \in metrics
    OBVIOUS
<1> HIDE DEF metrics, u
<1>4. PICK m \in metrics : \A n \in metrics : m <= n
    BY <1>2, <1>3, LeastNat
<1>5. u \in metrics /\ \A n \in metrics : u <= n
    BY <1>1, <1>3, <1>4
<1> QED
    BY <1>2, <1>3, <1>5 DEF u

\* A live physical default route is counted: some interface the guard takes for
\* an uplink has a default metric, and none above what that route costs.
LEMMA DefaultIsUplink ==
    ASSUME UplinksArePlain, GuardInv, known, NEW f \in Families, NEW s \in Live(f),
           s.iface.physical, s.ones = 0, NEW a, Holds(s, a)
    PROVE  uplinkMetric(f) \in Nat /\ uplinkMetric(f) <= Effective(s)
<1> DEFINE j == s.iface
           u == familyDefault(j, f)
<1>1. s \in table /\ s \in Rows /\ j.up /\ s.family = f
    BY DEF Live, GuardInv
<1>2. /\ j \in Ifaces /\ Effective(s) \in 0..MaxMetric
      /\ \E p \in routeCover(j, f) :
           p.ones = s.ones /\ p.addr = s.dest /\ p.metric = Effective(s)
    BY <1>1, RowIsCounted
<1>3. j \in Interfaces /\ ~IsTunnelIface(j) /\ ~isOwn(j)
    BY <1>1, <1>2 DEF UplinksArePlain, Interfaces, IsTunnelIface, isOwn
<1>4. PICK p \in routeCover(j, f) : p.ones = s.ones /\ p.addr = s.dest /\ p.metric = Effective(s)
    BY <1>2
<1>5. Bits - 0 = Bits /\ Total \in Nat \ {0} /\ MaxMetric \in Nat /\ s.dest \in Addresses
    BY <1>1, ShiftFacts, TunGuardAssumption DEF Total
<1>6. s.dest = 0
  <2>1. s.dest % Total = 0
    BY <1>5 DEF Holds, isNetworkAddress, Total
  <2> QED
    BY <1>5, <2>1 DEF Addresses
<1>7. ASSUME NEW n \in Nat, Effective(s) <= n PROVE Tiled(routeCover(j, f), n)
  <2>1. p.addr = 0 /\ Shift[Bits - p.ones] = Total /\ p.metric <= n
    BY <1>4, <1>5, <1>6, <1>7 DEF Total
  <2>2. \A b \in Addresses : 0 <= b /\ b < 0 + Total
    BY <1>5 DEF Addresses
  <2> QED
    BY <2>1, <2>2 DEF Tiled
<1>8. IF u = -1 THEN ~Tiled(routeCover(j, f), MaxMetric)
                ELSE \A n \in 0..(u - 1) : ~Tiled(routeCover(j, f), n)
    BY <1>2, SweepIsRight DEF SweepIsCover, Tiled
<1>9. u \in Nat \cup {-1}
    BY <1>2, DefaultType
<1> HIDE DEF u
<1>10. u # -1 /\ u <= Effective(s)
  <2>1. Effective(s) \in Nat /\ Effective(s) <= MaxMetric
    BY <1>2, <1>5
  <2>2. Tiled(routeCover(j, f), MaxMetric) /\ Tiled(routeCover(j, f), Effective(s))
    BY <1>5, <1>7, <2>1
  <2> HIDE DEF j
  <2> QED
    BY <1>8, <1>9, <2>1, <2>2
<1>11. uplinkMetric(f) \in Nat /\ uplinkMetric(f) <= u
    BY <1>3, <1>10, UplinkIsLeast DEF u
<1> QED
    BY <1>2, <1>9, <1>10, <1>11

\* Where the uplinks' own split routes leave an address out, no physical route
\* there beats a default at a metric the guard refuses for.
LEMMA AddressIsOpen ==
    ASSUME UplinksArePlain, GuardInv, known, NEW i \in Ifaces, NEW f \in Families,
           winsRoute(i, f), ~Overridden(f)
    PROVE  \E a \in Addresses : \A s \in Live(f) :
               s.iface.physical /\ Holds(s, a) => s.ones = 0 /\ familyDefault(i, f) <= Effective(s)
<1>1. PICK a \in Addresses : ~\E s \in Live(f) : s.iface.physical /\ s.ones > 0 /\ Holds(s, a)
    BY DEF Overridden
<1>2. ASSUME NEW s \in Live(f), s.iface.physical, Holds(s, a)
      PROVE  s.ones = 0 /\ familyDefault(i, f) <= Effective(s)
  <2>1. s \in table /\ s \in Rows
    BY DEF Live, GuardInv
  <2>2. s.ones \in 0..Bits
    BY <2>1, TunGuardAssumption
  <2>3. s.ones = 0
    BY <1>1, <1>2, <2>2, TunGuardAssumption
  <2>4. uplinkMetric(f) \in Nat /\ uplinkMetric(f) <= Effective(s)
    BY <1>2, <2>3, DefaultIsUplink
  <2>5. familyDefault(i, f) <= uplinkMetric(f)
    BY <2>4 DEF winsRoute
  <2>6. familyDefault(i, f) \in Int /\ Effective(s) \in Int
    BY <1>2, <2>1, DefaultType, RowIsCounted
  <2> QED
    BY <2>3, <2>4, <2>5, <2>6
<1> QED
    BY <1>1, <1>2

\* An interface the guard refuses for may carry a packet: some address of the
\* family it captures is left to it, unless the uplinks' own split routes take
\* the whole family.
LEMMA ConflictCarries ==
    ASSUME UplinksArePlain, GuardInv, known, NEW i \in Conflicts
    PROVE  /\ i.up /\ ~i.physical /\ ~i.ours
           /\ \E f \in Families : /\ familyDefault(i, f) # -1
                                  /\ Overridden(f) \/ \E a \in Addresses : MayCarry(i, f, a)
<1>1. PICK f \in Families : winsRoute(i, f)
    BY DEF Conflicts
<1>2. i \in Ifaces /\ i.up /\ ~i.ours /\ ~i.physical
    BY DEF Conflicts, Interfaces, isOwn, IsTunnelIface, UplinksArePlain
<1> DEFINE m == familyDefault(i, f)
<1>3. m \in Nat /\ m # -1
    BY <1>1, <1>2, DefaultType DEF winsRoute
<1> SUFFICES ASSUME ~Overridden(f) PROVE \E a \in Addresses : MayCarry(i, f, a)
    BY <1>2, <1>3
<1>4. Tiled(routeCover(i, f), m)
    BY <1>1, <1>2, SweepIsRight DEF SweepIsCover, Tiled, winsRoute
<1>5. PICK a \in Addresses : \A s \in Live(f) :
        s.iface.physical /\ Holds(s, a) => s.ones = 0 /\ m <= Effective(s)
    BY <1>1, <1>2, AddressIsOpen
<1>6. PICK p \in routeCover(i, f) : p.metric <= m /\ p.addr <= a /\ a < p.addr + Shift[Bits - p.ones]
    BY <1>4 DEF Tiled
<1>7. PICK r \in table : r.iface = i /\ r.family = f /\ Holds(r, a) /\ Effective(r) = p.metric
    BY <1>6, CountedIsRow
<1>8. r \in Live(f) /\ r.ones \in Nat /\ Effective(r) \in Nat
  <2>1. r \in Rows /\ Effective(r) \in 0..MaxMetric
    BY <1>7, RowIsCounted
  <2>2. r.ones \in 0..Bits
    BY <2>1, TunGuardAssumption
  <2> QED
    BY <1>2, <1>7, <2>1, <2>2 DEF Live
<1> HIDE DEF m
<1>9. ASSUME NEW s \in Live(f), s.iface.physical, Holds(s, a) PROVE ~Preferred(s, r)
  <2>1. s \in table
    BY DEF Live
  <2>2. Effective(s) \in Nat
    BY <1>9, <2>1, RowIsCounted
  <2>3. s.ones = 0 /\ m <= Effective(s)
    BY <1>5, <1>9
  <2>4. Effective(r) <= m
    BY <1>6, <1>7
  <2> HIDE DEF Preferred
  <2>5. ~(s.ones > r.ones) /\ ~(Effective(s) < Effective(r))
    BY <1>3, <1>8, <2>2, <2>3, <2>4
  <2> QED
    BY <2>5 DEF Preferred
<1>10. MayCarry(i, f, a)
    BY <1>7, <1>8, <1>9 DEF MayCarry
<1> QED
    BY <1>10

\* A connect is refused for a reason (checkTunConflict, tunguard.Check), whatever
\* the table holds and however many uplinks there are: each interface the refusal
\* names is another client's, and there is an address whose packets it may carry,
\* or the uplinks' own split routes cover that family.  The guard compares default
\* metrics only, so it cannot tell that second case from the first.
THEOREM RefusalHasReason == UplinksArePlain => (LaunchSpec => RefusalIsJustified)
<1> SUFFICES ASSUME UplinksArePlain PROVE LaunchSpec => RefusalIsJustified
    OBVIOUS
<1> DEFINE Reason ==
        checkTunConflict /\ known /\ verdict' = "refused" =>
            /\ Conflicts # {}
            /\ \A i \in Conflicts :
                  /\ i.up /\ ~i.physical /\ ~i.ours
                  /\ \E f \in Families : /\ familyDefault(i, f) # -1
                                         /\ Overridden(f) \/ \E a \in Addresses : MayCarry(i, f, a)
<1>1. GuardInv => Reason
  <2>1. SUFFICES ASSUME GuardInv, checkTunConflict, known, verdict' = "refused"
                 PROVE  /\ Conflicts # {}
                        /\ \A i \in Conflicts :
                              /\ i.up /\ ~i.physical /\ ~i.ours
                              /\ \E f \in Families :
                                    /\ familyDefault(i, f) # -1
                                    /\ Overridden(f) \/ \E a \in Addresses : MayCarry(i, f, a)
    OBVIOUS
  <2>2. Conflicts # {}
    BY <2>1 DEF checkTunConflict
  <2> QED
    BY <2>1, <2>2, ConflictCarries
<1>2. LaunchSpec => [](GuardInv)
    BY GuardInit, GuardNext, PTL DEF LaunchSpec
<1>3. LaunchSpec => [][Reason]_guardVars
    BY <1>1, <1>2, PTL
<1> QED
    BY <1>3 DEF RefusalIsJustified
=============================================================================
