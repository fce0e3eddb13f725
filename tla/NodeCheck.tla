----------------------------- MODULE NodeCheck -----------------------------
(***************************************************************************)
(* check_nodes: a probe process with a loopback listener per node is       *)
(* started, on another block of ports when it loses the race for the first *)
(* one, every node is measured through its listener, a few at a time and   *)
(* within a budget, and the nodes are ranked by what came back.            *)
(*                                                                         *)
(* A node is a position in the profile; two positions may hold one server  *)
(* and share its id.  A target answers with a round-trip, fails, or is not *)
(* reached before the budget ends.  The order of a node's targets carries  *)
(* no information, so its answers are kept as a sorted sequence.           *)
(***************************************************************************)
EXTENDS Naturals, Sequences, SequencesExt, FiniteSets, Sorting

CONSTANTS
    Servers,             \* the ids of the profile's servers, in order
    Targets,             \* how many targets a node is measured against
    MaxAnswer,              \* bound on a round-trip
    checkFanout,         \* nodes measured at a time
    probeStartAttempts,
    Ports,               \* the loopback ports, 1 the first of the preferred block
    MaxChecks            \* bound on the requests

ASSUME NodeCheckAssumption ==
    /\ Servers \in Seq(Range(Servers)) /\ Len(Servers) > 0
    /\ Targets \in Nat \ {0} /\ MaxAnswer \in Nat \ {0}
    /\ checkFanout \in Nat \ {0} /\ probeStartAttempts \in Nat \ {0}
    /\ Ports \in Nat /\ MaxChecks \in Nat

Nodes == DOMAIN Servers
NoId == "none"

VARIABLES
    step,      \* of the check that holds checkRunning, "none" if no check does
    attempt,   \* its attempt to start a probe
    tried,     \* the first ports of the blocks it has tried
    probes,    \* the attempts whose process has not been stopped
    died,      \* the process of this attempt is dead
    exited,    \* and runner.Done() can be read: its reaper is through
    budget,    \* the context of the measurement has ended
    launched,  \* nodes a worker was started for, in order
    late,      \* those that were started through a dead process
    inflight,  \* nodes being measured
    answers,   \* what came back through each node, <<>> while not measured
    waiting,   \* requests that have not reached the slot
    asked,     \* requests made
    connected,  \* the node the tunnel is connected to, or NoId
    reply      \* the last reply, until the next check begins

processVars == <<probes, died, exited>>
poolVars == <<launched, late, inflight, answers>>
requestVars == <<waiting, asked, connected>>
checkVars == <<step, attempt, tried, processVars, budget, poolVars, requestVars, reply>>

(***************************************************************************)
(* What an answer is worth: NodeResult.                                    *)
(***************************************************************************)
fail == MaxAnswer + 1
Unreachable == MaxAnswer + 1

\* The answers of at most all targets, in ascending order; none if the node was
\* not reached.
Answers == {a \in BoundedSeq(1..fail, Targets) : \A i \in 1..(Len(a) - 1) : a[i] <= a[i + 1]}

okCount(a) == Cardinality({i \in DOMAIN a : a[i] # fail})

\* A strict majority of the targets that were probed.
Usable(a) == Len(a) > 0 /\ okCount(a) * 2 > Len(a)

\* The median round-trip of the targets that succeeded, the lower of two.
Score(a) == IF okCount(a) = 0 THEN Unreachable ELSE a[((okCount(a) - 1) \div 2) + 1]

\* Where the id first occurs, the last tiebreak but for the order of the input.
firstIndex(n) == Min({m \in Nodes : Servers[m] = Servers[n]})

\* m is the previously good server, and n another.
wasGood(good, m, n) == good # NoId /\ Servers[m] = good /\ Servers[n] # good

\* Rank()'s order of two positions, made total by the stability of the sort.
before(as, good, m, n) ==
    LET a == as[m]
        b == as[n]
    IN  \/ Usable(a) /\ ~Usable(b)
        \/ /\ Usable(a) <=> Usable(b)
           /\ \/ okCount(a) > okCount(b)
              \/ okCount(a) = okCount(b) /\ Score(a) < Score(b)
              \/ /\ okCount(a) = okCount(b) /\ Score(a) = Score(b)
                 /\ \/ wasGood(good, m, n)
                    \/ /\ ~wasGood(good, n, m)
                       /\ firstIndex(m) < firstIndex(n) \/ (firstIndex(m) = firstIndex(n) /\ m < n)

\* Rank(): the positions, best first.
Rank(as, good) == sorted(Nodes, {p \in Nodes \X Nodes : before(as, good, p[1], p[2])})

\* Best(): the first of the ranked nodes, if it is usable; 0 if there is none.
Best(as, good) ==
    LET first == Head(Rank(as, good)) IN IF Usable(as[first]) THEN first ELSE 0

NoReply == [kind |-> "none", answers |-> [n \in Nodes |-> <<>>], best |-> 0, good |-> NoId,
            exited |-> FALSE, late |-> {}]
Error == [NoReply EXCEPT !.kind = "error"]

(***************************************************************************)
(* The run.                                                                *)
(***************************************************************************)
Unprobed == [n \in Nodes |-> <<>>]

CheckInit ==
    /\ step = "none" /\ attempt = 0 /\ tried = {} /\ probes = {}
    /\ died = FALSE /\ exited = FALSE /\ budget = FALSE
    /\ launched = 0 /\ late = {} /\ inflight = {} /\ answers = Unprobed
    /\ waiting = 0 /\ asked = 0 /\ connected = NoId /\ reply = NoReply

\* A client asks; its request runs in the background of its session.
Ask ==
    /\ asked < MaxChecks
    /\ asked' = asked + 1 /\ waiting' = waiting + 1
    /\ UNCHANGED <<step, attempt, tried, processVars, budget, poolVars, connected, reply>>

\* The tunnel, meanwhile, connects to a node or comes down.
StateChanges(good) ==
    /\ connected # good /\ connected' = good
    /\ UNCHANGED <<step, attempt, tried, processVars, budget, poolVars, waiting, asked, reply>>

\* handleCheckNodes() up to the slot: no profile, no runner or no node that can
\* be probed, or another check holds checkRunning.
Refuse ==
    /\ waiting > 0
    /\ waiting' = waiting - 1
    /\ UNCHANGED <<step, attempt, tried, processVars, budget, poolVars, asked, connected, reply>>

\* The compare-and-swap on checkRunning succeeds and the budget starts to run.
Begin ==
    /\ waiting > 0 /\ step = "none"
    /\ waiting' = waiting - 1 /\ step' = "launch" /\ attempt' = 1
    /\ reply' = NoReply
    /\ UNCHANGED <<tried, processVars, budget, poolVars, asked, connected>>

\* Every return: stopProcess() for the attempt's process, then the slot.
Return(r) ==
    /\ probes' = probes \ {attempt}
    /\ step' = "none" /\ attempt' = 0 /\ tried' = {}
    /\ died' = FALSE /\ exited' = FALSE /\ budget' = FALSE
    /\ launched' = 0 /\ late' = {} /\ inflight' = {} /\ answers' = Unprobed
    /\ reply' = r

\* Out of budget, or the client's session ended: the context of the check.
BudgetEnds ==
    /\ step # "none" /\ ~budget
    /\ budget' = TRUE
    /\ UNCHANGED <<step, attempt, tried, processVars, poolVars, requestVars, reply>>

\* The probe process dies.  Nothing in the core can tell yet.
ProbeDies ==
    /\ attempt \in probes /\ ~died
    /\ died' = TRUE
    /\ UNCHANGED <<step, attempt, tried, probes, exited, budget, poolVars, requestVars, reply>>

\* Its reaper has waited for it and its pipes, flushed its log and cleared the
\* runner: it sends the exit on done and closes it, so done stays readable.
PublishExit ==
    /\ died /\ ~exited
    /\ exited' = TRUE
    /\ UNCHANGED <<step, attempt, tried, probes, died, budget, poolVars, requestVars, reply>>

\* overlapsProbeSpan(): a block shares a port with one tried before.
overlapsProbeSpan(base, spans) ==
    \E t \in spans : base <= t + Len(Servers) - 1 /\ t <= base + Len(Servers) - 1

\* reserveProbePortBlock(): the first block that can be bound whole and was not
\* tried, 0 if there is none.
reserveProbePortBlock(busy, spans) ==
    LET free == {b \in 1..(Ports + 1 - Len(Servers)) :
                    /\ ~overlapsProbeSpan(b, spans)
                    /\ (b..(b + Len(Servers) - 1)) \cap busy = {}}
    IN  IF free = {} THEN 0 ELSE Min(free)

\* The attempt lost its ports: another one, if any is left.
Retry(spans) ==
    /\ attempt < probeStartAttempts
    /\ probes' = probes \ {attempt}
    /\ step' = "launch" /\ attempt' = attempt + 1 /\ tried' = spans
    /\ died' = FALSE /\ exited' = FALSE
    /\ UNCHANGED <<budget, poolVars, reply>>

\* One attempt: the block is held until right before the process starts; the
\* start succeeds, fails, or finds a port taken since.
Launch ==
    /\ step = "launch"
    /\ \E busy \in SUBSET (1..Ports) :
          LET base == reserveProbePortBlock(busy, tried)
          IN  \/ Return(Error)
              \/ base # 0 /\ Retry(tried \cup {base})
              \/ /\ base # 0
                 /\ probes' = probes \cup {attempt} /\ step' = "ready" /\ tried' = tried \cup {base}
                 /\ UNCHANGED <<attempt, died, exited, budget, poolVars, reply>>
    /\ UNCHANGED requestVars

\* A faulty wait that retries without stopping the process it gave up on.
ListenersLeaky ==
    /\ step = "ready"
    /\ \/ Return(Error)
       \/ /\ attempt < probeStartAttempts
          /\ step' = "launch" /\ attempt' = attempt + 1 /\ died' = FALSE /\ exited' = FALSE
          /\ UNCHANGED <<tried, probes, budget, poolVars, reply>>
       \/ /\ ~exited /\ step' = "measure"
          /\ UNCHANGED <<attempt, tried, processVars, budget, poolVars, reply>>
    /\ UNCHANGED requestVars

\* waitForProbeListeners(): every listener answered with this run's secret and
\* done cannot be read, although the process may have died since; or it can, a
\* foreign listener answered, or the time ran out, which ends the check or, for
\* a lost port, the attempt.
WaitForProbeListeners ==
    /\ step = "ready"
    /\ \/ Return(Error)
       \/ Retry(tried)
       \/ /\ ~exited /\ step' = "measure"
          /\ UNCHANGED <<attempt, tried, processVars, budget, poolVars, reply>>
    /\ UNCHANGED requestVars

\* probeBindings(): the next node takes a place, unless the budget is gone.  Of a
\* free place and a readable done the select takes either, and it may choose the
\* place; with done it stops launching, which here is launching no more.
LaunchNode(n) ==
    /\ step = "measure" /\ ~budget
    /\ n = launched + 1 /\ Cardinality(inflight) < checkFanout
    /\ launched' = n
    /\ late' = IF died THEN late \cup {n} ELSE late
    /\ inflight' = inflight \cup {n}
    /\ UNCHANGED <<step, attempt, tried, processVars, budget, answers, requestVars, reply>>

\* probeNode(): all targets of the node have answered or failed.  Fewer than all
\* were started if the budget ended first or done was read, which cancels the
\* rest.  A node started through a dead process reaches nothing; one that was
\* under way when it died may have had some of its answers.
ProbeNode(n) ==
    /\ n \in inflight
    /\ \E a \in Answers :
          /\ Len(a) < Targets => budget \/ exited
          /\ n \in late => okCount(a) = 0
          /\ answers' = [answers EXCEPT ![n] = a]
    /\ inflight' = inflight \ {n}
    /\ UNCHANGED <<step, attempt, tried, processVars, budget, launched, late, requestVars, reply>>

Ranked == [kind |-> "results", answers |-> answers, best |-> Best(answers, connected),
           good |-> connected, exited |-> exited, late |-> late]

\* A faulty end that waits for nodes the budget will not let start.
FinishAllMeasured ==
    /\ step = "measure" /\ inflight = {}
    /\ exited \/ launched = Len(Servers)
    /\ IF exited THEN Return(Error) ELSE Return(Ranked)
    /\ UNCHANGED requestVars

\* The workers are joined.  An exit that can be read then, even one of the instant
\* the last of them was finishing, makes it an error; otherwise what was measured
\* is ranked, also when the process is dead and nothing says so yet.
Finish ==
    /\ step = "measure" /\ inflight = {}
    /\ budget \/ exited \/ launched = Len(Servers)
    /\ IF exited THEN Return(Error) ELSE Return(Ranked)
    /\ UNCHANGED requestVars

CheckNext ==
    \/ Ask \/ Refuse \/ Begin \/ BudgetEnds \/ ProbeDies \/ PublishExit
    \/ Launch \/ WaitForProbeListeners \/ Finish
    \/ \E n \in Nodes : LaunchNode(n) \/ ProbeNode(n)
    \/ \E good \in Range(Servers) \cup {NoId} : StateChanges(good)

CheckSpec == CheckInit /\ [][CheckNext]_checkVars

\* The handler's goroutines keep running; listeners, probes and process starts
\* have deadlines of their own.
FairCheckSpec ==
    /\ CheckSpec
    /\ WF_checkVars(Refuse \/ Begin) /\ WF_checkVars(Launch) /\ WF_checkVars(WaitForProbeListeners)
    /\ WF_checkVars(Finish)
    /\ \A n \in Nodes : WF_checkVars(LaunchNode(n)) /\ WF_checkVars(ProbeNode(n))

(***************************************************************************)
(* Properties.                                                             *)
(***************************************************************************)
\* Every variable stays in its domain; no more nodes are measured at a time than
\* the fan-out allows.
CheckTypes ==
    /\ step \in {"none", "launch", "ready", "measure"}
    /\ attempt \in 0..probeStartAttempts /\ tried \subseteq 1..Ports
    /\ probes \subseteq 1..probeStartAttempts
    /\ died \in BOOLEAN /\ exited \in BOOLEAN /\ budget \in BOOLEAN
    /\ launched \in 0..Len(Servers) /\ late \subseteq Nodes
    /\ inflight \subseteq Nodes /\ Cardinality(inflight) <= checkFanout
    /\ answers \in [Nodes -> Answers]
    /\ waiting \in 0..MaxChecks /\ asked \in 0..MaxChecks
    /\ connected \in Range(Servers) \cup {NoId}
    /\ reply.kind \in {"none", "error", "results"} /\ reply.answers \in [Nodes -> Answers]
    /\ reply.best \in Nodes \cup {0}

\* A check has one probe process at a time and leaves none behind: whichever
\* attempt lost its ports, died or was cancelled, its process was stopped before
\* the next began and before the slot was free for another check.
ProbeIsStopped == probes \subseteq (IF step = "none" THEN {} ELSE {attempt})

\* No ranking is returned once the exit of the probe can be read, although it may
\* become readable between the last answer and the reply; and while it cannot, the
\* exit that is named is no node whose every target was asked through the dead
\* process.  (Such a node, and one that was under way when the process died, can
\* stand in that ranking with failures it did not earn.)
NoVerdictFromDeadProbe ==
    reply.kind = "results" => ~reply.exited /\ reply.best \notin reply.late

\* The node offered to auto-select carried a strict majority of what was asked
\* through it; no other node carried more targets, or as many with a lower
\* median; and it is only missing when no node carried a majority.
BestIsBest ==
    reply.kind = "results" =>
        LET As == reply.answers
            carries(a) == 2 * Cardinality({i \in DOMAIN a : a[i] <= MaxAnswer}) > Len(a)
            \* m is a median of the successes: half of them at most, half at least m
            oks(a) == {i \in DOMAIN a : a[i] <= MaxAnswer}
            median(a, m) == /\ 2 * Cardinality({i \in oks(a) : a[i] < m}) < Cardinality(oks(a))
                            /\ 2 * Cardinality({i \in oks(a) : a[i] > m}) <= Cardinality(oks(a))
        IN  IF reply.best = 0 THEN \A n \in Nodes : ~carries(As[n])
            ELSE /\ carries(As[reply.best])
                 /\ \A n \in Nodes :
                       carries(As[n]) =>
                           \/ Cardinality(oks(As[n])) < Cardinality(oks(As[reply.best]))
                           \/ /\ Cardinality(oks(As[n])) = Cardinality(oks(As[reply.best]))
                              /\ \E x, y \in 1..MaxAnswer : /\ median(As[reply.best], x) /\ median(As[n], y)
                                                         /\ x <= y

\* A reported verdict was measured: one probe process at a time and none left
\* behind, no ranking past an exit that could be read, and the exit named carried
\* traffic through the living process and is the best of what was measured.
VerdictsAreMeasured == ProbeIsStopped /\ NoVerdictFromDeadProbe /\ BestIsBest

\* A check that took the slot gives it back and answers, whatever the process,
\* the ports and the nodes do, so measuring can be asked for again.
SlotIsReleased == step # "none" ~> step = "none"
=============================================================================
