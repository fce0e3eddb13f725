------------------------------ MODULE Fallback ------------------------------
(***************************************************************************)
(* The order in which a connect tries its exits: core/fallback's Machine   *)
(* as startConnect builds it (by protocol preference, or by measured       *)
(* round-trip) and runFallback drives it, and the last-good memory that    *)
(* carries one walk's result into the next.                                *)
(*                                                                         *)
(* A candidate is a position in the list startConnect builds.  Its NodeID  *)
(* comes from the server's content, so a subscription that lists a server  *)
(* twice makes two candidates with one NodeID.                             *)
(***************************************************************************)
EXTENDS Naturals, Sequences, SequencesExt, FiniteSets, Sorting

CONSTANTS
    NodeIDs,
    Protocol,      \* Protocol[n]: the protocol of a node
    DefaultOrder,  \* the protocols by preference
    MaxServers,    \* bound on the servers of a profile
    MaxRTT,        \* bound on a measured round-trip
    NONE

ASSUME FallbackAssumption ==
    /\ DefaultOrder \in Seq(Range(DefaultOrder))
    /\ MaxServers \in Nat /\ MaxRTT \in Nat
    /\ NONE \notin NodeIDs \cup 0..MaxRTT

VARIABLES
    lastGood,  \* the node recorded for the profile, or NONE
    machine,   \* the Machine of the connect in flight; its order is of positions
    walking,   \* runFallback is driving it
    avoid,     \* the node a failover asked to avoid, or NONE
    outcome    \* how the last walk ended

vars == <<lastGood, machine, walking, avoid, outcome>>

\* The lists of servers a profile may hold, in the order of the subscription.
Profiles == UNION {[1..k -> NodeIDs] : k \in 1..MaxServers}

(***************************************************************************)
(* The ordering.  a and b are positions in the candidate list.             *)
(***************************************************************************)
\* Index of a protocol in the preference, past its end for an unknown one.
rank(p) ==
    IF p \in Range(DefaultOrder)
    THEN CHOOSE i \in DOMAIN DefaultOrder : DefaultOrder[i] = p
    ELSE Len(DefaultOrder) + 1

\* First position of the last-good node among the candidates, 0 if it has none.
lastIdx(cand, good) ==
    IF good \in Range(cand) THEN Min({i \in DOMAIN cand : cand[i] = good}) ELSE 0

\* Pairs of positions of a candidate list.
pairs(cand) == (DOMAIN cand) \X (DOMAIN cand)

\* In the order of the input.
byInput(cand) == {p \in pairs(cand) : p[1] < p[2]}

\* By protocol, then in input order.
preferred(cand, a, b) ==
    LET ra == rank(Protocol[cand[a]])
        rb == rank(Protocol[cand[b]])
    IN  ra < rb \/ (ra = rb /\ a < b)
byPreference(cand) == {p \in pairs(cand) : preferred(cand, p[1], p[2])}

\* A faulty ordering that leads with last-good and tries it in its place again.
rebuildTwice(cand, good) ==
    LET last == lastIdx(cand, good)
        rest == sorted(DOMAIN cand, byPreference(cand))
    IN  IF last # 0 THEN <<last>> \o rest ELSE rest

\* Last-good leads, the rest follows by preference.
rebuildByPreference(cand, good) ==
    LET last == lastIdx(cand, good)
        rest == sorted(DOMAIN cand \ {last}, byPreference(cand))
    IN  IF last # 0 THEN <<last>> \o rest ELSE rest

unreachableRTT == MaxRTT + 1

\* What pingCandidates() measured: whole milliseconds, NONE for no answer.
Latencies == [NodeIDs -> 0..MaxRTT \cup {NONE}]
Unmeasured == [n \in NodeIDs |-> NONE]
Answered(latency, n) == latency[n] # NONE

\* A node without a positive measurement counts as unreachable.
rttOf(latency, n) ==
    IF Answered(latency, n) /\ latency[n] > 0 THEN latency[n] ELSE unreachableRTT

\* Fastest first; last-good, then input order, only break ties.
less(cand, latency, last, a, b) ==
    LET ra == rttOf(latency, cand[a])
        rb == rttOf(latency, cand[b])
    IN  \/ ra < rb
        \/ ra = rb /\ a = last /\ b # last
        \/ ra = rb /\ a # last /\ b # last /\ a < b
fastest(cand, latency, last) == {p \in pairs(cand) : less(cand, latency, last, p[1], p[2])}

rebuildByLatency(cand, latency, good) ==
    sorted(DOMAIN cand, fastest(cand, latency, lastIdx(cand, good)))

\* Rewind to the front of a freshly resolved order.
rebuild(m, good) ==
    [m EXCEPT !.cursor = 1,
              !.order = IF m.byLatency THEN rebuildByLatency(m.candidates, m.latency, good)
                        ELSE rebuildByPreference(m.candidates, good)]

\* A machine whose order is still to be resolved.
unbuilt(cand, byLatency, latency) ==
    [candidates |-> cand, byLatency |-> byLatency, latency |-> latency,
     order |-> <<>>, cursor |-> 1]

NoMachine == unbuilt(<<>>, FALSE, Unmeasured)

newMachine(cand, good) == rebuild(unbuilt(cand, FALSE, Unmeasured), good)

newByLatency(cand, rtt, good) == rebuild(unbuilt(cand, TRUE, rtt), good)

\* The candidate in flight; Next() reports none once the cursor is past the end.
HasNext(m) == m.cursor <= Len(m.order)
NextAttempt(m) == m.candidates[m.order[m.cursor]]

(***************************************************************************)
(* The walks.                                                              *)
(***************************************************************************)
Init ==
    /\ lastGood \in NodeIDs \cup {NONE}
    /\ machine = NoMachine
    /\ walking = FALSE /\ avoid = NONE /\ outcome = "none"

\* A faulty dropCandidate() that takes the degraded node to be the first.
dropFirst(cand, n) == Tail(cand)

\* dropCandidate(): the candidates but the node a failover runs away from.
dropCandidate(cand, n) ==
    LET kept == sorted({i \in DOMAIN cand : cand[i] # n}, byInput(cand))
    IN  [i \in DOMAIN kept |-> cand[kept[i]]]

\* startConnect(): the candidates of the profile, or of the node asked for, less
\* the one to avoid; an empty set is refused before anything is torn down.  An
\* automatic connect measures the candidates, any of which may not answer.
StartConnect(servers, explicit, auto, leaving) ==
    /\ ~walking
    /\ explicit \in Range(servers) \cup {NONE}
    /\ LET all == IF explicit = NONE THEN servers ELSE <<explicit>>
           cand == IF explicit = NONE /\ leaving # NONE THEN dropCandidate(all, leaving) ELSE all
       IN  /\ cand # <<>>
           /\ avoid' = IF explicit = NONE THEN leaving ELSE NONE
           /\ IF auto /\ explicit = NONE
              THEN \E rtt \in Latencies :
                      /\ \A n \in NodeIDs : Answered(rtt, n) => n \in Range(cand)
                      /\ machine' = newByLatency(cand, rtt, lastGood)
              ELSE machine' = newMachine(cand, lastGood)
    /\ walking' = TRUE /\ outcome' = "none"
    /\ UNCHANGED lastGood

\* runFallback(): the attempt failed; Failure() moves the cursor past it.
Failure ==
    /\ walking /\ HasNext(machine)
    /\ machine' = [machine EXCEPT !.cursor = @ + 1]
    /\ UNCHANGED <<lastGood, walking, avoid, outcome>>

\* recordSuccess(): Success() records the node.  It also rewinds the machine,
\* which runFallback() returns from and drops.
Success ==
    /\ walking /\ HasNext(machine)
    /\ lastGood' = NextAttempt(machine)
    /\ machine' = NoMachine /\ avoid' = NONE
    /\ walking' = FALSE /\ outcome' = "connected"

\* runFallback(): Next() has nothing left and the walk reports its failure.
Exhausted ==
    /\ walking /\ ~HasNext(machine)
    /\ walking' = FALSE /\ outcome' = "exhausted"
    /\ machine' = NoMachine /\ avoid' = NONE
    /\ UNCHANGED lastGood

\* runFallback(): a newer connect or a disconnect has taken over.
Superseded ==
    /\ walking
    /\ walking' = FALSE /\ outcome' = "superseded"
    /\ machine' = NoMachine /\ avoid' = NONE
    /\ UNCHANGED lastGood

\* commitSwitch(): a live switch records the exit it moved to.  It runs on a
\* connected tunnel, whose walk is over.
CommitSwitch(n) ==
    /\ ~walking /\ outcome = "connected"
    /\ lastGood' = n
    /\ UNCHANGED <<machine, walking, avoid, outcome>>

Next ==
    \/ \E servers \in Profiles, explicit, leaving \in NodeIDs \cup {NONE}, auto \in BOOLEAN :
          StartConnect(servers, explicit, auto, leaving)
    \/ Failure \/ Success \/ Exhausted \/ Superseded
    \/ \E n \in NodeIDs : CommitSwitch(n)

Spec == Init /\ [][Next]_vars

(***************************************************************************)
(* Properties.                                                             *)
(***************************************************************************)
\* Every variable stays in its domain; the cursor never runs past the end.
TypeOK ==
    /\ lastGood \in NodeIDs \cup {NONE}
    /\ machine.candidates \in Profiles \cup {<<>>}
    /\ machine.latency \in Latencies
    /\ machine.order \in Seq(1..MaxServers)
    /\ machine.cursor \in 1..(Len(machine.order) + 1)
    /\ walking \in BOOLEAN /\ avoid \in NodeIDs \cup {NONE}
    /\ outcome \in {"none", "connected", "exhausted", "superseded"}

\* A walk tries each candidate at most once, skips none, and gives up only when
\* every one has failed, whatever was measured and remembered: the walk of
\* Session, which keeps no order at all.
AbstractWalk == INSTANCE Walk WITH
    Attempts <- 1..MaxServers,
    candidates <- DOMAIN machine.candidates,
    failed <- machine.cursor - 1,
    todo <- {machine.order[i] : i \in machine.cursor..Len(machine.order)}
ImplementsWalk == AbstractWalk!Spec

\* No candidate is tried while a better one waits behind it.  By latency, a node
\* with a positive round-trip is never tried after a slower or a silent one; by
\* preference, only last-good is tried before a better protocol.
PreferredFirst ==
    walking => \A i, j \in DOMAIN machine.order : i < j =>
        LET a == machine.candidates[machine.order[i]]
            b == machine.candidates[machine.order[j]]
        IN  IF machine.byLatency
            THEN machine.latency[b] \in 1..MaxRTT
                     => machine.latency[a] \in 1..MaxRTT /\ machine.latency[a] <= machine.latency[b]
            ELSE i > 1 \/ a # lastGood => rank(Protocol[a]) <= rank(Protocol[b])

\* What just worked is retried first: a preference walk over candidates with the
\* last-good node among them begins with it, also when it was recorded by a live
\* switch and also after a failover walk that had to leave it out; a latency
\* walk begins with it unless another node was measured faster.
LastGoodLeads ==
    walking /\ lastGood \in Range(machine.candidates) =>
        \/ machine.candidates[machine.order[1]] = lastGood
        \/ /\ machine.byLatency
           /\ \E n \in Range(machine.candidates) :
                 rttOf(machine.latency, n) < rttOf(machine.latency, lastGood)

\* A failover never goes back to the node it is leaving, although that node is
\* the last good one, and its walk is not empty.
FailoverMovesOn ==
    walking /\ avoid # NONE =>
        /\ machine.order # <<>>
        /\ \A i \in DOMAIN machine.order : machine.candidates[machine.order[i]] # avoid

\* The walk is the promised one: better exits first, the remembered one at its
\* head, the one a failover leaves not in it (fallback.go: New, NewByLatency,
\* rebuild; health.go: dropCandidate).
WalkIsOrdered == PreferredFirst /\ LastGoodLeads /\ FailoverMovesOn
=============================================================================
