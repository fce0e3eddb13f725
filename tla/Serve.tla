------------------------------- MODULE Serve -------------------------------
(***************************************************************************)
(* The control server: a Server per client stream with its bounded queue   *)
(* of outgoing frames and the one goroutine that writes it, the request    *)
(* loop with its reader and its background lane, and the two transports    *)
(* that own a Server: ServeListener, where a new client displaces the old  *)
(* one and the daemon outlives both, and Serve over stdio, where the       *)
(* stream is the daemon's lifetime.  Of check_nodes, the command of the    *)
(* lane, this module has the single slot, and NodeCheck the rest.          *)
(*                                                                         *)
(* Sessions are numbered in the order they are accepted.  A client may     *)
(* stop reading or leave at any time.  Frames are an event, numbered in    *)
(* the order of emission, or the response to a request, by its id.         *)
(***************************************************************************)
EXTENDS Naturals, Sequences, SequencesExt, FiniteSets

CONSTANTS
    Transports,    \* of "listener" and "stdio", the ones to serve
    outQueueDepth,
    Cmds,          \* the request lines a client may send
    MaxDials,      \* bound on the connections
    MaxLines,      \* bound on the lines of all clients together
    MaxEvents      \* bound on the events the daemon emits

ASSUME ServeAssumption ==
    /\ Transports \subseteq {"listener", "stdio"}
    /\ outQueueDepth \in Nat \ {0}
    /\ Cmds \subseteq {"status", "check_nodes"}
    /\ MaxDials \in Nat \ {0} /\ MaxLines \in Nat /\ MaxEvents \in Nat

Sessions == 1..MaxDials

VARIABLES
    transport,
    session,   \* what each session's Server, goroutines and client are doing
    emitter,   \* the session the daemon's events go to, 0 for none
    cur,       \* the accept loop's session, 0 for none
    server,    \* where ServeListener, or Serve, stands
    dial,      \* a connection waiting to be accepted: of a peer the policy admits or not
    dials,     \* the connections made
    ctxDone,   \* the serving context is cancelled
    listening, \* the listener is open
    daemon,    \* "up", or "closed" once Close has returned
    events,    \* the events emitted
    lines,     \* the lines sent; their number is the id of the next
    check      \* the request of the node check that holds checkRunning

vars == <<transport, session, emitter, cur, server, dial, dials, ctxDone,
          listening, daemon, events, lines, check>>

\* A step that touches nothing but the sessions.
OnlySession == UNCHANGED <<transport, emitter, cur, server, dial, dials, ctxDone,
                           listening, daemon, events, lines, check>>

(***************************************************************************)
(* State of a session.                                                     *)
(***************************************************************************)
Event(n) == [event |-> TRUE, id |-> n]
Reply(n) == [event |-> FALSE, id |-> n]
Frames == {Event(n) : n \in 1..MaxEvents} \cup {Reply(n) : n \in 1..MaxLines}
NoFrame == Reply(MaxLines + 1)

Lines == [id : 1..MaxLines, cmd : Cmds]
NoLine == [id |-> 0, cmd |-> "none"]

NoSession ==
    [client |-> "none",    \* "there", reading or not, or "gone"
     conn |-> "none",      \* our end: "open", "closed"
     cancelled |-> FALSE,  \* the session's context
     reader |-> "none",    \* "scan", "offer" a line, "eof", "quit" on the context
     offer |-> NoLine,     \* the line the reader has on offer
     req |-> NoLine,       \* the line in the loop's hands
     loop |-> "none",      \* "select", "parked" in it, "handle", "scanerr", "lane", "drain", ...
     lane |-> {},          \* requests running in the background
     queue |-> <<>>, closed |-> FALSE, failed |-> FALSE,
     writer |-> "none",    \* "idle", "write", "done"
     frame |-> NoFrame,    \* the frame in the writer's hands
     owed |-> {},          \* replies handed over and not delivered
     newest |-> 0]         \* the last event handed over and not delivered

\* NewServer(), and the goroutines startSession() or Serve() start around it.
Started ==
    [NoSession EXCEPT !.client = "there", !.conn = "open", !.reader = "scan",
                      !.loop = "select", !.writer = "idle"]

NoCheck == [session |-> 0, id |-> 0]

(***************************************************************************)
(* The queue.                                                              *)
(***************************************************************************)
\* failStreamLocked()
failStream(r) ==
    [r EXCEPT !.failed = TRUE, !.queue = <<>>, !.owed = {}, !.newest = 0]

\* A faulty dropOldestEventLocked() that drops the oldest frame, whatever it is.
dropOldestFrame(queue) == 1

\* dropOldestEventLocked(): where the oldest event is, 0 if all are responses.
dropOldestEvent(queue) ==
    LET found == {i \in DOMAIN queue : queue[i].event}
    IN  IF found = {} THEN 0 ELSE CHOOSE i \in found : \A j \in found : i <= j

\* enqueue(): never blocks; a full queue sheds its oldest event, and a backlog
\* of responses alone ends the stream.
enqueue(r, f) ==
    LET i == dropOldestEvent(r.queue)
        kept == [r EXCEPT !.owed = IF f.event THEN @ ELSE @ \cup {f.id},
                          !.newest = IF f.event THEN f.id ELSE @]
    IN  CASE r.closed \/ r.failed -> r
          [] ~(r.closed \/ r.failed) /\ Len(r.queue) < outQueueDepth ->
                [kept EXCEPT !.queue = Append(@, f)]
          [] ~(r.closed \/ r.failed) /\ Len(r.queue) >= outQueueDepth ->
                IF i = 0 THEN failStream(r)
                ELSE [kept EXCEPT !.queue = Append(RemoveAt(@, i), f)]

\* The session's context ends: the loop and the reader that wait on it wake.
cancel(r) ==
    [r EXCEPT !.cancelled = TRUE,
              !.loop = IF @ = "parked" THEN "lane" ELSE @,
              !.reader = IF @ = "offer" THEN "quit" ELSE @,
              !.offer = NoLine]

\* conn.Close(): what the writer has in its hands, or would take next, fails at once.
closeConn(r) ==
    LET shut == [r EXCEPT !.conn = "closed", !.client = "gone"]
    IN  IF r.writer = "write" \/ r.queue # <<>>
        THEN [failStream(shut) EXCEPT !.writer = "done", !.frame = NoFrame]
        ELSE shut

\* session.close(): cancel and close the stream, without waiting.
close(r) == closeConn(cancel(r))

\* emit(): the event goes to the session the daemon's emitter was last set to.
Emitted(ss, to, n) == IF to = 0 THEN ss ELSE [ss EXCEPT ![to] = enqueue(@, Event(n))]

(***************************************************************************)
(* Initial states: a listener with nobody attached, or a sidecar.          *)
(***************************************************************************)
Init ==
    /\ transport \in Transports
    /\ session = [s \in Sessions |-> IF transport = "stdio" /\ s = 1 THEN Started ELSE NoSession]
    /\ emitter = IF transport = "stdio" THEN 1 ELSE 0
    /\ cur = 0
    /\ server = IF transport = "stdio" THEN "serve" ELSE "accept"
    /\ dial = "none"
    /\ dials = IF transport = "stdio" THEN MaxDials ELSE 0
    /\ ctxDone = FALSE /\ listening = (transport = "listener")
    /\ daemon = "up" /\ events = 0 /\ lines = 0 /\ check = NoCheck

(***************************************************************************)
(* The clients and the daemon around the server.                           *)
(***************************************************************************)
\* A local process connects; the peer policy will admit it or not.
Dial(kind) ==
    /\ listening /\ dial = "none" /\ dials < MaxDials
    /\ dial' = kind /\ dials' = dials + 1
    /\ UNCHANGED <<transport, session, emitter, cur, server, ctxDone, listening, daemon, events, lines, check>>

\* The client goes away.
ClientLeaves(s) ==
    /\ session[s].client = "there"
    /\ session' = [session EXCEPT ![s].client = "gone"]
    /\ OnlySession

\* A poller, a watchdog or a walk of the daemon emits an event; one emitted at a
\* stream that is over changes nothing.
Emit ==
    /\ emitter # 0 /\ events < MaxEvents
    /\ ~session[emitter].closed /\ ~session[emitter].failed
    /\ events' = events + 1
    /\ session' = Emitted(session, emitter, events + 1)
    /\ UNCHANGED <<transport, emitter, cur, server, dial, dials, ctxDone, listening, daemon, lines, check>>

\* The service is told to stop: every session's context ends with it.
Shutdown ==
    /\ ~ctxDone
    /\ ctxDone' = TRUE /\ listening' = FALSE
    /\ session' = [s \in Sessions |->
                      IF session[s].loop \in {"none", "done"} THEN session[s] ELSE cancel(session[s])]
    /\ UNCHANGED <<transport, emitter, cur, server, dial, dials, daemon, events, lines, check>>

(***************************************************************************)
(* The writer: writeLoop() and writeFrame().                               *)
(***************************************************************************)
WriterTakes(s) ==
    /\ session[s].writer = "idle" /\ ~session[s].failed /\ session[s].queue # <<>>
    /\ session' = [session EXCEPT ![s].writer = "write", ![s].frame = Head(session[s].queue),
                                  ![s].queue = Tail(@)]
    /\ OnlySession

WriterStops(s) ==
    /\ session[s].writer = "idle"
    /\ session[s].failed \/ (session[s].closed /\ session[s].queue = <<>>)
    /\ session' = [session EXCEPT ![s].writer = "done"]
    /\ OnlySession

\* The frame leaves, to a client that reads or has buffer for it.
Written(s) ==
    /\ session[s].writer = "write"
    /\ session[s].conn = "open" /\ session[s].client # "gone"
    /\ session' = [session EXCEPT
          ![s].writer = "idle", ![s].frame = NoFrame,
          ![s].owed = IF session[s].frame.event THEN @ ELSE @ \ {session[s].frame.id},
          ![s].newest = IF session[s].frame = Event(@) THEN 0 ELSE @]
    /\ OnlySession

\* The stream is closed, the client is gone, or the write deadline, which the
\* sidecar's stdout does not have, passed on a client that did not read in time.
WriteFails(s) ==
    /\ session[s].writer = "write"
    /\ \/ session[s].conn = "closed" \/ session[s].client = "gone"
       \/ transport = "listener"
    /\ session' = [session EXCEPT ![s] = [failStream(@) EXCEPT !.writer = "done", !.frame = NoFrame]]
    /\ OnlySession

\* startSession()'s watcher: a client that stopped taking delivery is dropped.
DropStalled(s) ==
    /\ transport = "listener"
    /\ session[s].failed /\ ~session[s].cancelled
    /\ session' = [session EXCEPT ![s] = close(@)]
    /\ OnlySession

(***************************************************************************)
(* The request loop: serveStream() and its reader.                         *)
(***************************************************************************)
\* The client sends a line, without waiting for an answer to the one before,
\* and scan.next() returns it: it goes to a loop that waits for it, or is on
\* offer until the loop comes back or the context ends.
ScanLine(s, cmd) ==
    LET r == session[s]
        line == [id |-> lines + 1, cmd |-> cmd]
    IN  /\ r.reader = "scan" /\ r.conn = "open" /\ r.client # "gone"
        /\ lines < MaxLines /\ lines' = lines + 1
        /\ session' = [session EXCEPT ![s] =
              IF r.loop = "parked" THEN [r EXCEPT !.loop = "handle", !.req = line]
              ELSE IF r.cancelled THEN [r EXCEPT !.reader = "quit"]
              ELSE [r EXCEPT !.reader = "offer", !.offer = line]]
        /\ UNCHANGED <<transport, emitter, cur, server, dial, dials, ctxDone, listening, daemon, events, check>>

\* The stream has ended: the reader leaves its error and closes the channel.
ScanEnds(s) ==
    /\ session[s].reader = "scan"
    /\ session[s].conn = "closed" \/ session[s].client = "gone"
    /\ session' = [session EXCEPT ![s].reader = "eof", ![s].loop = IF @ = "parked" THEN "lane" ELSE @]
    /\ OnlySession

\* The loop's select takes any case that is ready, and waits if none is.  The
\* channel is ready, closed, once the reader has ended; a reader that quit on
\* the context has left no error to return, and <-scanErr blocks.
Select(s) ==
    /\ session[s].loop = "select"
    /\ \/ /\ session[s].reader = "offer"
          /\ session' = [session EXCEPT ![s].loop = "handle", ![s].req = session[s].offer,
                                        ![s].reader = "scan", ![s].offer = NoLine]
       \/ /\ session[s].cancelled
          /\ session' = [session EXCEPT ![s].loop = "lane"]
       \/ /\ session[s].reader = "eof"
          /\ session' = [session EXCEPT ![s].loop = "lane"]
       \/ /\ session[s].reader = "quit"
          /\ session' = [session EXCEPT ![s].loop = "scanerr"]
       \/ /\ session[s].reader = "scan" /\ ~session[s].cancelled
          /\ session' = [session EXCEPT ![s].loop = "parked"]
    /\ OnlySession

\* handleLine(): check_nodes goes to the lane, everything else is answered here,
\* a line that does not parse and a handler that panics included.
HandleLine(s) ==
    LET r == session[s]
        back == [r EXCEPT !.loop = "select", !.req = NoLine]
    IN  /\ r.loop = "handle"
        /\ session' = [session EXCEPT ![s] =
              IF r.req.cmd = "check_nodes" THEN [back EXCEPT !.lane = @ \cup {r.req.id}]
              ELSE enqueue(back, Reply(r.req.id))]
        /\ OnlySession

\* serveStream() returns once the lane is empty.  A listener session closes its
\* conn and then stops its writer.
LeaveStream(s) ==
    /\ transport = "listener"
    /\ session[s].loop = "lane" /\ session[s].lane = {}
    /\ session' = [session EXCEPT ![s] = [closeConn(@) EXCEPT !.loop = "drain", !.closed = TRUE]]
    /\ OnlySession

\* A session that is over; its Server takes no more frames.
Ended == [NoSession EXCEPT !.loop = "done", !.conn = "closed", !.cancelled = TRUE, !.closed = TRUE]

\* A faulty stopWriter() that waits for the writer however long it takes.
StopWriterForever(s) ==
    /\ session[s].loop = "drain" /\ session[s].writer = "done"
    /\ session' = [session EXCEPT ![s] = Ended]
    /\ server' = IF transport = "stdio" THEN "done" ELSE server
    /\ UNCHANGED <<transport, emitter, cur, dial, dials, ctxDone, listening, daemon, events, lines,
                   check>>

\* stopWriter(): the writer is done, or writeDrainGrace has passed, which only
\* happens where the stream could not be closed first.  With it the session's
\* goroutine ends, and over stdio Serve returns.
StopWriter(s) ==
    /\ session[s].loop = "drain"
    /\ session[s].writer = "done" \/ transport = "stdio"
    /\ session' = [session EXCEPT ![s] = Ended]
    /\ server' = IF transport = "stdio" THEN "done" ELSE server
    /\ UNCHANGED <<transport, emitter, cur, dial, dials, ctxDone, listening, daemon, events, lines,
                   check>>

(***************************************************************************)
(* The transports.                                                         *)
(***************************************************************************)
\* Serve(): the stream has ended, and the daemon with it; only then is the
\* writer stopped, so the events of the shutdown still go out.
CloseAfterStream ==
    /\ transport = "stdio" /\ server = "serve"
    /\ session[1].loop = "lane" /\ session[1].lane = {}
    /\ daemon' = "closed" /\ server' = "drain"
    /\ events' = IF events < MaxEvents THEN events + 1 ELSE events
    /\ session' = [Emitted(session, IF events < MaxEvents THEN emitter ELSE 0, events + 1)
                      EXCEPT ![1].closed = TRUE, ![1].loop = "drain"]
    /\ UNCHANGED <<transport, emitter, cur, dial, dials, ctxDone, listening, lines, check>>

\* ServeListener(): a peer the policy refuses is logged to the session there is
\* and turned away without displacing it.
AcceptRefused ==
    /\ server = "accept" /\ listening /\ dial = "refused"
    /\ dial' = "none"
    /\ events' = IF events < MaxEvents THEN events + 1 ELSE events
    /\ session' = Emitted(session, IF events < MaxEvents THEN emitter ELSE 0, events + 1)
    /\ UNCHANGED <<transport, emitter, cur, server, dials, ctxDone, listening, daemon, lines, check>>

\* The session a new client starts: the first number not used.
NewSession == CHOOSE s \in Sessions :
    session[s].loop = "none" /\ \A t \in Sessions : session[t].loop = "none" => s <= t

\* A faulty accept loop that joins the session it displaces.
AcceptJoins ==
    /\ server = "accept" /\ listening /\ dial = "allowed"
    /\ cur # 0 => session[cur].loop = "done"
    /\ session' = [session EXCEPT ![NewSession] = Started]
    /\ cur' = NewSession /\ emitter' = NewSession /\ dial' = "none"
    /\ UNCHANGED <<transport, server, dials, ctxDone, listening, daemon, events, lines, check>>

\* A client the policy admits displaces the current one and takes the events,
\* without waiting for the old session's goroutine.
Accept ==
    /\ server = "accept" /\ listening /\ dial = "allowed"
    /\ session' = [s \in Sessions |-> IF s = cur THEN close(session[s])
                                     ELSE IF s = NewSession THEN Started ELSE session[s]]
    /\ cur' = NewSession /\ emitter' = NewSession /\ dial' = "none"
    /\ UNCHANGED <<transport, server, dials, ctxDone, listening, daemon, events, lines, check>>

\* Accept fails: the context closed the listener, or the listener broke.
AcceptFails ==
    /\ server = "accept"
    /\ server' = "join" /\ listening' = FALSE /\ cur' = 0 /\ dial' = "none"
    /\ session' = IF cur = 0 THEN session ELSE [session EXCEPT ![cur] = close(@)]
    /\ UNCHANGED <<transport, emitter, dials, ctxDone, daemon, events, lines, check>>

\* A faulty shutdown that does not wait for the displaced sessions.
CloseUnjoined ==
    /\ server = "join"
    /\ server' = "done" /\ daemon' = "closed"
    /\ UNCHANGED <<transport, session, emitter, cur, dial, dials, ctxDone, listening, events, lines, check>>

\* sessions.Wait(), then the daemon and its tunnel go down, and ServeListener returns.
CloseAfterSessions ==
    /\ server = "join"
    /\ \A s \in Sessions : session[s].loop \in {"none", "done"}
    /\ server' = "done" /\ daemon' = "closed"
    /\ UNCHANGED <<transport, session, emitter, cur, dial, dials, ctxDone, listening, events, lines, check>>

(***************************************************************************)
(* check_nodes: one run at a time for the whole daemon, in its session's   *)
(* lane.                                                                   *)
(***************************************************************************)
\* The background goroutine answers its request and is gone from the lane.
Answered(s, id) ==
    LET r == enqueue(session[s], Reply(id))
    IN  [session EXCEPT ![s] = [r EXCEPT !.lane = @ \ {id}]]

\* handleCheckNodes() up to the slot: a request that names no profile, or finds
\* a check running, is refused.
CheckEnters(s, id) ==
    /\ id \in session[s].lane /\ ~(check.session = s /\ check.id = id)
    /\ \/ /\ session' = Answered(s, id)
          /\ UNCHANGED check
       \/ /\ check.session = 0
          /\ check' = [session |-> s, id |-> id]
          /\ UNCHANGED session
    /\ UNCHANGED <<transport, emitter, cur, server, dial, dials, ctxDone, listening, daemon, events, lines>>

\* The check ends, with a result or without: the slot is released and the
\* request answered.  NodeCheck has what happens in between.
CheckEnds ==
    /\ check # NoCheck
    /\ check' = NoCheck /\ session' = Answered(check.session, check.id)
    /\ UNCHANGED <<transport, emitter, cur, server, dial, dials, ctxDone, listening, daemon, events, lines>>

(***************************************************************************)
(* The system.                                                             *)
(***************************************************************************)
Next ==
    \/ \E kind \in {"allowed", "refused"} : Dial(kind)
    \/ \E s \in Sessions :
          \/ ClientLeaves(s)
          \/ WriterTakes(s) \/ WriterStops(s) \/ Written(s) \/ WriteFails(s) \/ DropStalled(s)
          \/ (\E cmd \in Cmds : ScanLine(s, cmd)) \/ ScanEnds(s) \/ Select(s) \/ HandleLine(s)
          \/ LeaveStream(s) \/ StopWriter(s)
          \/ \E id \in 1..MaxLines : CheckEnters(s, id)
    \/ Emit \/ Shutdown \/ CloseAfterStream
    \/ AcceptRefused \/ Accept \/ AcceptFails \/ CloseAfterSessions
    \/ CheckEnds

Spec == Init /\ [][Next]_vars

\* Every goroutine of the daemon keeps running and handlers return.  A write with
\* a deadline completes or fails; over stdio nothing makes the parent read, and
\* nothing makes a client send or leave, a listener fail or the service stop.
Writer(s) == \/ WriterTakes(s) \/ WriterStops(s) \/ WriteFails(s)
             \/ transport = "listener" /\ Written(s)
Loop(s) == Select(s) \/ HandleLine(s) \/ LeaveStream(s) \/ StopWriter(s)
Owner == CloseAfterStream \/ AcceptRefused \/ Accept \/ (ctxDone /\ AcceptFails) \/ CloseAfterSessions
FairSpec ==
    /\ Spec
    /\ \A s \in Sessions :
          /\ WF_vars(Writer(s)) /\ WF_vars(ScanEnds(s)) /\ WF_vars(Loop(s)) /\ WF_vars(DropStalled(s))
          /\ WF_vars(\E id \in 1..MaxLines : CheckEnters(s, id))
    /\ WF_vars(Owner) /\ WF_vars(CheckEnds)

(***************************************************************************)
(* Properties.                                                             *)
(***************************************************************************)
\* Every variable stays in its domain and no queue outgrows outQueueDepth.
TypeOK ==
    /\ transport \in Transports
    /\ \A s \in Sessions :
          LET r == session[s]
          IN  /\ r.client \in {"none", "there", "gone"}
              /\ r.conn \in {"none", "open", "closed"} /\ r.cancelled \in BOOLEAN
              /\ r.reader \in {"none", "scan", "offer", "eof", "quit"}
              /\ {r.offer, r.req} \subseteq Lines \cup {NoLine}
              /\ r.loop \in {"none", "select", "parked", "handle", "scanerr", "lane", "drain", "done"}
              /\ r.lane \subseteq 1..MaxLines
              /\ r.queue \in Seq(Frames) /\ Len(r.queue) <= outQueueDepth
              /\ r.closed \in BOOLEAN /\ r.failed \in BOOLEAN
              /\ r.writer \in {"none", "idle", "write", "done"}
              /\ r.frame \in Frames \cup {NoFrame}
              /\ r.owed \subseteq 1..MaxLines /\ r.newest \in 0..MaxEvents
    /\ emitter \in 0..MaxDials /\ cur \in 0..MaxDials
    /\ server \in {"serve", "accept", "join", "drain", "done"}
    /\ dial \in {"none", "allowed", "refused"} /\ dials \in 0..MaxDials
    /\ ctxDone \in BOOLEAN /\ listening \in BOOLEAN
    /\ daemon \in {"up", "closed"} /\ events \in 0..MaxEvents /\ lines \in 0..MaxLines
    /\ check.session \in 0..MaxDials /\ check.id \in 0..MaxLines

\* The frames a stream still has to deliver.
Pending(r) == Range(r.queue) \cup (IF r.writer = "write" THEN {r.frame} ELSE {})

\* Shedding under a backlog never loses a response: while its stream lives, an
\* answer that was handed over is queued or being written until it is
\* delivered, whatever the events pushed behind it (dropOldestEventLocked).
ResponsesKept ==
    \A s \in Sessions : \A id \in session[s].owed : Reply(id) \in Pending(session[s])

\* Nor does it deliver stale news: an event is shed before the ones that are
\* newer, so a client that reads an event is given every later one as well and
\* does not end up with an old state (enqueue sheds the oldest, never the
\* incoming event).
OldestEventShedFirst ==
    \A s \in Sessions : \A n \in 1..MaxEvents :
        Event(n) \in Range(session[s].queue) =>
            \A m \in n..session[s].newest : Event(m) \in Range(session[s].queue)

\* Exactly one session is active: a session that is neither cancelled nor over
\* is the accept loop's, and the daemon's events go to it and to no displaced one.
OneActiveSession ==
    \A s \in Sessions :
        session[s].loop \notin {"none", "done"} /\ ~session[s].cancelled =>
            emitter = s /\ (transport = "listener" => cur = s \/ server # "accept")

\* What a client is promised on its stream: every answer, the events but for the
\* oldest, and no second session beside its own.
StreamIsKept == ResponsesKept /\ OldestEventShedFirst /\ OneActiveSession

\* No request handling outlives the daemon: once Close has run, no loop holds a
\* request and no background command runs, also of
\* the sessions that were displaced long before.
QuietAfterClose ==
    daemon = "closed" =>
        /\ \A s \in Sessions : session[s].loop \in {"none", "drain", "done"} /\ session[s].lane = {}

\* Nothing a client does stops the accept loop: a client that dials is accepted
\* or turned away although the one before does not read, floods, or is still
\* being unwound, unless the listener is gone.
DialIsAnswered == dial # "none" ~> dial = "none"

\* A loop that returned from its select by the closed channel, of a reader that
\* quit on the context, waits for an error nobody will send.
Wedged == \E s \in Sessions : session[s].loop = "scanerr"

\* A stop completes: the sessions are joined, the tunnel comes down and the
\* server returns, whatever the clients do or fail to read and whatever checks
\* run, but for a wedged loop (see StopCompletes).
StopCompletesUnlessWedged == ctxDone ~> (daemon = "closed" /\ server = "done") \/ Wedged

\* serveStream "returns promptly on cancel", and on cancellation ServeListener
\* "closes the daemon, tearing down a live tunnel, before [it] returns".
StopCompletes == ctxDone ~> daemon = "closed"
=============================================================================
