----------------------------- MODULE ServeProofs -----------------------------
(***************************************************************************)
(* What a client is promised on its stream, and that no request outlives   *)
(* the daemon: StreamIsKept and QuietAfterClose are invariants of the      *)
(* control server for either transport, any queue depth and any number of  *)
(* sessions, lines and events.                                             *)
(*                                                                         *)
(* A stream by itself keeps StreamOk: its answers are queued or in the     *)
(* writer's hands, its events queued in order and without a gap up to the  *)
(* newest, and the one in the writer's hands is older than all of them.    *)
(* The events a session gets are the daemon's, one after the other, while  *)
(* the emitter is set to it (NewestIsLast).  The sessions are numbered in  *)
(* the order they were accepted, the last one is the emitter's (Numbered), *)
(* and a session that is neither cancelled nor over is that one            *)
(* (LastIsActive).                                                         *)
(***************************************************************************)
EXTENDS Serve, TLAPS, SequenceTheorems, WellFoundedInduction

FrameT == [event : BOOLEAN, id : Nat]
LineT == [id : Nat, cmd : Cmds \cup {"none"}]
SessionT ==
    [client : {"none", "there", "gone"}, conn : {"none", "open", "closed"}, cancelled : BOOLEAN,
     reader : {"none", "scan", "offer", "eof", "quit"}, offer : LineT, req : LineT,
     loop : {"none", "select", "parked", "handle", "scanerr", "lane", "drain", "done"},
     lane : SUBSET Nat, queue : Seq(FrameT), closed : BOOLEAN, failed : BOOLEAN,
     writer : {"none", "idle", "write", "done"}, frame : FrameT, owed : SUBSET Nat, newest : Nat]
CheckT == [session : Sessions, id : Nat] \cup {NoCheck}

Shape ==
    /\ transport \in {"listener", "stdio"}
    /\ session \in [Sessions -> SessionT]
    /\ emitter \in 0..MaxDials /\ cur \in 0..MaxDials
    /\ server \in {"serve", "accept", "join", "drain", "done"}
    /\ dial \in {"none", "allowed", "refused"} /\ dials \in 0..MaxDials
    /\ events \in Nat /\ lines \in Nat /\ check \in CheckT

In(f, q) == \E i \in 1..Len(q) : q[i] = f

\* An answer owed is queued or being written.
Answers(r) ==
    \A id \in r.owed : In(Reply(id), r.queue) \/ (r.writer = "write" /\ r.frame = Reply(id))

\* The events of a queue are in the order of emission.
Ordered(q) ==
    \A i, j \in 1..Len(q) : i < j /\ q[i].event /\ q[j].event => q[i].id < q[j].id

\* From any event in a queue on, every one up to the newest is there.
Gapless(q, newest) ==
    \A i \in 1..Len(q) : q[i].event =>
        /\ 1 <= q[i].id /\ q[i].id <= newest
        /\ \A m \in q[i].id..newest : In(Event(m), q)

\* The event being written is older than the queued ones.
FrameFirst(r) ==
    r.writer = "write" /\ r.frame.event =>
        /\ 1 <= r.frame.id /\ (r.failed \/ r.frame.id <= r.newest)
        /\ \A i \in 1..Len(r.queue) : r.queue[i].event => r.frame.id < r.queue[i].id

StreamOk(r) == Answers(r) /\ Ordered(r.queue) /\ Gapless(r.queue, r.newest) /\ FrameFirst(r)

Streams == \A s \in Sessions : StreamOk(session[s])

Over == {"none", "drain", "done"}

\* A request in the background holds its session's loop in its stream.
LaneIsOpen == \A s \in Sessions : session[s].loop \in Over => session[s].lane = {}

\* The sessions begun are the first ones, the last of them is the emitter's and
\* the accept loop's, and one is left for the connection that waits.
Numbered ==
    /\ \A s \in Sessions : session[s].loop # "none" <=> s <= emitter
    /\ server = "accept" => cur = emitter
    /\ cur \in {0, emitter}
    /\ transport = "listener" => emitter + (IF dial = "none" THEN 0 ELSE 1) <= dials
    /\ transport = "stdio" => emitter = 1 /\ server \in {"serve", "drain", "done"}
    /\ transport = "listener" => server \in {"accept", "join", "done"}

\* A session that is neither cancelled nor over is the last one, and its
\* listener still accepts.
LastIsActive ==
    \A s \in Sessions : session[s].loop \notin {"none", "done"} /\ ~session[s].cancelled =>
        emitter = s /\ (transport = "listener" => server = "accept")

\* The last event handed to the emitter's stream is the last one emitted.
NewestIsLast ==
    emitter # 0 /\ ~session[emitter].closed /\ ~session[emitter].failed =>
        session[emitter].newest \in {0, events}

\* Once the daemon is closed nothing is accepted and every loop is over.
ClosedIsOver ==
    daemon = "closed" => server # "accept" /\ \A s \in Sessions : session[s].loop \in Over

IInv ==
    /\ Shape /\ Streams /\ LaneIsOpen /\ Numbered /\ LastIsActive /\ NewestIsLast /\ ClosedIsOver

-----------------------------------------------------------------------------
(* Queues.                                                                 *)

\* Appending keeps the frames there and adds one at the end.
LEMMA AppendFrame ==
    ASSUME NEW q \in Seq(FrameT), NEW f \in FrameT
    PROVE  /\ Append(q, f) \in Seq(FrameT) /\ Len(Append(q, f)) = Len(q) + 1
           /\ \A i \in 1..Len(q) : Append(q, f)[i] = q[i]
           /\ Append(q, f)[Len(q) + 1] = f
           /\ In(f, Append(q, f))
           /\ \A g : In(g, q) => In(g, Append(q, f))
<1>1. /\ Append(q, f) \in Seq(FrameT) /\ Len(Append(q, f)) = Len(q) + 1 /\ Len(q) \in Nat
      /\ \A i \in 1..Len(q) : Append(q, f)[i] = q[i]
      /\ Append(q, f)[Len(q) + 1] = f
    BY AppendProperties, LenProperties
<1> DEFINE a == Append(q, f)
<1> HIDE DEF a
<1>2. In(f, a)
    BY <1>1 DEF In, a
<1>3. ASSUME NEW g, In(g, q)
      PROVE  In(g, a)
  <2>1. PICK i \in 1..Len(q) : q[i] = g
    BY <1>3 DEF In
  <2> QED
    BY <1>1, <2>1 DEF In, a
<1> QED
    BY <1>1, <1>2, <1>3 DEF a

\* Removing one frame moves those behind it up by one.
LEMMA RemoveFrame ==
    ASSUME NEW q \in Seq(FrameT), NEW i \in 1..Len(q)
    PROVE  /\ RemoveAt(q, i) \in Seq(FrameT) /\ Len(RemoveAt(q, i)) = Len(q) - 1
           /\ \A j \in 1..Len(q) - 1 : RemoveAt(q, i)[j] = IF j < i THEN q[j] ELSE q[j + 1]
<1> DEFINE a == SubSeq(q, 1, i - 1)
           b == SubSeq(q, i + 1, Len(q))
<1>1. Len(q) \in Nat /\ \A j \in 1..Len(q) : q[j] \in FrameT
    BY LenProperties, ElementOfSeq
<1>2. /\ a \in Seq(FrameT) /\ Len(a) = i - 1
      /\ \A j \in 1..i - 1 : a[j] = q[j]
  <2>1. /\ a \in Seq(FrameT) /\ Len(a) = IF 1 <= i - 1 THEN i - 1 - 1 + 1 ELSE 0
        /\ \A j \in 1..(i - 1 - 1 + 1) : a[j] = q[1 + j - 1]
    BY <1>1, SubSeqProperties
  <2> HIDE DEF a
  <2> QED
    BY <1>1, <2>1
<1>3. /\ b \in Seq(FrameT) /\ Len(b) = Len(q) - i
      /\ \A j \in 1..Len(q) - i : b[j] = q[i + j]
  <2>1. /\ b \in Seq(FrameT) /\ Len(b) = IF i + 1 <= Len(q) THEN Len(q) - (i + 1) + 1 ELSE 0
        /\ \A j \in 1..(Len(q) - (i + 1) + 1) : b[j] = q[i + 1 + j - 1]
    BY <1>1, SubSeqProperties
  <2> HIDE DEF b
  <2> QED
    BY <1>1, <2>1
<1> HIDE DEF a, b
<1>4. /\ a \o b \in Seq(FrameT) /\ Len(a \o b) = Len(a) + Len(b)
      /\ \A j \in 1..Len(a) + Len(b) : (a \o b)[j] = IF j <= Len(a) THEN a[j] ELSE b[j - Len(a)]
    BY <1>2, <1>3, ConcatProperties
<1>5. RemoveAt(q, i) = a \o b
    BY DEF RemoveAt, a, b
<1>6. ASSUME NEW j \in 1..Len(q) - 1
      PROVE  (a \o b)[j] = IF j < i THEN q[j] ELSE q[j + 1]
  <2>1. CASE j < i
    BY <1>1, <1>2, <1>3, <1>4, <2>1
  <2>2. CASE ~(j < i)
    <3>1. j - (i - 1) \in 1..Len(q) - i /\ i + (j - (i - 1)) = j + 1
      BY <1>1, <2>2
    <3>2. (a \o b)[j] = b[j - (i - 1)]
      BY <1>1, <1>2, <1>3, <1>4, <2>2
    <3> QED
      BY <1>3, <2>2, <3>1, <3>2
  <2> QED
    BY <2>1, <2>2
<1> QED
    BY <1>1, <1>2, <1>3, <1>4, <1>5, <1>6

\* What was in the queue and is not the removed frame is still there.
LEMMA RemovedOne ==
    ASSUME NEW q \in Seq(FrameT), NEW i \in 1..Len(q), NEW g, In(g, q), g # q[i]
    PROVE  In(g, RemoveAt(q, i))
<1>1. Len(q) \in Nat
    BY LenProperties
<1>2. PICK j \in 1..Len(q) : q[j] = g
    BY DEF In
<1>3. CASE j < i
  <2>1. j \in 1..Len(q) - 1
    BY <1>1, <1>3
  <2> QED
    BY <1>1, <1>2, <1>3, <2>1, RemoveFrame DEF In
<1>4. CASE j > i
  <2>1. j - 1 \in 1..Len(q) - 1 /\ ~(j - 1 < i) /\ (j - 1) + 1 = j
    BY <1>1, <1>4
  <2> QED
    BY <1>1, <1>2, <2>1, RemoveFrame DEF In
<1> QED
    BY <1>2, <1>3, <1>4

\* dropOldestEvent finds the first event, if there is one.
LEMMA OldestEvent ==
    ASSUME NEW q \in Seq(FrameT)
    PROVE  LET i == dropOldestEvent(q)
           IN  \/ i = 0 /\ \A j \in 1..Len(q) : ~q[j].event
               \/ i \in 1..Len(q) /\ q[i].event /\ \A j \in 1..Len(q) : q[j].event => i <= j
<1> DEFINE found == {i \in DOMAIN q : q[i].event}
<1>1. DOMAIN q = 1..Len(q) /\ Len(q) \in Nat
    BY LenProperties
<1>2. CASE found = {}
    BY <1>1, <1>2 DEF dropOldestEvent
<1>3. CASE found # {}
  <2>1. found \subseteq Nat
    BY <1>1
  <2> HIDE DEF found
  <2>2. PICK x \in found : \A y \in found : ~(<<y, x>> \in OpToRel(<, Nat))
    BY <1>3, <2>1, NatLessThanWellFounded, WFMin
  <2>3. ASSUME NEW y \in found
        PROVE  x <= y
    <3>1. x \in Nat /\ y \in Nat /\ <<y, x>> \in Nat \X Nat /\ <<y, x>>[1] = y /\ <<y, x>>[2] = x
      BY <2>1
    <3>2. y < x => <<y, x>> \in OpToRel(<, Nat)
      BY <3>1, Zenon DEF OpToRel
    <3>3. ~(y < x)
      BY <2>2, <3>2, Zenon
    <3> QED
      BY <3>1, <3>3
  <2>4. dropOldestEvent(q) = CHOOSE i \in found : \A j \in found : i <= j
    BY <1>3 DEF dropOldestEvent, found
  <2>5. dropOldestEvent(q) \in found /\ \A j \in found : dropOldestEvent(q) <= j
    BY <2>3, <2>4
  <2> QED
    BY <1>1, <2>5 DEF found
<1> QED
    BY <1>2, <1>3

-----------------------------------------------------------------------------
(* Streams.                                                                *)

\* A frame the daemon may hand to a stream: an event comes next after the last.
NextFrame(r, f) ==
    f \in FrameT /\ (f.event /\ ~r.closed /\ ~r.failed => f.id >= 1 /\ r.newest \in {0, f.id - 1})

\* The rest of a session stays as it is.
SameLoop(r, t) ==
    /\ t.loop = r.loop /\ t.lane = r.lane /\ t.closed = r.closed /\ t.cancelled = r.cancelled
    /\ t.writer = r.writer /\ t.frame = r.frame
    /\ r.failed => t.failed

\* A stream that failed owes nothing.
LEMMA FailKeeps ==
    ASSUME NEW r \in SessionT, StreamOk(r)
    PROVE  /\ failStream(r) \in SessionT /\ StreamOk(failStream(r)) /\ SameLoop(r, failStream(r))
           /\ failStream(r).failed
<1> DEFINE t == failStream(r)
<1>1. t \in SessionT
    BY EmptySeq DEF failStream, SessionT
<1>2. /\ t.failed /\ t.queue = <<>> /\ t.owed = {} /\ t.newest = 0
      /\ SameLoop(r, t)
    BY DEF failStream, SessionT, SameLoop
<1>3. Len(t.queue) = 0
    BY <1>2
<1> HIDE DEF t
<1>4. StreamOk(t)
    BY <1>2, <1>3 DEF StreamOk, Answers, Ordered, Gapless, FrameFirst, SameLoop
<1> QED
    BY <1>1, <1>2, <1>4 DEF t

\* A frame joins the queue of a stream that has room.
LEMMA JoinKeeps ==
    ASSUME NEW r \in SessionT, StreamOk(r), NEW f, NextFrame(r, f), ~r.closed, ~r.failed,
           NEW t \in SessionT, t.queue = Append(r.queue, f), SameLoop(r, t),
           t.owed = (IF f.event THEN r.owed ELSE r.owed \cup {f.id}),
           t.newest = (IF f.event THEN f.id ELSE r.newest), t.failed = r.failed
    PROVE  StreamOk(t)
<1> DEFINE q == r.queue
           p == t.queue
<1>1. /\ q \in Seq(FrameT) /\ f \in FrameT /\ r.newest \in Nat /\ r.owed \subseteq Nat
      /\ Len(q) \in Nat /\ \A i \in 1..Len(q) : q[i] \in FrameT
    BY LenProperties, ElementOfSeq DEF SessionT, NextFrame
<1>2. /\ Len(p) = Len(q) + 1 /\ p[Len(q) + 1] = f /\ \A i \in 1..Len(q) : p[i] = q[i]
      /\ In(f, p) /\ \A g : In(g, q) => In(g, p)
    BY <1>1, AppendFrame
<1>3. \A i \in 1..Len(p) : i \in 1..Len(q) \/ i = Len(q) + 1
    BY <1>1, <1>2
<1> HIDE DEF q, p
<1>4. f.event => f.id \in Nat /\ f.id >= 1 /\ r.newest \in {0, f.id - 1}
    BY <1>1 DEF NextFrame, FrameT
<1>5. \A i \in 1..Len(q) : q[i].event => q[i].id \in Nat /\ 1 <= q[i].id /\ q[i].id <= r.newest
    BY <1>1 DEF StreamOk, Gapless, FrameT, q
<1>6. Answers(t)
  <2> SUFFICES ASSUME NEW id \in t.owed
               PROVE  In(Reply(id), p) \/ (t.writer = "write" /\ t.frame = Reply(id))
    BY DEF Answers, p
  <2>1. CASE id \in r.owed
    BY <1>2, <2>1 DEF StreamOk, Answers, SameLoop, q
  <2>2. CASE ~f.event /\ id = f.id
    <3>1. f = Reply(id)
      BY <1>1, <2>2 DEF FrameT, Reply
    <3> QED
      BY <1>2, <3>1
  <2> QED
    BY <2>1, <2>2
<1>7. Ordered(p)
  <2> SUFFICES ASSUME NEW i \in 1..Len(p), NEW j \in 1..Len(p), i < j, p[i].event, p[j].event
               PROVE  p[i].id < p[j].id
    BY DEF Ordered
  <2>1. i \in 1..Len(q) /\ p[i] = q[i]
    BY <1>1, <1>2, <1>3
  <2>2. CASE j \in 1..Len(q)
    BY <1>2, <2>1, <2>2 DEF StreamOk, Ordered, q
  <2>3. CASE j = Len(q) + 1
    <3>1. f.event /\ q[i].event /\ r.newest # 0
      BY <1>1, <1>2, <1>5, <2>1, <2>3
    <3> QED
      BY <1>1, <1>2, <1>4, <1>5, <2>1, <2>3, <3>1
  <2> QED
    BY <1>3, <2>2, <2>3
<1>8. Gapless(p, t.newest)
  <2> SUFFICES ASSUME NEW i \in 1..Len(p), p[i].event
               PROVE  /\ 1 <= p[i].id /\ p[i].id <= t.newest
                      /\ \A m \in p[i].id..t.newest : In(Event(m), p)
    BY DEF Gapless
  <2>1. CASE i \in 1..Len(q)
    <3>1. /\ p[i] = q[i] /\ q[i].event /\ q[i].id \in Nat /\ 1 <= q[i].id /\ q[i].id <= r.newest
          /\ \A m \in q[i].id..r.newest : In(Event(m), p)
      BY <1>2, <1>5, <2>1 DEF StreamOk, Gapless, q
    <3>2. CASE f.event
      <4>1. t.newest = f.id /\ r.newest = f.id - 1
        BY <1>1, <1>4, <3>1, <3>2
      <4>2. f = Event(f.id)
        BY <1>1, <3>2 DEF FrameT, Event
      <4>3. \A m \in q[i].id..f.id : m \in q[i].id..r.newest \/ m = f.id
        BY <1>1, <1>4, <3>1, <3>2, <4>1
      <4>4. \A m \in q[i].id..f.id : In(Event(m), p)
        BY <1>2, <3>1, <4>2, <4>3
      <4> QED
        BY <1>1, <1>4, <3>1, <3>2, <4>1, <4>4
    <3>3. CASE ~f.event
      BY <3>1, <3>3
    <3> QED
      BY <3>2, <3>3
  <2>2. CASE i = Len(q) + 1
    <3>1. p[i] = f /\ f.event /\ t.newest = f.id /\ f.id \in Nat /\ 1 <= f.id
      BY <1>2, <1>4, <2>2
    <3>2. f = Event(f.id)
      BY <1>1, <3>1 DEF FrameT, Event
    <3>3. \A m \in f.id..f.id : m = f.id
      BY <3>1
    <3> QED
      BY <1>2, <3>1, <3>2, <3>3
  <2> QED
    BY <1>3, <2>1, <2>2
<1>9. FrameFirst(t)
  <2> SUFFICES ASSUME t.writer = "write", t.frame.event
               PROVE  /\ 1 <= t.frame.id /\ t.frame.id <= t.newest
                      /\ \A i \in 1..Len(p) : p[i].event => t.frame.id < p[i].id
    BY DEF FrameFirst, p
  <2>1. /\ t.frame = r.frame /\ r.frame.id \in Nat /\ 1 <= r.frame.id /\ r.frame.id <= r.newest
        /\ \A i \in 1..Len(q) : q[i].event => r.frame.id < q[i].id
    BY DEF StreamOk, FrameFirst, SameLoop, SessionT, FrameT, q
  <2>2. f.event => r.newest = f.id - 1
    BY <1>1, <1>4, <2>1
  <2>3. f.event => r.frame.id < f.id /\ t.newest = f.id
    BY <1>1, <1>4, <2>1, <2>2
  <2>4. r.frame.id <= t.newest
    BY <1>1, <1>4, <2>1, <2>3
  <2> QED
    BY <1>2, <1>3, <2>1, <2>3, <2>4
<1> QED
    BY <1>6, <1>7, <1>8, <1>9 DEF StreamOk, p

\* The oldest event of a stream is shed.
LEMMA ShedKeeps ==
    ASSUME NEW r \in SessionT, StreamOk(r), dropOldestEvent(r.queue) # 0,
           NEW t \in SessionT, t.queue = RemoveAt(r.queue, dropOldestEvent(r.queue)),
           SameLoop(r, t), t.owed = r.owed, t.newest = r.newest, t.failed = r.failed
    PROVE  StreamOk(t)
<1> DEFINE q == r.queue
           k == dropOldestEvent(q)
           p == t.queue
<1>1. /\ q \in Seq(FrameT) /\ Len(q) \in Nat /\ r.newest \in Nat
      /\ \A i \in 1..Len(q) : q[i] \in FrameT
    BY LenProperties, ElementOfSeq DEF SessionT
<1>2. k \in 1..Len(q) /\ q[k].event /\ \A j \in 1..Len(q) : q[j].event => k <= j
    BY <1>1, OldestEvent
<1>0. p = RemoveAt(q, k)
    OBVIOUS
<1> HIDE DEF k, q, p
<1>3. /\ Len(p) = Len(q) - 1 /\ \A j \in 1..Len(q) - 1 : p[j] = IF j < k THEN q[j] ELSE q[j + 1]
      /\ \A g : In(g, q) /\ g # q[k] => In(g, p)
    BY <1>0, <1>1, <1>2, RemoveFrame, RemovedOne
<1>4. ASSUME NEW j \in 1..Len(p), p[j].event
      PROVE  j + 1 \in 1..Len(q) /\ p[j] = q[j + 1] /\ k < j + 1
    BY <1>1, <1>2, <1>3, <1>4
<1>5. Answers(t)
  <2> SUFFICES ASSUME NEW id \in r.owed
               PROVE  In(Reply(id), p) \/ (r.writer = "write" /\ r.frame = Reply(id))
    BY DEF Answers, SameLoop, p
  <2>1. Reply(id) # q[k]
    BY <1>2 DEF Reply
  <2> QED
    BY <1>3, <2>1 DEF StreamOk, Answers, q
<1>6. Ordered(p)
  <2> SUFFICES ASSUME NEW i \in 1..Len(p), NEW j \in 1..Len(p), i < j, p[i].event, p[j].event
               PROVE  p[i].id < p[j].id
    BY DEF Ordered
  <2>1. /\ i + 1 \in 1..Len(q) /\ p[i] = q[i + 1] /\ j + 1 \in 1..Len(q) /\ p[j] = q[j + 1]
        /\ i + 1 < j + 1
    BY <1>1, <1>3, <1>4
  <2> QED
    BY <2>1 DEF StreamOk, Ordered, q
<1>7. Gapless(p, r.newest)
  <2> SUFFICES ASSUME NEW i \in 1..Len(p), p[i].event
               PROVE  /\ 1 <= p[i].id /\ p[i].id <= r.newest
                      /\ \A m \in p[i].id..r.newest : In(Event(m), p)
    BY DEF Gapless
  <2>1. i + 1 \in 1..Len(q) /\ p[i] = q[i + 1] /\ k < i + 1 /\ q[i + 1].event
    BY <1>4
  <2>2. /\ 1 <= p[i].id /\ p[i].id <= r.newest
        /\ \A m \in p[i].id..r.newest : In(Event(m), q)
    BY <2>1 DEF StreamOk, Gapless, q
  <2>3. q[k].id < p[i].id
    BY <1>2, <2>1 DEF StreamOk, Ordered, q
  <2>4. q[k].id \in Nat /\ p[i].id \in Nat
    BY <1>1, <1>2, <2>1 DEF FrameT
  <2>5. ASSUME NEW m \in p[i].id..r.newest
        PROVE  Event(m) # q[k]
    <3>1. Event(m).id = m /\ m \in Int /\ q[k].id < m
      BY <1>1, <2>3, <2>4 DEF Event
    <3> QED
      BY <2>4, <3>1
  <2> QED
    BY <1>3, <2>2, <2>5
<1>8. FrameFirst(t)
  <2> SUFFICES ASSUME r.writer = "write", r.frame.event
               PROVE  /\ 1 <= r.frame.id /\ (r.failed \/ r.frame.id <= r.newest)
                      /\ \A i \in 1..Len(p) : p[i].event => r.frame.id < p[i].id
    BY DEF FrameFirst, SameLoop, p
  <2>1. /\ 1 <= r.frame.id /\ (r.failed \/ r.frame.id <= r.newest)
        /\ \A i \in 1..Len(q) : q[i].event => r.frame.id < q[i].id
    BY DEF StreamOk, FrameFirst, q
  <2> QED
    BY <1>4, <2>1
<1> QED
    BY <1>5, <1>6, <1>7, <1>8 DEF StreamOk, p

\* A stream keeps its promises whatever is handed to it next, and is failed or
\* has the event as its newest.
LEMMA EnqueueKeeps ==
    ASSUME NEW r \in SessionT, StreamOk(r), NEW f, NextFrame(r, f)
    PROVE  /\ enqueue(r, f) \in SessionT /\ StreamOk(enqueue(r, f)) /\ SameLoop(r, enqueue(r, f))
           /\ \/ enqueue(r, f).closed \/ enqueue(r, f).failed
              \/ enqueue(r, f).newest = IF f.event THEN f.id ELSE r.newest
<1> DEFINE k == dropOldestEvent(r.queue)
           kept == [r EXCEPT !.owed = IF f.event THEN @ ELSE @ \cup {f.id},
                             !.newest = IF f.event THEN f.id ELSE @]
<1>1. f \in FrameT /\ f.id \in Nat /\ r.queue \in Seq(FrameT) /\ Len(r.queue) \in Nat
    BY LenProperties DEF NextFrame, FrameT, SessionT
<1>2. kept \in SessionT /\ SameLoop(r, kept) /\ kept.failed = r.failed
      /\ kept.owed = (IF f.event THEN r.owed ELSE r.owed \cup {f.id})
      /\ kept.newest = (IF f.event THEN f.id ELSE r.newest)
      /\ kept.queue = r.queue
    BY <1>1 DEF SessionT, SameLoop
<1> DEFINE joined(q) == [kept EXCEPT !.queue = Append(q, f)]
<1>3. ASSUME NEW q \in Seq(FrameT)
      PROVE  /\ joined(q) \in SessionT /\ SameLoop(r, joined(q)) /\ joined(q).failed = r.failed
             /\ joined(q).owed = (IF f.event THEN r.owed ELSE r.owed \cup {f.id})
             /\ joined(q).newest = (IF f.event THEN f.id ELSE r.newest)
             /\ joined(q).queue = Append(q, f)
  <2> HIDE DEF kept
  <2>1. Append(q, f) \in Seq(FrameT)
    BY <1>1, AppendFrame
  <2> QED
    BY <1>2, <2>1 DEF SessionT, SameLoop
<1>4. CASE r.closed \/ r.failed
  <2>1. enqueue(r, f) = r
    BY <1>4 DEF enqueue
  <2> QED
    BY <1>4, <2>1 DEF SameLoop
<1>5. CASE ~(r.closed \/ r.failed) /\ Len(r.queue) < outQueueDepth
  <2>1. enqueue(r, f) = joined(r.queue)
    <3>1. enqueue(r, f) = [kept EXCEPT !.queue = Append(@, f)]
      BY <1>1, <1>5, ServeAssumption DEF enqueue
    <3> HIDE DEF kept
    <3> QED
      BY <1>2, <3>1
  <2> HIDE DEF joined
  <2>2. StreamOk(joined(r.queue))
    BY <1>1, <1>3, <1>5, JoinKeeps
  <2> QED
    BY <1>1, <1>3, <2>1, <2>2
<1>6. CASE ~(r.closed \/ r.failed) /\ Len(r.queue) >= outQueueDepth /\ k = 0
  <2>1. enqueue(r, f) = failStream(r)
    BY <1>1, <1>6, ServeAssumption DEF enqueue
  <2> QED
    BY <2>1, FailKeeps
<1>7. CASE ~(r.closed \/ r.failed) /\ Len(r.queue) >= outQueueDepth /\ k # 0
  <2> DEFINE shed == [r EXCEPT !.queue = RemoveAt(@, k)]
  <2>1. k \in 1..Len(r.queue)
    BY <1>1, <1>7, OldestEvent
  <2>2. RemoveAt(r.queue, k) \in Seq(FrameT)
    BY <1>1, <2>1, RemoveFrame
  <2> HIDE DEF k
  <2>3. /\ shed \in SessionT /\ SameLoop(r, shed) /\ shed.owed = r.owed /\ shed.newest = r.newest
        /\ shed.failed = r.failed /\ shed.closed = r.closed /\ shed.queue = RemoveAt(r.queue, k)
    BY <2>2 DEF SessionT, SameLoop
  <2>4. enqueue(r, f) = joined(RemoveAt(r.queue, k))
    BY <1>1, <1>2, <1>7, ServeAssumption DEF enqueue, k
  <2> HIDE DEF joined, shed
  <2>5. StreamOk(shed)
    BY <1>7, <2>3, ShedKeeps DEF k
  <2>6. NextFrame(shed, f)
    BY <2>3 DEF NextFrame
  <2>7. SameLoop(shed, joined(RemoveAt(r.queue, k)))
    BY <1>3, <2>2, <2>3 DEF SameLoop
  <2>8. StreamOk(joined(RemoveAt(r.queue, k)))
    BY <1>3, <1>7, <2>2, <2>3, <2>5, <2>6, <2>7, JoinKeeps
  <2> QED
    BY <1>3, <2>2, <2>4, <2>8
<1> QED
    BY <1>1, <1>4, <1>5, <1>6, <1>7, ServeAssumption

\* A session that does not touch its stream keeps it.
SameStream(r, t) ==
    /\ t.queue = r.queue /\ t.owed = r.owed /\ t.newest = r.newest
    /\ t.writer = r.writer /\ t.frame = r.frame /\ t.failed = r.failed

\* StreamOk says nothing of the rest of the session.
LEMMA SameStreamKeeps ==
    ASSUME NEW r, NEW t, SameStream(r, t), StreamOk(r)
    PROVE  StreamOk(t)
BY DEF SameStream, StreamOk, Answers, FrameFirst

\* What a step of a session may do to it: it neither begins nor revives it, it
\* ends it only with its lane empty, and a cancelled session stays cancelled.
Follows(r, t) ==
    /\ t \in SessionT /\ StreamOk(t)
    /\ t.loop = "none" <=> r.loop = "none"
    /\ r.loop = "done" => t.loop = "done"
    /\ r.loop \in Over => t.loop \in Over
    /\ t.loop \in Over => t.lane = {}
    /\ r.cancelled => t.cancelled

\* Without an event emitted, a stream that lives has the newest it had, or
\* has delivered it.
NoNews(r, t) ==
    t.closed \/ t.failed \/ (~r.closed /\ ~r.failed /\ t.newest \in {0, r.newest})

\* The end of a session's context leaves its stream alone.
LEMMA CancelFollows ==
    ASSUME NEW r \in SessionT, StreamOk(r), r.loop \in Over => r.lane = {}
    PROVE  /\ Follows(r, cancel(r)) /\ NoNews(r, cancel(r)) /\ cancel(r).cancelled
           /\ cancel(r).lane = r.lane
           /\ cancel(r).loop = "done" <=> r.loop = "done"
<1> DEFINE t == cancel(r)
<1>1. NoLine \in LineT
    BY DEF NoLine, LineT
<1>2. /\ t \in SessionT /\ SameStream(r, t) /\ t.closed = r.closed /\ t.cancelled
      /\ t.lane = r.lane /\ t.loop = (IF r.loop = "parked" THEN "lane" ELSE r.loop)
  <2> DEFINE l == IF r.loop = "parked" THEN "lane" ELSE r.loop
             d == IF r.reader = "offer" THEN "quit" ELSE r.reader
  <2>1. /\ l \in {"none", "select", "parked", "handle", "scanerr", "lane", "drain", "done"}
        /\ d \in {"none", "scan", "offer", "eof", "quit"}
    BY DEF SessionT
  <2>2. t = [r EXCEPT !.cancelled = TRUE, !.loop = l, !.reader = d, !.offer = NoLine]
    BY DEF cancel, SessionT
  <2> HIDE DEF l, d, t
  <2>3. /\ t \in SessionT /\ SameStream(r, t) /\ t.closed = r.closed /\ t.cancelled
        /\ t.lane = r.lane /\ t.loop = l
    BY <1>1, <2>1, <2>2, ZenonT(30) DEF SessionT, SameStream
  <2> QED
    BY <2>3 DEF l
<1> HIDE DEF t
<1>3. StreamOk(t)
    BY <1>2, SameStreamKeeps
<1>4. NoNews(r, t)
    BY <1>2 DEF NoNews, SameStream, SessionT
<1> QED
    BY <1>2, <1>3, <1>4 DEF Follows, Over, SessionT, t

\* Closing the connection fails a stream that has anything to write.
LEMMA CloseConnFollows ==
    ASSUME NEW r \in SessionT, StreamOk(r), r.loop \in Over => r.lane = {}
    PROVE  /\ Follows(r, closeConn(r)) /\ NoNews(r, closeConn(r))
           /\ closeConn(r).cancelled = r.cancelled
           /\ closeConn(r).loop = r.loop /\ closeConn(r).lane = r.lane
<1> DEFINE shut == [r EXCEPT !.conn = "closed", !.client = "gone"]
<1>1. /\ shut \in SessionT /\ SameStream(r, shut) /\ shut.closed = r.closed
      /\ shut.loop = r.loop /\ shut.lane = r.lane /\ shut.cancelled = r.cancelled
    BY DEF SessionT, SameStream
<1>2. StreamOk(shut)
    BY <1>1, SameStreamKeeps
<1>3. CASE r.writer = "write" \/ r.queue # <<>>
  <2> DEFINE u == failStream(shut)
             t == [u EXCEPT !.writer = "done", !.frame = NoFrame]
  <2>1. closeConn(r) = t
    BY <1>3 DEF closeConn
  <2> HIDE DEF shut
  <2>2. /\ u \in SessionT /\ u.failed /\ SameLoop(shut, u) /\ u.queue = <<>> /\ u.owed = {}
    BY <1>1, <1>2, FailKeeps DEF failStream, SessionT
  <2> HIDE DEF u
  <2>3. NoFrame \in FrameT
    BY ServeAssumption DEF NoFrame, Reply, FrameT
  <2>4. /\ t \in SessionT /\ t.failed /\ t.queue = <<>> /\ t.owed = {} /\ t.writer = "done"
        /\ t.loop = u.loop /\ t.lane = u.lane /\ t.cancelled = u.cancelled
    BY <2>2, <2>3 DEF SessionT
  <2> HIDE DEF t
  <2>5. StreamOk(t)
    BY <2>4 DEF StreamOk, Answers, Ordered, Gapless, FrameFirst
  <2>6. t.loop = r.loop /\ t.lane = r.lane /\ t.cancelled = r.cancelled
    BY <1>1, <2>2, <2>4 DEF SameLoop
  <2> QED
    BY <2>1, <2>4, <2>5, <2>6 DEF Follows, NoNews
<1>4. CASE ~(r.writer = "write" \/ r.queue # <<>>)
  <2>1. closeConn(r) = shut
    BY <1>4 DEF closeConn
  <2> HIDE DEF shut
  <2> QED
    BY <1>1, <1>2, <2>1 DEF Follows, NoNews, SameStream, SessionT
<1> QED
    BY <1>3, <1>4

\* A displaced or stalled session is cancelled and its connection closed.
LEMMA CloseFollows ==
    ASSUME NEW r \in SessionT, StreamOk(r), r.loop \in Over => r.lane = {}
    PROVE  /\ Follows(r, close(r)) /\ NoNews(r, close(r)) /\ close(r).cancelled
           /\ close(r).loop = "done" <=> r.loop = "done"
<1> DEFINE t == cancel(r)
<1>1. /\ Follows(r, t) /\ NoNews(r, t) /\ t.cancelled
      /\ t.loop = "done" <=> r.loop = "done"
    BY CancelFollows
<1> HIDE DEF t
<1>2. t \in SessionT /\ StreamOk(t) /\ (t.loop \in Over => t.lane = {})
    BY <1>1 DEF Follows
<1>3. /\ Follows(t, closeConn(t)) /\ NoNews(t, closeConn(t)) /\ closeConn(t).cancelled
      /\ closeConn(t).loop = t.loop
    BY <1>1, <1>2, CloseConnFollows DEF SessionT
<1>4. close(r) = closeConn(t)
    BY DEF close, t
<1>5. r.newest \in Nat /\ t.newest \in Nat
    BY <1>2 DEF SessionT
<1>6. NoNews(r, closeConn(t))
    BY <1>1, <1>3, <1>5 DEF NoNews
<1>7. Follows(r, closeConn(t))
    BY <1>1, <1>3 DEF Follows
<1> QED
    BY <1>1, <1>3, <1>4, <1>6, <1>7

-----------------------------------------------------------------------------
(* Steps of one session.                                                   *)

\* A step of session s that follows from its state keeps the invariant.
LEMMA SessionStep ==
    ASSUME IInv, NEW s \in Sessions, NEW t, Follows(session[s], t),
           session' = [session EXCEPT ![s] = t],
           UNCHANGED <<transport, emitter, cur, dials, daemon>>,
           server' = server \/ (transport = "stdio" /\ server' = "done"),
           dial' \in {dial, "none"}, events' \in Nat, lines' \in Nat, check' \in CheckT,
           s = emitter => t.closed \/ t.failed \/ t.newest \in {0, events'},
           s # emitter => events' = events \/ emitter = 0
    PROVE  IInv'
<1>1. /\ session \in [Sessions -> SessionT] /\ t \in SessionT
      /\ session' \in [Sessions -> SessionT]
      /\ session'[s] = t /\ \A u \in Sessions : u # s => session'[u] = session[u]
    BY DEF IInv, Shape, Follows
<1>2. Shape'
    BY <1>1 DEF IInv, Shape
<1>3. Streams'
    BY <1>1 DEF IInv, Streams, Follows
<1>4. LaneIsOpen'
    BY <1>1 DEF IInv, LaneIsOpen, Follows
<1>5. Numbered'
  <2>1. \A u \in Sessions : session'[u].loop # "none" <=> u <= emitter
    BY <1>1 DEF IInv, Numbered, Follows
  <2> QED
    BY <2>1 DEF IInv, Shape, Numbered
<1>6. LastIsActive'
    BY <1>1 DEF IInv, LastIsActive, Numbered, Follows
<1>7. NewestIsLast'
  <2>1. emitter # 0 => emitter \in Sessions
    BY ServeAssumption DEF IInv, Shape, Sessions
  <2> QED
    BY <1>1, <2>1 DEF IInv, NewestIsLast
<1>8. ClosedIsOver'
    BY <1>1 DEF IInv, ClosedIsOver, Numbered, Follows
<1> QED
    BY <1>2, <1>3, <1>4, <1>5, <1>6, <1>7, <1>8 DEF IInv

\* A step of session s that emits nothing.
LEMMA QuietStep ==
    ASSUME IInv, NEW s \in Sessions, NEW t, Follows(session[s], t), NoNews(session[s], t),
           session' = [session EXCEPT ![s] = t],
           UNCHANGED <<transport, emitter, cur, dial, dials, daemon, events>>,
           server' = server \/ (transport = "stdio" /\ server' = "done"),
           lines' \in Nat, check' \in CheckT
    PROVE  IInv'
<1>1. s = emitter => t.closed \/ t.failed \/ t.newest \in {0, events}
  <2>1. s # 0
    BY DEF Sessions
  <2> QED
    BY <2>1 DEF IInv, NewestIsLast, NoNews
<1> QED
    BY <1>1, SessionStep DEF IInv, Shape

\* Every session has its type, its promises and its lane.
LEMMA SessionIs ==
    ASSUME IInv, NEW s \in Sessions
    PROVE  /\ session[s] \in SessionT /\ StreamOk(session[s])
           /\ session[s].loop \in Over => session[s].lane = {}
    BY DEF IInv, Shape, Streams, LaneIsOpen

\* A step that leaves the stream of its session alone, and its loop or moves it
\* on within the stream.
LEMMA IdleStep ==
    ASSUME IInv, NEW s \in Sessions, NEW t \in SessionT, SameStream(session[s], t),
           t.cancelled = session[s].cancelled, t.closed = session[s].closed,
           t.lane = session[s].lane \/ t.loop \notin Over,
           t.loop = session[s].loop \/ (session[s].loop \notin Over /\ t.loop \notin Over),
           session' = [session EXCEPT ![s] = t],
           UNCHANGED <<transport, emitter, cur, server, dial, dials, daemon, events>>,
           lines' \in Nat, check' \in CheckT
    PROVE  IInv'
<1> DEFINE r == session[s]
<1>1. r \in SessionT /\ StreamOk(r) /\ (r.loop \in Over => r.lane = {})
    BY SessionIs
<1>2. StreamOk(t)
    BY <1>1, SameStreamKeeps
<1>3. NoNews(r, t)
    BY <1>1 DEF NoNews, SameStream, SessionT
<1>4. Follows(r, t)
    BY <1>1, <1>2 DEF Follows, Over
<1> QED
    BY <1>3, <1>4, QuietStep

\* The client goes away.
LEMMA ClientLeavesKeeps ==
    ASSUME IInv, NEW s \in Sessions, ClientLeaves(s)
    PROVE  IInv'
<1> DEFINE t == [session[s] EXCEPT !.client = "gone"]
<1>1. session[s] \in SessionT
    BY SessionIs
<1>2. /\ t \in SessionT /\ SameStream(session[s], t)
      /\ t.loop = session[s].loop /\ t.lane = session[s].lane
      /\ t.cancelled = session[s].cancelled /\ t.closed = session[s].closed
    BY <1>1 DEF SessionT, SameStream
<1>3. session' = [session EXCEPT ![s] = t]
    BY DEF ClientLeaves
<1>4. /\ UNCHANGED <<transport, emitter, cur, server, dial, dials, daemon, events>>
      /\ lines' \in Nat /\ check' \in CheckT
    BY DEF ClientLeaves, OnlySession, IInv, Shape
<1> HIDE DEF t
<1> QED
    BY <1>2, <1>3, <1>4, IdleStep

\* The writer takes the frame at the head of the queue.
LEMMA WriterTakesKeeps ==
    ASSUME IInv, NEW s \in Sessions, WriterTakes(s)
    PROVE  IInv'
<1> DEFINE r == session[s]
           q == r.queue
           t == [r EXCEPT !.writer = "write", !.frame = Head(q), !.queue = Tail(q)]
<1>1. /\ r \in SessionT /\ StreamOk(r) /\ (r.loop \in Over => r.lane = {})
      /\ r.writer = "idle" /\ ~r.failed /\ q # <<>>
    BY SessionIs DEF WriterTakes
<1>2. session' = [session EXCEPT ![s] = t]
    BY DEF WriterTakes
<1>3. /\ q \in Seq(FrameT) /\ Len(q) \in Nat /\ Len(q) >= 1 /\ r.newest \in Nat
      /\ Head(q) = q[1] /\ Head(q) \in FrameT /\ Tail(q) \in Seq(FrameT) /\ Len(Tail(q)) = Len(q) - 1
      /\ \A i \in 1..Len(q) - 1 : Tail(q)[i] = q[i + 1]
      /\ \A i \in 1..Len(q) : q[i] \in FrameT
  <2>1. q \in Seq(FrameT) /\ Len(q) \in Nat /\ r.newest \in Nat
    BY <1>1, LenProperties DEF SessionT
  <2> HIDE DEF q
  <2>2. Len(q) >= 1
    BY <1>1, <2>1, EmptySeq
  <2> QED
    BY <1>1, <2>1, <2>2, HeadTailProperties, ElementOfSeq
<1>4. /\ t \in SessionT /\ t.queue = Tail(q) /\ t.writer = "write" /\ t.frame = q[1]
      /\ t.owed = r.owed /\ t.newest = r.newest /\ t.failed = r.failed /\ t.closed = r.closed
      /\ t.loop = r.loop /\ t.lane = r.lane /\ t.cancelled = r.cancelled
    BY <1>1, <1>3 DEF SessionT
<1> DEFINE p == Tail(q)
<1> HIDE DEF t, p, q
<1>5. StreamOk(t)
  <2>1. Answers(t)
    <3> SUFFICES ASSUME NEW id \in r.owed
                 PROVE  In(Reply(id), p) \/ q[1] = Reply(id)
      BY <1>4 DEF Answers, p
    <3>1. PICK i \in 1..Len(q) : q[i] = Reply(id)
      BY <1>1 DEF StreamOk, Answers, In, q
    <3>2. CASE i = 1
      BY <3>1, <3>2
    <3>3. CASE i # 1
      <4>1. i - 1 \in 1..Len(q) - 1 /\ (i - 1) + 1 = i
        BY <1>3, <3>3
      <4> QED
        BY <1>3, <3>1, <4>1 DEF In, p
    <3> QED
      BY <3>2, <3>3
  <2>2. Ordered(p)
    <3> SUFFICES ASSUME NEW i \in 1..Len(p), NEW j \in 1..Len(p), i < j, p[i].event, p[j].event
                 PROVE  p[i].id < p[j].id
      BY DEF Ordered
    <3>1. /\ i + 1 \in 1..Len(q) /\ p[i] = q[i + 1] /\ j + 1 \in 1..Len(q) /\ p[j] = q[j + 1]
          /\ i + 1 < j + 1
      BY <1>3 DEF p
    <3> QED
      BY <1>1, <3>1 DEF StreamOk, Ordered, q
  <2>3. ASSUME NEW i \in 1..Len(p), p[i].event
        PROVE  /\ i + 1 \in 1..Len(q) /\ p[i] = q[i + 1] /\ 1 < i + 1 /\ p[i].id \in Nat
               /\ 1 <= p[i].id /\ p[i].id <= r.newest
               /\ \A m \in p[i].id..r.newest : In(Event(m), q)
    <3>1. i + 1 \in 1..Len(q) /\ p[i] = q[i + 1] /\ 1 < i + 1
      BY <1>3 DEF p
    <3> QED
      BY <1>1, <1>3, <2>3, <3>1 DEF StreamOk, Gapless, FrameT, q
  <2>4. ASSUME q[1].event, NEW i \in 1..Len(p), p[i].event
        PROVE  q[1].id < p[i].id
    BY <1>1, <1>3, <2>3, <2>4 DEF StreamOk, Ordered, q
  <2>5. Gapless(p, r.newest)
    <3> SUFFICES ASSUME NEW i \in 1..Len(p), p[i].event, NEW m \in p[i].id..r.newest
                 PROVE  In(Event(m), p)
      BY <2>3 DEF Gapless
    <3>1. PICK j \in 1..Len(q) : q[j] = Event(m)
      BY <2>3 DEF In
    <3>2. j # 1
      <4>1. q[j].event /\ q[j].id = m /\ m \in Int /\ p[i].id <= m /\ p[i].id \in Nat
        BY <1>1, <2>3, <3>1 DEF Event
      <4>2. q[1] \in FrameT /\ q[1].id \in Nat
        BY <1>3 DEF FrameT
      <4> QED
        BY <2>4, <4>1, <4>2
    <3>3. j - 1 \in 1..Len(q) - 1 /\ (j - 1) + 1 = j
      BY <1>3, <3>2
    <3> QED
      BY <1>3, <3>1, <3>3 DEF In, p
  <2>6. q[1].event => 1 <= q[1].id /\ q[1].id <= r.newest
    BY <1>1, <1>3 DEF StreamOk, Gapless, q
  <2>7. FrameFirst(t)
    BY <1>4, <2>4, <2>6 DEF FrameFirst, p
  <2> QED
    BY <1>4, <2>1, <2>2, <2>5, <2>7 DEF StreamOk, p
<1>6. Follows(r, t)
    BY <1>1, <1>4, <1>5 DEF Follows
<1>7. NoNews(r, t)
    BY <1>1, <1>4 DEF NoNews, SessionT
<1>8. /\ UNCHANGED <<transport, emitter, cur, server, dial, dials, daemon, events>>
      /\ lines' \in Nat /\ check' \in CheckT
    BY DEF WriterTakes, OnlySession, IInv, Shape
<1> QED
    BY <1>2, <1>6, <1>7, <1>8, QuietStep

\* The frame leaves; an answer is owed no more, and with the newest event no
\* event is left behind.
LEMMA WrittenKeeps ==
    ASSUME IInv, NEW s \in Sessions, Written(s)
    PROVE  IInv'
<1> DEFINE r == session[s]
           owed == IF r.frame.event THEN r.owed ELSE r.owed \ {r.frame.id}
           newest == IF r.frame = Event(r.newest) THEN 0 ELSE r.newest
           t == [r EXCEPT !.writer = "idle", !.frame = NoFrame, !.owed = owed, !.newest = newest]
<1>1. /\ r \in SessionT /\ StreamOk(r) /\ (r.loop \in Over => r.lane = {})
      /\ r.writer = "write"
    BY SessionIs DEF Written
<1>2. session' = [session EXCEPT ![s] = t]
    BY <1>1 DEF Written
<1>3. NoFrame \in FrameT /\ owed \subseteq Nat /\ newest \in {0, r.newest} /\ newest \in Nat
    BY <1>1, ServeAssumption DEF NoFrame, Reply, FrameT, SessionT
<1>4. /\ t \in SessionT /\ t.queue = r.queue /\ t.writer = "idle"
      /\ t.owed = owed /\ t.newest = newest /\ t.failed = r.failed /\ t.closed = r.closed
      /\ t.loop = r.loop /\ t.lane = r.lane /\ t.cancelled = r.cancelled
  <2> HIDE DEF owed, newest
  <2> QED
    BY <1>1, <1>3 DEF SessionT
<1> HIDE DEF t
<1>5. StreamOk(t)
  <2>1. Answers(t)
    <3> SUFFICES ASSUME NEW id \in owed
                 PROVE  In(Reply(id), r.queue)
      BY <1>4 DEF Answers
    <3>1. id \in r.owed /\ r.frame # Reply(id)
      BY DEF Reply
    <3> QED
      BY <1>1, <3>1 DEF StreamOk, Answers
  <2>2. Gapless(r.queue, newest)
    <3>1. CASE r.frame = Event(r.newest)
      <4>1. ASSUME NEW i \in 1..Len(r.queue), r.queue[i].event
            PROVE  FALSE
        <5>1. r.frame.event /\ r.frame.id = r.newest
          BY <3>1 DEF Event
        <5>2. r.newest < r.queue[i].id /\ r.queue[i].id <= r.newest
          BY <1>1, <4>1, <5>1 DEF StreamOk, FrameFirst, Gapless
        <5>3. r.queue \in Seq(FrameT) /\ r.newest \in Nat
          BY <1>1 DEF SessionT
        <5>4. r.queue[i] \in FrameT
          BY <5>3, ElementOfSeq
        <5> QED
          BY <5>2, <5>3, <5>4 DEF FrameT
      <4> QED
        BY <4>1 DEF Gapless
    <3>2. CASE r.frame # Event(r.newest)
      BY <1>1, <3>2 DEF StreamOk
    <3> QED
      BY <3>1, <3>2
  <2>3. FrameFirst(t)
    BY <1>4 DEF FrameFirst
  <2> QED
    BY <1>1, <1>4, <2>1, <2>2, <2>3 DEF StreamOk
<1>6. Follows(r, t)
    BY <1>1, <1>4, <1>5 DEF Follows
<1>7. NoNews(r, t)
    BY <1>1, <1>3, <1>4 DEF NoNews, SessionT
<1>8. /\ UNCHANGED <<transport, emitter, cur, server, dial, dials, daemon, events>>
      /\ lines' \in Nat /\ check' \in CheckT
    BY DEF Written, OnlySession, IInv, Shape
<1> QED
    BY <1>2, <1>6, <1>7, <1>8, QuietStep

\* A writer with nothing left to write stops.
LEMMA WriterStopsKeeps ==
    ASSUME IInv, NEW s \in Sessions, WriterStops(s)
    PROVE  IInv'
<1> DEFINE r == session[s]
           t == [r EXCEPT !.writer = "done"]
<1>1. /\ r \in SessionT /\ StreamOk(r) /\ (r.loop \in Over => r.lane = {})
      /\ r.writer = "idle"
    BY SessionIs DEF WriterStops
<1>2. session' = [session EXCEPT ![s] = t]
    BY DEF WriterStops
<1>3. /\ t \in SessionT /\ t.queue = r.queue /\ t.writer = "done" /\ t.frame = r.frame
      /\ t.owed = r.owed /\ t.newest = r.newest /\ t.failed = r.failed /\ t.closed = r.closed
      /\ t.loop = r.loop /\ t.lane = r.lane /\ t.cancelled = r.cancelled
    BY <1>1 DEF SessionT
<1> HIDE DEF t
<1>4. StreamOk(t)
    BY <1>1, <1>3 DEF StreamOk, Answers, FrameFirst
<1>5. Follows(r, t) /\ NoNews(r, t)
    BY <1>1, <1>3, <1>4 DEF Follows, NoNews, SessionT
<1>6. /\ UNCHANGED <<transport, emitter, cur, server, dial, dials, daemon, events>>
      /\ lines' \in Nat /\ check' \in CheckT
    BY DEF WriterStops, OnlySession, IInv, Shape
<1> QED
    BY <1>2, <1>5, <1>6, QuietStep

\* A failed write ends the stream.
LEMMA WriteFailsKeeps ==
    ASSUME IInv, NEW s \in Sessions, WriteFails(s)
    PROVE  IInv'
<1> DEFINE r == session[s]
           u == failStream(r)
           t == [u EXCEPT !.writer = "done", !.frame = NoFrame]
<1>1. r \in SessionT /\ StreamOk(r) /\ (r.loop \in Over => r.lane = {})
    BY SessionIs
<1>2. session' = [session EXCEPT ![s] = t]
    BY DEF WriteFails
<1>3. u \in SessionT /\ u.failed /\ SameLoop(r, u) /\ u.queue = <<>> /\ u.owed = {}
    BY <1>1, FailKeeps DEF failStream, SessionT
<1> HIDE DEF u
<1>4. NoFrame \in FrameT
    BY ServeAssumption DEF NoFrame, Reply, FrameT
<1>5. /\ t \in SessionT /\ t.failed /\ t.queue = <<>> /\ t.owed = {} /\ t.writer = "done"
      /\ t.loop = u.loop /\ t.lane = u.lane /\ t.cancelled = u.cancelled
    BY <1>3, <1>4 DEF SessionT
<1> HIDE DEF t
<1>6. StreamOk(t)
    BY <1>5 DEF StreamOk, Answers, Ordered, Gapless, FrameFirst
<1>7. Follows(r, t) /\ NoNews(r, t)
    BY <1>1, <1>3, <1>5, <1>6 DEF Follows, NoNews, SameLoop
<1>8. /\ UNCHANGED <<transport, emitter, cur, server, dial, dials, daemon, events>>
      /\ lines' \in Nat /\ check' \in CheckT
    BY DEF WriteFails, OnlySession, IInv, Shape
<1> QED
    BY <1>2, <1>7, <1>8, QuietStep

\* A client that stopped taking delivery is dropped.
LEMMA DropStalledKeeps ==
    ASSUME IInv, NEW s \in Sessions, DropStalled(s)
    PROVE  IInv'
<1>1. Follows(session[s], close(session[s])) /\ NoNews(session[s], close(session[s]))
    BY SessionIs, CloseFollows
<1>2. session' = [session EXCEPT ![s] = close(session[s])]
    BY DEF DropStalled
<1>3. /\ UNCHANGED <<transport, emitter, cur, server, dial, dials, daemon, events>>
      /\ lines' \in Nat /\ check' \in CheckT
    BY DEF DropStalled, OnlySession, IInv, Shape
<1> QED
    BY <1>1, <1>2, <1>3, QuietStep

\* A line comes in.
LEMMA ScanLineKeeps ==
    ASSUME IInv, NEW s \in Sessions, NEW cmd \in Cmds, ScanLine(s, cmd)
    PROVE  IInv'
<1> DEFINE r == session[s]
           line == [id |-> lines + 1, cmd |-> cmd]
           t == IF r.loop = "parked" THEN [r EXCEPT !.loop = "handle", !.req = line]
                ELSE IF r.cancelled THEN [r EXCEPT !.reader = "quit"]
                ELSE [r EXCEPT !.reader = "offer", !.offer = line]
<1>1. r \in SessionT
    BY SessionIs
<1>2. line \in LineT /\ lines + 1 \in Nat
    BY DEF IInv, Shape, LineT
<1>3. session' = [session EXCEPT ![s] = t] /\ lines' = lines + 1
    BY DEF ScanLine
<1> HIDE DEF line
<1>4. /\ t \in SessionT /\ SameStream(r, t) /\ t.cancelled = r.cancelled /\ t.closed = r.closed
      /\ t.lane = r.lane
      /\ t.loop = r.loop \/ (r.loop = "parked" /\ t.loop = "handle")
  <2>1. CASE r.loop = "parked"
    BY <1>1, <1>2, <2>1 DEF SessionT, SameStream
  <2>2. CASE r.loop # "parked" /\ r.cancelled
    BY <1>1, <1>2, <2>2 DEF SessionT, SameStream
  <2>3. CASE r.loop # "parked" /\ ~r.cancelled
    BY <1>1, <1>2, <2>3 DEF SessionT, SameStream
  <2> QED
    BY <2>1, <2>2, <2>3
<1> HIDE DEF t
<1>5. t.loop = r.loop \/ (r.loop \notin Over /\ t.loop \notin Over)
    BY <1>4 DEF Over
<1>6. /\ UNCHANGED <<transport, emitter, cur, server, dial, dials, daemon, events>>
      /\ check' \in CheckT
    BY DEF ScanLine, IInv, Shape
<1> QED
    BY <1>2, <1>3, <1>4, <1>5, <1>6, IdleStep

\* The stream has ended.
LEMMA ScanEndsKeeps ==
    ASSUME IInv, NEW s \in Sessions, ScanEnds(s)
    PROVE  IInv'
<1> DEFINE r == session[s]
           l == IF r.loop = "parked" THEN "lane" ELSE r.loop
           t == [r EXCEPT !.reader = "eof", !.loop = l]
<1>1. r \in SessionT /\ l \in {"none", "select", "parked", "handle", "scanerr", "lane", "drain", "done"}
    BY SessionIs DEF SessionT
<1>2. session' = [session EXCEPT ![s] = t]
    BY DEF ScanEnds
<1>3. l = r.loop \/ (r.loop \notin Over /\ l \notin Over)
    BY DEF Over
<1> HIDE DEF l
<1>4. /\ t \in SessionT /\ SameStream(r, t) /\ t.cancelled = r.cancelled /\ t.closed = r.closed
      /\ t.lane = r.lane /\ t.loop = l
    BY <1>1, ZenonT(30) DEF SessionT, SameStream
<1> HIDE DEF t
<1>5. /\ UNCHANGED <<transport, emitter, cur, server, dial, dials, daemon, events>>
      /\ lines' \in Nat /\ check' \in CheckT
    BY DEF ScanEnds, OnlySession, IInv, Shape
<1> QED
    BY <1>2, <1>3, <1>4, <1>5, IdleStep

\* The loop takes a line, waits for one, or leaves the stream.
LEMMA SelectKeeps ==
    ASSUME IInv, NEW s \in Sessions, Select(s)
    PROVE  IInv'
<1> DEFINE r == session[s]
<1>1. r \in SessionT /\ r.loop = "select"
    BY SessionIs DEF Select
<1>2. ASSUME NEW t \in SessionT, SameStream(r, t), t.cancelled = r.cancelled, t.closed = r.closed,
             t.lane = r.lane, t.loop \notin Over, session' = [session EXCEPT ![s] = t]
      PROVE  IInv'
  <2>1. r.loop \notin Over
    BY <1>1 DEF Over
  <2>2. /\ UNCHANGED <<transport, emitter, cur, server, dial, dials, daemon, events>>
        /\ lines' \in Nat /\ check' \in CheckT
    BY DEF Select, OnlySession, IInv, Shape
  <2> HIDE DEF r
  <2> QED
    BY <1>2, <2>1, <2>2, IdleStep DEF r
<1>3. ASSUME session' = [session EXCEPT ![s].loop = "handle", ![s].req = session[s].offer,
                                        ![s].reader = "scan", ![s].offer = NoLine]
      PROVE  IInv'
  <2> DEFINE t == [r EXCEPT !.loop = "handle", !.req = r.offer, !.reader = "scan", !.offer = NoLine]
  <2>1. session' = [session EXCEPT ![s] = t]
    BY <1>3
  <2>2. NoLine \in LineT
    BY DEF NoLine, LineT
  <2>3. /\ t \in SessionT /\ SameStream(r, t) /\ t.cancelled = r.cancelled /\ t.closed = r.closed
        /\ t.lane = r.lane /\ t.loop \notin Over
    BY <1>1, <2>2 DEF SessionT, SameStream, Over
  <2> HIDE DEF t
  <2> QED
    BY <1>2, <2>1, <2>3
<1>4. ASSUME NEW l \in {"lane", "scanerr", "parked"}, session' = [session EXCEPT ![s].loop = l]
      PROVE  IInv'
  <2> DEFINE t == [r EXCEPT !.loop = l]
  <2>1. session' = [session EXCEPT ![s] = t]
    BY <1>4
  <2>2. /\ t \in SessionT /\ SameStream(r, t) /\ t.cancelled = r.cancelled /\ t.closed = r.closed
        /\ t.lane = r.lane /\ t.loop \notin Over
    BY <1>1 DEF SessionT, SameStream, Over
  <2> HIDE DEF t
  <2> QED
    BY <1>2, <2>1, <2>2
<1> HIDE DEF r
<1> QED
    BY <1>3, <1>4 DEF Select

\* An answer joins the stream.
LEMMA ReplyFollows ==
    ASSUME NEW r \in SessionT, StreamOk(r), r.loop \in Over => r.lane = {}, NEW id \in Nat
    PROVE  /\ Follows(r, enqueue(r, Reply(id))) /\ NoNews(r, enqueue(r, Reply(id)))
           /\ SameLoop(r, enqueue(r, Reply(id)))
<1> DEFINE f == Reply(id)
           t == enqueue(r, f)
<1>1. NextFrame(r, f) /\ ~f.event
    BY DEF NextFrame, Reply, FrameT
<1> HIDE DEF f
<1>2. /\ t \in SessionT /\ StreamOk(t) /\ SameLoop(r, t)
      /\ t.closed \/ t.failed \/ t.newest = r.newest
    BY <1>1, EnqueueKeeps
<1> HIDE DEF t
<1>3. NoNews(r, t)
    BY <1>2 DEF NoNews, SameLoop, SessionT
<1>4. Follows(r, t)
    BY <1>2 DEF Follows, SameLoop
<1> QED
    BY <1>2, <1>3, <1>4 DEF t, f

\* A request goes to the lane or is answered.
LEMMA HandleLineKeeps ==
    ASSUME IInv, NEW s \in Sessions, HandleLine(s)
    PROVE  IInv'
<1> DEFINE r == session[s]
           back == [r EXCEPT !.loop = "select", !.req = NoLine]
<1>1. r \in SessionT /\ StreamOk(r) /\ r.loop = "handle" /\ r.req.id \in Nat
    BY SessionIs DEF HandleLine, SessionT, LineT
<1>2. /\ back \in SessionT /\ SameStream(r, back) /\ back.loop = "select" /\ back.lane = r.lane
      /\ back.cancelled = r.cancelled /\ back.closed = r.closed
  <2>1. NoLine \in LineT
    BY DEF NoLine, LineT
  <2> QED
    BY <1>1, <2>1 DEF SessionT, SameStream
<1>3. StreamOk(back)
    BY <1>1, <1>2, SameStreamKeeps
<1>4. /\ UNCHANGED <<transport, emitter, cur, server, dial, dials, daemon, events>>
      /\ lines' \in Nat /\ check' \in CheckT
    BY DEF HandleLine, OnlySession, IInv, Shape
<1>5. CASE r.req.cmd = "check_nodes"
  <2> DEFINE t == [back EXCEPT !.lane = @ \cup {r.req.id}]
  <2>1. session' = [session EXCEPT ![s] = t]
    BY <1>5 DEF HandleLine
  <2> HIDE DEF back
  <2>2. /\ t \in SessionT /\ SameStream(r, t) /\ t.loop = "select"
        /\ t.cancelled = r.cancelled /\ t.closed = r.closed
    BY <1>1, <1>2 DEF SessionT, SameStream
  <2> HIDE DEF t
  <2>3. t.loop \notin Over /\ r.loop \notin Over
    BY <1>1, <2>2 DEF Over
  <2> HIDE DEF r
  <2> QED
    BY <1>4, <2>1, <2>2, <2>3, IdleStep DEF r
<1>6. CASE r.req.cmd # "check_nodes"
  <2> DEFINE t == enqueue(back, Reply(r.req.id))
  <2>1. session' = [session EXCEPT ![s] = t]
    BY <1>6 DEF HandleLine
  <2> HIDE DEF back
  <2>2. Follows(back, t) /\ NoNews(back, t) /\ SameLoop(back, t)
    BY <1>1, <1>2, <1>3, ReplyFollows DEF Over
  <2> HIDE DEF t
  <2>3. Follows(r, t)
    BY <1>1, <1>2, <2>2 DEF Follows, SameLoop, Over
  <2>4. NoNews(r, t)
    BY <1>2, <2>2 DEF NoNews, SameStream
  <2> HIDE DEF r
  <2> QED
    BY <1>4, <2>1, <2>3, <2>4, QuietStep DEF r
<1> QED
    BY <1>5, <1>6

\* A listener session leaves its stream, closed.
LEMMA LeaveStreamKeeps ==
    ASSUME IInv, NEW s \in Sessions, LeaveStream(s)
    PROVE  IInv'
<1> DEFINE r == session[s]
           u == closeConn(r)
           t == [u EXCEPT !.loop = "drain", !.closed = TRUE]
<1>1. /\ r \in SessionT /\ StreamOk(r) /\ (r.loop \in Over => r.lane = {})
      /\ r.loop = "lane" /\ r.lane = {}
    BY SessionIs DEF LeaveStream
<1>2. Follows(r, u) /\ u.lane = {}
    BY <1>1, CloseConnFollows
<1>3. session' = [session EXCEPT ![s] = t]
    BY DEF LeaveStream
<1> HIDE DEF u
<1>4. /\ t \in SessionT /\ SameStream(u, t) /\ t.loop = "drain" /\ t.lane = {} /\ t.closed
      /\ t.cancelled = u.cancelled
    BY <1>2 DEF Follows, SessionT, SameStream
<1> HIDE DEF t
<1>5. StreamOk(t)
    BY <1>2, <1>4, SameStreamKeeps DEF Follows
<1>6. Follows(r, t) /\ NoNews(r, t)
    BY <1>1, <1>2, <1>4, <1>5 DEF Follows, NoNews, Over
<1>7. /\ UNCHANGED <<transport, emitter, cur, server, dial, dials, daemon, events>>
      /\ lines' \in Nat /\ check' \in CheckT
    BY DEF LeaveStream, OnlySession, IInv, Shape
<1> QED
    BY <1>3, <1>6, <1>7, QuietStep

\* The goroutine of a session ends.
LEMMA StopWriterKeeps ==
    ASSUME IInv, NEW s \in Sessions, StopWriter(s)
    PROVE  IInv'
<1>1. session[s].loop = "drain"
    BY DEF StopWriter
<1>2. /\ Ended \in SessionT /\ Ended.loop = "done" /\ Ended.lane = {} /\ Ended.closed /\ Ended.cancelled
      /\ Ended.queue = <<>> /\ Ended.owed = {} /\ Ended.writer = "none"
  <2>1. NoFrame \in FrameT /\ NoLine \in LineT
    BY ServeAssumption DEF NoFrame, Reply, FrameT, NoLine, LineT
  <2>2. <<>> \in Seq(FrameT)
    BY EmptySeq
  <2> QED
    BY <2>1, <2>2 DEF Ended, NoSession, SessionT
<1>3. StreamOk(Ended)
    BY <1>2 DEF StreamOk, Answers, Ordered, Gapless, FrameFirst
<1>4. Follows(session[s], Ended) /\ NoNews(session[s], Ended)
    BY <1>1, <1>2, <1>3 DEF Follows, NoNews, Over
<1>5. /\ UNCHANGED <<transport, emitter, cur, dial, dials, daemon, events>>
      /\ session' = [session EXCEPT ![s] = Ended]
      /\ server' = server \/ (transport = "stdio" /\ server' = "done")
      /\ lines' \in Nat /\ check' \in CheckT
    BY DEF StopWriter, IInv, Shape
<1> QED
    BY <1>4, <1>5, QuietStep

\* A request of the lane is answered and gone from it.
LEMMA AnsweredKeeps ==
    ASSUME IInv, NEW s \in Sessions, NEW id \in Nat, session' = Answered(s, id), check' \in CheckT,
           UNCHANGED <<transport, emitter, cur, server, dial, dials, daemon, events, lines>>
    PROVE  IInv'
<1> DEFINE r == session[s]
           u == enqueue(r, Reply(id))
           t == [u EXCEPT !.lane = @ \ {id}]
<1>1. r \in SessionT /\ StreamOk(r) /\ (r.loop \in Over => r.lane = {})
    BY SessionIs
<1>2. Follows(r, u) /\ NoNews(r, u)
    BY <1>1, ReplyFollows
<1>3. session' = [session EXCEPT ![s] = t]
    BY DEF Answered
<1> HIDE DEF u
<1>4. /\ t \in SessionT /\ SameStream(u, t) /\ t.loop = u.loop /\ t.lane \subseteq u.lane
      /\ t.closed = u.closed /\ t.cancelled = u.cancelled
    BY <1>2 DEF Follows, SessionT, SameStream
<1> HIDE DEF t
<1>5. StreamOk(t)
    BY <1>2, <1>4, SameStreamKeeps DEF Follows
<1>6. Follows(r, t)
    BY <1>2, <1>4, <1>5 DEF Follows
<1>7. NoNews(r, t)
    BY <1>2, <1>4 DEF NoNews, SameStream
<1>8. lines' \in Nat
    BY DEF IInv, Shape
<1> QED
    BY <1>3, <1>6, <1>7, <1>8, QuietStep

\* A node check takes the slot or is refused.
LEMMA CheckEntersKeeps ==
    ASSUME IInv, NEW s \in Sessions, NEW id \in 1..MaxLines, CheckEnters(s, id)
    PROVE  IInv'
<1>1. id \in Nat
    BY ServeAssumption
<1>2. CASE session' = Answered(s, id) /\ UNCHANGED check
    BY <1>1, <1>2, AnsweredKeeps DEF CheckEnters, IInv, Shape
<1>3. CASE check' = [session |-> s, id |-> id] /\ UNCHANGED session
  <2>1. check' \in CheckT
    BY <1>1, <1>3 DEF CheckT
  <2>2. UNCHANGED <<transport, session, emitter, cur, server, dial, dials, daemon, events, lines>>
    BY <1>3 DEF CheckEnters
  <2> QED
    BY <2>1, <2>2 DEF IInv, Shape, Streams, LaneIsOpen, Numbered, LastIsActive, NewestIsLast, ClosedIsOver
<1> QED
    BY <1>2, <1>3 DEF CheckEnters

\* A node check ends.
LEMMA CheckEndsKeeps ==
    ASSUME IInv, CheckEnds
    PROVE  IInv'
<1>1. check.session \in Sessions /\ check.id \in Nat
    BY DEF CheckEnds, IInv, Shape, CheckT
<1>2. NoCheck \in CheckT
    BY DEF CheckT
<1> QED
    BY <1>1, <1>2, AnsweredKeeps DEF CheckEnds

-----------------------------------------------------------------------------
(* Events, and the accept loop.                                            *)

\* The daemon's next event joins the emitter's stream.
LEMMA EmittedFollows ==
    ASSUME IInv, emitter # 0, NEW t, t = enqueue(session[emitter], Event(events + 1))
    PROVE  /\ emitter \in Sessions /\ Follows(session[emitter], t)
           /\ t.closed \/ t.failed \/ t.newest = events + 1
           /\ SameLoop(session[emitter], t)
<1> DEFINE r == session[emitter]
           f == Event(events + 1)
<1>1. emitter \in Sessions /\ events \in Nat
    BY ServeAssumption DEF IInv, Shape, Sessions
<1>2. r \in SessionT /\ StreamOk(r) /\ (r.loop \in Over => r.lane = {})
    BY <1>1, SessionIs
<1>3. f \in FrameT /\ f.event /\ f.id = events + 1
    BY <1>1 DEF Event, FrameT
<1>4. NextFrame(r, f)
  <2>1. ~r.closed /\ ~r.failed => r.newest \in {0, events}
    BY DEF IInv, NewestIsLast
  <2> QED
    BY <1>1, <1>3, <2>1 DEF NextFrame
<1> HIDE DEF f, r
<1>5. /\ t \in SessionT /\ StreamOk(t) /\ SameLoop(r, t)
      /\ t.closed \/ t.failed \/ t.newest = f.id
    BY <1>2, <1>3, <1>4, EnqueueKeeps DEF r, f
<1>6. Follows(r, t)
    BY <1>2, <1>5 DEF Follows, SameLoop
<1> QED
    BY <1>1, <1>3, <1>5, <1>6 DEF r

\* The daemon emits an event.
LEMMA EmitKeeps ==
    ASSUME IInv, Emit
    PROVE  IInv'
<1> DEFINE t == enqueue(session[emitter], Event(events + 1))
<1>1. session' = [session EXCEPT ![emitter] = t]
    BY DEF Emit, Emitted
<1>2. /\ emitter # 0 /\ events' = events + 1 /\ lines' = lines /\ check' = check
      /\ UNCHANGED <<transport, emitter, cur, server, dial, dials, daemon>>
    BY DEF Emit
<1> HIDE DEF t
<1>3. /\ emitter \in Sessions /\ Follows(session[emitter], t)
      /\ t.closed \/ t.failed \/ t.newest = events + 1
    BY <1>2, EmittedFollows DEF t
<1>4. events' \in Nat /\ lines' \in Nat /\ check' \in CheckT
    BY <1>2 DEF IInv, Shape
<1> QED
    BY <1>1, <1>2, <1>3, <1>4, SessionStep

\* A peer is turned away, and the session there is told.
LEMMA AcceptRefusedKeeps ==
    ASSUME IInv, AcceptRefused
    PROVE  IInv'
<1>1. /\ UNCHANGED <<transport, emitter, cur, server, dials, daemon>> /\ dial' = "none"
      /\ lines' \in Nat /\ check' \in CheckT
    BY DEF AcceptRefused, IInv, Shape
<1>2. events \in Nat /\ events' \in Nat
    BY DEF AcceptRefused, IInv, Shape
<1>3. CASE emitter # 0 /\ events < MaxEvents
  <2> DEFINE t == enqueue(session[emitter], Event(events + 1))
  <2>1. session' = [session EXCEPT ![emitter] = t] /\ events' = events + 1
    BY <1>3 DEF AcceptRefused, Emitted
  <2> HIDE DEF t
  <2>2. /\ emitter \in Sessions /\ Follows(session[emitter], t)
        /\ t.closed \/ t.failed \/ t.newest = events + 1
    BY <1>3, EmittedFollows DEF t
  <2> QED
    BY <1>1, <1>2, <2>1, <2>2, SessionStep
<1>4. CASE ~(emitter # 0 /\ events < MaxEvents)
  <2>1. /\ session' = session /\ (events' = events \/ emitter = 0)
    BY <1>4 DEF AcceptRefused, Emitted
  <2>2. 1 \in Sessions /\ session \in [Sessions -> SessionT]
    BY ServeAssumption DEF Sessions, IInv, Shape
  <2> DEFINE t == session[1]
  <2>3. session' = [session EXCEPT ![1] = t]
    BY <2>1, <2>2
  <2>4. Follows(session[1], t)
    BY <2>2, SessionIs DEF Follows
  <2>5. 1 = emitter => t.closed \/ t.failed \/ t.newest \in {0, events'}
    BY <2>1 DEF IInv, NewestIsLast
  <2> HIDE DEF t
  <2> QED
    BY <1>1, <1>2, <2>1, <2>2, <2>3, <2>4, <2>5, SessionStep
<1> QED
    BY <1>3, <1>4

\* A connection comes in.
LEMMA DialKeeps ==
    ASSUME IInv, NEW kind \in {"allowed", "refused"}, Dial(kind)
    PROVE  IInv'
<1>1. /\ UNCHANGED <<transport, session, emitter, cur, server, daemon, events, lines, check>>
      /\ dial = "none" /\ dial' = kind /\ dials < MaxDials /\ dials' = dials + 1
    BY DEF Dial
<1>2. Shape'
    BY <1>1, ServeAssumption DEF IInv, Shape
<1>3. Numbered'
    BY <1>1 DEF IInv, Shape, Numbered
<1> QED
    BY <1>1, <1>2, <1>3 DEF IInv, Streams, LaneIsOpen, LastIsActive, NewestIsLast, ClosedIsOver

\* The service is told to stop.
LEMMA ShutdownKeeps ==
    ASSUME IInv, Shutdown
    PROVE  IInv'
<1>1. UNCHANGED <<transport, emitter, cur, server, dial, dials, daemon, events, lines, check>>
    BY DEF Shutdown
<1>2. ASSUME NEW s \in Sessions
      PROVE  /\ Follows(session[s], session'[s])
             /\ session[s].loop \notin {"none", "done"} => session'[s].cancelled
             /\ \/ NoNews(session[s], session'[s])
                \/ session'[s] = session[s]
  <2>1. session'[s] = IF session[s].loop \in {"none", "done"} THEN session[s] ELSE cancel(session[s])
    BY DEF Shutdown
  <2>2. /\ session[s] \in SessionT /\ StreamOk(session[s])
        /\ session[s].loop \in Over => session[s].lane = {}
    BY SessionIs
  <2>3. Follows(session[s], session[s])
    BY <2>2 DEF Follows
  <2> QED
    BY <2>1, <2>2, <2>3, CancelFollows
<1>3. session' \in [Sessions -> SessionT]
  <2>1. session' = [s \in Sessions |-> session'[s]]
    BY DEF Shutdown
  <2> QED
    BY <1>2, <2>1 DEF Follows
<1>4. Shape'
    BY <1>1, <1>3 DEF IInv, Shape
<1>5. Streams' /\ LaneIsOpen'
    BY <1>2 DEF Streams, LaneIsOpen, Follows
<1>6. Numbered'
    BY <1>1, <1>2 DEF IInv, Numbered, Follows
<1>7. LastIsActive'
    BY <1>1, <1>2 DEF IInv, LastIsActive, Follows
<1>8. NewestIsLast'
  <2>1. emitter # 0 => emitter \in Sessions
    BY ServeAssumption DEF IInv, Shape, Sessions
  <2> QED
    BY <1>1, <1>2, <2>1 DEF IInv, NewestIsLast, NoNews
<1>9. ClosedIsOver'
    BY <1>1, <1>2 DEF IInv, ClosedIsOver, Follows
<1> QED
    BY <1>4, <1>5, <1>6, <1>7, <1>8, <1>9 DEF IInv

\* A fresh session has a stream with nothing in it.
LEMMA StartedIs ==
    /\ Started \in SessionT /\ StreamOk(Started) /\ Started.loop = "select" /\ Started.newest = 0
    /\ NoSession \in SessionT /\ StreamOk(NoSession)
    /\ NoSession.loop = "none" /\ NoSession.lane = {} /\ NoSession.newest = 0
<1>1. NoFrame \in FrameT /\ NoLine \in LineT
    BY ServeAssumption DEF NoFrame, Reply, FrameT, NoLine, LineT
<1>2. <<>> \in Seq(FrameT)
    BY EmptySeq
<1>3. /\ NoSession \in SessionT
      /\ NoSession.loop = "none" /\ NoSession.lane = {} /\ NoSession.newest = 0
      /\ NoSession.queue = <<>> /\ NoSession.owed = {} /\ NoSession.writer = "none"
    BY <1>1, <1>2 DEF NoSession, SessionT
<1>4. /\ Started \in SessionT
      /\ Started.loop = "select" /\ Started.newest = 0
      /\ Started.queue = <<>> /\ Started.owed = {} /\ Started.writer = "idle"
    BY <1>1, <1>2 DEF Started, NoSession, SessionT
<1> QED
    BY <1>3, <1>4 DEF StreamOk, Answers, Ordered, Gapless, FrameFirst

\* A new client starts the session after the last one.
LEMMA NewSessionIsNext ==
    ASSUME IInv, server = "accept", dial # "none"
    PROVE  NewSession = emitter + 1 /\ emitter + 1 \in Sessions
<1>1. /\ emitter \in Nat /\ MaxDials \in Nat /\ dials \in Nat /\ dials <= MaxDials
      /\ emitter + 1 <= dials
    BY ServeAssumption DEF IInv, Shape, Numbered
<1>2. emitter + 1 \in Sessions
    BY <1>1 DEF Sessions
<1>3. \A s \in Sessions : session[s].loop # "none" <=> s <= emitter
    BY DEF IInv, Numbered
<1> DEFINE First(s) == session[s].loop = "none" /\ \A t \in Sessions : session[t].loop = "none" => s <= t
<1>4. \A s \in Sessions : First(s) <=> s = emitter + 1
  <2> SUFFICES ASSUME NEW s \in Sessions PROVE First(s) <=> s = emitter + 1
    OBVIOUS
  <2>1. s \in Nat
    BY DEF Sessions
  <2>2. ASSUME First(s) PROVE s = emitter + 1
    BY <1>1, <1>2, <1>3, <2>1, <2>2
  <2>3. ASSUME s = emitter + 1 PROVE First(s)
    BY <1>1, <1>3, <2>3 DEF Sessions
  <2> QED
    BY <2>2, <2>3
<1>5. NewSession = CHOOSE s \in Sessions : First(s)
    BY DEF NewSession
<1> HIDE DEF First
<1> QED
    BY <1>2, <1>4, <1>5

\* A client the policy admits displaces the session there is.
LEMMA AcceptKeeps ==
    ASSUME IInv, Accept
    PROVE  IInv'
<1> DEFINE n == emitter + 1
<1>1. /\ server = "accept" /\ dial = "allowed" /\ dial' = "none"
      /\ UNCHANGED <<transport, server, dials, daemon, events, lines, check>>
      /\ daemon # "closed" /\ transport = "listener" /\ cur = emitter
    BY DEF Accept, IInv, Shape, Numbered, ClosedIsOver
<1>2. NewSession = n /\ n \in Sessions /\ emitter \in Nat /\ MaxDials \in Nat
    BY <1>1, ServeAssumption, NewSessionIsNext DEF IInv, Shape
<1>3. /\ cur' = n /\ emitter' = n
      /\ session' = [s \in Sessions |-> IF s = emitter THEN close(session[s])
                                       ELSE IF s = n THEN Started ELSE session[s]]
    BY <1>1, <1>2 DEF Accept
<1> HIDE DEF n
<1>4. n = emitter + 1 /\ n # emitter
    BY <1>2 DEF n
<1>5. /\ session'[n] = Started
      /\ \A s \in Sessions : s # n /\ s # emitter => session'[s] = session[s]
      /\ \A s \in Sessions : s = emitter => session'[s] = close(session[s])
    BY <1>2, <1>3, <1>4
<1>6. ASSUME NEW s \in Sessions, s # n
      PROVE  /\ Follows(session[s], session'[s])
             /\ s = emitter => session'[s].cancelled
  <2>1. /\ session[s] \in SessionT /\ StreamOk(session[s])
        /\ session[s].loop \in Over => session[s].lane = {}
    BY SessionIs
  <2>2. Follows(session[s], session[s])
    BY <2>1 DEF Follows
  <2>3. Follows(session[s], close(session[s])) /\ close(session[s]).cancelled
    BY <2>1, CloseFollows
  <2> QED
    BY <1>5, <1>6, <2>2, <2>3
<1>7. ASSUME NEW s \in Sessions
      PROVE  /\ session'[s] \in SessionT /\ StreamOk(session'[s])
             /\ session'[s].loop \in Over => session'[s].lane = {}
  <2>1. CASE s = n
    BY <1>5, <2>1, StartedIs DEF Over
  <2>2. CASE s # n
    BY <1>6, <2>2 DEF Follows
  <2> QED
    BY <2>1, <2>2
<1>8. Shape'
  <2>1. session' \in [Sessions -> SessionT]
    BY <1>3, <1>7
  <2>2. n \in 0..MaxDials
    BY <1>2 DEF Sessions
  <2> QED
    BY <1>1, <1>3, <2>1, <2>2 DEF IInv, Shape
<1>9. Streams' /\ LaneIsOpen'
    BY <1>7 DEF Streams, LaneIsOpen
<1>10. Numbered'
  <2>1. \A s \in Sessions : session[s].loop # "none" <=> s <= emitter
    BY DEF IInv, Numbered
  <2>2. \A s \in Sessions : session'[s].loop # "none" <=> s <= n
    <3> SUFFICES ASSUME NEW s \in Sessions PROVE session'[s].loop # "none" <=> s <= n
      OBVIOUS
    <3>1. s \in Nat
      BY DEF Sessions
    <3>2. CASE s = n
      BY <1>5, <3>1, <3>2, StartedIs
    <3>3. CASE s # n
      <4>1. session'[s].loop # "none" <=> session[s].loop # "none"
        BY <1>6, <3>3 DEF Follows
      <4>2. s <= n <=> s <= emitter
        BY <1>2, <1>4, <3>1, <3>3
      <4> QED
        BY <2>1, <4>1, <4>2
    <3> QED
      BY <3>2, <3>3
  <2>3. emitter + 1 <= dials /\ dials \in Nat
    BY <1>1 DEF IInv, Shape, Numbered
  <2> QED
    BY <1>1, <1>2, <1>3, <1>4, <2>2, <2>3 DEF IInv, Numbered
<1>11. LastIsActive'
  <2> SUFFICES ASSUME NEW s \in Sessions, session'[s].loop \notin {"none", "done"},
                      ~session'[s].cancelled
               PROVE  s = n
    BY <1>1, <1>3 DEF LastIsActive
  <2>1. CASE s # n
    BY <1>5, <1>6, <2>1 DEF IInv, LastIsActive
  <2> QED
    BY <2>1
<1>12. NewestIsLast'
    BY <1>3, <1>5, StartedIs DEF NewestIsLast
<1>13. ClosedIsOver'
    BY <1>1 DEF ClosedIsOver
<1> QED
    BY <1>8, <1>9, <1>10, <1>11, <1>12, <1>13 DEF IInv

\* The listener is gone, and the last session is closed.
LEMMA AcceptFailsKeeps ==
    ASSUME IInv, AcceptFails
    PROVE  IInv'
<1>1. /\ server = "accept" /\ server' = "join" /\ cur' = 0 /\ dial' = "none"
      /\ UNCHANGED <<transport, emitter, dials, daemon, events, lines, check>>
      /\ transport = "listener" /\ cur = emitter /\ daemon # "closed"
    BY DEF AcceptFails, IInv, Shape, Numbered, ClosedIsOver
<1>2. emitter # 0 => emitter \in Sessions
    BY ServeAssumption DEF IInv, Shape, Sessions
<1>3. /\ emitter = 0 => session' = session
      /\ emitter # 0 => session' = [session EXCEPT ![emitter] = close(session[emitter])]
      /\ session \in [Sessions -> SessionT]
    BY <1>1 DEF AcceptFails, IInv, Shape
<1>4. /\ \A s \in Sessions : s # emitter => session'[s] = session[s]
      /\ \A s \in Sessions : s = emitter => session'[s] = close(session[s])
      /\ session' = [s \in Sessions |-> session'[s]]
    BY <1>2, <1>3, ServeAssumption DEF Sessions
<1>5. ASSUME NEW s \in Sessions
      PROVE  /\ Follows(session[s], session'[s])
             /\ s = emitter => session'[s].cancelled /\ NoNews(session[s], session'[s])
  <2>1. /\ session[s] \in SessionT /\ StreamOk(session[s])
        /\ session[s].loop \in Over => session[s].lane = {}
    BY SessionIs
  <2>2. Follows(session[s], session[s])
    BY <2>1 DEF Follows
  <2>3. /\ Follows(session[s], close(session[s])) /\ close(session[s]).cancelled
        /\ NoNews(session[s], close(session[s]))
    BY <2>1, CloseFollows
  <2> QED
    BY <1>4, <2>2, <2>3
<1>6. Shape'
  <2>1. session' \in [Sessions -> SessionT]
    BY <1>4, <1>5 DEF Follows
  <2> QED
    BY <1>1, <2>1, ServeAssumption DEF IInv, Shape
<1>7. Streams' /\ LaneIsOpen'
    BY <1>5 DEF Streams, LaneIsOpen, Follows
<1>8. Numbered'
  <2>1. \A s \in Sessions : session'[s].loop # "none" <=> s <= emitter
    BY <1>5 DEF IInv, Numbered, Follows
  <2> QED
    BY <1>1, <2>1 DEF IInv, Shape, Numbered
<1>9. LastIsActive'
    BY <1>1, <1>5 DEF IInv, LastIsActive, Follows
<1>10. NewestIsLast'
    BY <1>1, <1>2, <1>5 DEF IInv, NewestIsLast, NoNews
<1>11. ClosedIsOver'
    BY <1>1 DEF ClosedIsOver
<1> QED
    BY <1>6, <1>7, <1>8, <1>9, <1>10, <1>11 DEF IInv

\* Over stdio the daemon is closed as soon as the one loop has left its stream.
LEMMA CloseAfterStreamKeeps ==
    ASSUME IInv, CloseAfterStream
    PROVE  IInv'
<1> DEFINE r == session[1]
           u == IF events < MaxEvents THEN enqueue(r, Event(events + 1)) ELSE r
           t == [u EXCEPT !.closed = TRUE, !.loop = "drain"]
<1>1. /\ transport = "stdio" /\ emitter = 1 /\ server' = "drain" /\ events' \in Nat
      /\ r.loop = "lane" /\ r.lane = {}
      /\ UNCHANGED <<transport, emitter, cur, dial, dials, lines, check>>
    BY DEF CloseAfterStream, IInv, Shape, Numbered
<1>2. 1 \in Sessions /\ session \in [Sessions -> SessionT]
    BY ServeAssumption DEF Sessions, IInv, Shape
<1>3. session' = [session EXCEPT ![1] = t]
  <2>1. session' = [[session EXCEPT ![1] = u] EXCEPT ![1].closed = TRUE, ![1].loop = "drain"]
    <3>1. CASE events < MaxEvents
      BY <1>1, <3>1 DEF CloseAfterStream, Emitted
    <3>2. CASE ~(events < MaxEvents)
      <4>1. session = [session EXCEPT ![1] = r]
        BY <1>2
      <4> QED
        BY <1>1, <3>2, <4>1 DEF CloseAfterStream, Emitted
    <3> QED
      BY <3>1, <3>2
  <2> HIDE DEF u
  <2> QED
    BY <1>2, <2>1
<1>4. Follows(r, u) /\ u.loop = r.loop /\ u.lane = r.lane
  <2>1. r \in SessionT /\ StreamOk(r) /\ (r.loop \in Over => r.lane = {})
    BY <1>2, SessionIs
  <2>2. Follows(r, r)
    BY <2>1 DEF Follows
  <2>3. /\ Follows(r, enqueue(r, Event(events + 1)))
        /\ SameLoop(r, enqueue(r, Event(events + 1)))
    BY <1>1, EmittedFollows
  <2> QED
    BY <2>2, <2>3 DEF SameLoop
<1> HIDE DEF u, r
<1>5. /\ t \in SessionT /\ SameStream(u, t) /\ t.closed /\ t.loop = "drain" /\ t.lane = {}
      /\ t.cancelled = u.cancelled
    BY <1>1, <1>4 DEF Follows, SessionT, SameStream
<1> HIDE DEF t
<1>6. Follows(r, t)
  <2>1. StreamOk(t)
    BY <1>4, <1>5, SameStreamKeeps DEF Follows
  <2> QED
    BY <1>1, <1>4, <1>5, <2>1 DEF Follows, Over
<1>7. /\ session' \in [Sessions -> SessionT]
      /\ session'[1] = t /\ \A s \in Sessions : s # 1 => session'[s] = session[s]
    BY <1>2, <1>3, <1>5
<1>8. Shape'
    BY <1>1, <1>7, <1>2 DEF IInv, Shape, CloseAfterStream
<1>9. Streams' /\ LaneIsOpen'
    BY <1>6, <1>7 DEF IInv, Streams, LaneIsOpen, Follows
<1>10. \A s \in Sessions : session'[s].loop # "none" <=> s <= 1
    BY <1>1, <1>5, <1>7 DEF IInv, Numbered, r
<1>11. Numbered'
    BY <1>1, <1>10 DEF IInv, Shape, Numbered
<1>12. \A s \in Sessions : s # 1 => session'[s].loop = "none"
    BY <1>10 DEF Sessions
<1>13. LastIsActive'
    BY <1>1, <1>12 DEF LastIsActive
<1>14. NewestIsLast'
    BY <1>1, <1>5, <1>7 DEF NewestIsLast
<1>15. ClosedIsOver'
    BY <1>1, <1>5, <1>7, <1>12 DEF ClosedIsOver, Over
<1> QED
    BY <1>8, <1>9, <1>11, <1>13, <1>14, <1>15 DEF IInv

\* The sessions are joined before the daemon is closed.
LEMMA CloseAfterSessionsKeeps ==
    ASSUME IInv, CloseAfterSessions
    PROVE  IInv'
<1>1. /\ server = "join" /\ server' = "done"
      /\ \A s \in Sessions : session[s].loop \in {"none", "done"}
      /\ UNCHANGED <<transport, session, emitter, cur, dial, dials, events, lines, check>>
    BY DEF CloseAfterSessions
<1>2. Shape' /\ Streams' /\ LaneIsOpen'
    BY <1>1 DEF IInv, Shape, Streams, LaneIsOpen
<1>3. Numbered'
    BY <1>1 DEF IInv, Numbered
<1>4. LastIsActive' /\ NewestIsLast' /\ ClosedIsOver'
    BY <1>1 DEF IInv, LastIsActive, NewestIsLast, ClosedIsOver, Over
<1> QED
    BY <1>2, <1>3, <1>4 DEF IInv

-----------------------------------------------------------------------------
(* The invariant.                                                          *)

\* Nobody is attached, or the one session of a sidecar has begun.
LEMMA InitIInv == Init => IInv
<1> SUFFICES ASSUME Init PROVE IInv
    OBVIOUS
<1>1. transport \in {"listener", "stdio"} /\ MaxDials \in Nat /\ MaxDials >= 1
    BY ServeAssumption DEF Init
<1>2. \A s \in Sessions : session[s] = IF transport = "stdio" /\ s = 1 THEN Started ELSE NoSession
    BY DEF Init
<1>3. session \in [Sessions -> SessionT]
    BY StartedIs DEF Init
<1>4. Shape
    BY <1>1, <1>3 DEF Init, Shape, CheckT
<1>5. Streams /\ LaneIsOpen
    BY <1>2, StartedIs DEF Streams, LaneIsOpen, Over
<1>6. \A s \in Sessions : session[s].loop # "none" <=> s <= emitter
  <2> SUFFICES ASSUME NEW s \in Sessions PROVE session[s].loop # "none" <=> s <= emitter
    OBVIOUS
  <2>1. s \in Nat /\ s >= 1
    BY DEF Sessions
  <2> QED
    BY <1>1, <1>2, <2>1, StartedIs DEF Init
<1>7. Numbered
    BY <1>1, <1>6 DEF Init, Numbered
<1>8. LastIsActive
    BY <1>1, <1>2, StartedIs DEF Init, LastIsActive
<1>9. NewestIsLast
    BY <1>1, <1>2, StartedIs DEF Init, NewestIsLast, Sessions
<1>10. ClosedIsOver
    BY DEF Init, ClosedIsOver
<1> QED
    BY <1>4, <1>5, <1>7, <1>8, <1>9, <1>10 DEF IInv

\* Every step of the control server keeps the invariant.
LEMMA NextIInv == IInv /\ [Next]_vars => IInv'
<1> SUFFICES ASSUME IInv, [Next]_vars PROVE IInv'
    OBVIOUS
<1>1. CASE UNCHANGED vars
    BY <1>1 DEF vars, IInv, Shape, Streams, LaneIsOpen, Numbered, LastIsActive, NewestIsLast,
               ClosedIsOver
<1>2. CASE \E s \in Sessions :
              \/ ClientLeaves(s)
              \/ WriterTakes(s) \/ WriterStops(s) \/ Written(s) \/ WriteFails(s) \/ DropStalled(s)
              \/ (\E cmd \in Cmds : ScanLine(s, cmd)) \/ ScanEnds(s) \/ Select(s) \/ HandleLine(s)
              \/ LeaveStream(s) \/ StopWriter(s)
              \/ \E id \in 1..MaxLines : CheckEnters(s, id)
    BY <1>2, ClientLeavesKeeps, WriterTakesKeeps, WriterStopsKeeps, WrittenKeeps, WriteFailsKeeps,
       DropStalledKeeps, ScanLineKeeps, ScanEndsKeeps, SelectKeeps, HandleLineKeeps,
       LeaveStreamKeeps, StopWriterKeeps, CheckEntersKeeps
<1>3. CASE (\E kind \in {"allowed", "refused"} : Dial(kind)) \/ Shutdown
    BY <1>3, DialKeeps, ShutdownKeeps
<1>4. CASE Emit \/ CloseAfterStream \/ CheckEnds
    BY <1>4, EmitKeeps, CloseAfterStreamKeeps, CheckEndsKeeps
<1>5. CASE AcceptRefused \/ Accept \/ AcceptFails \/ CloseAfterSessions
    BY <1>5, AcceptRefusedKeeps, AcceptKeeps, AcceptFailsKeeps, CloseAfterSessionsKeeps
<1> QED
    BY <1>1, <1>2, <1>3, <1>4, <1>5 DEF Next

\* The invariant holds in every reachable state.
LEMMA ServeInvariant == Spec => []IInv
BY InitIInv, NextIInv, PTL DEF Spec

\* The frames of a queue are the ones at its places.
LEMMA InIsRange ==
    ASSUME NEW q \in Seq(FrameT), NEW f
    PROVE  In(f, q) <=> f \in Range(q)
<1>1. DOMAIN q = 1..Len(q)
    OBVIOUS
<1> QED
    BY <1>1 DEF In, Range

\* An answer handed over is delivered or still pending, events are shed oldest
\* first, and one session is active: what a client is promised on its stream
\* (enqueue, dropOldestEventLocked, writeFrame and ServeListener of server.go).
THEOREM ServeKeepsStreams == Spec => []StreamIsKept
<1>1. IInv => StreamIsKept
  <2> SUFFICES ASSUME IInv PROVE StreamIsKept
    OBVIOUS
  <2>1. ResponsesKept
    <3> SUFFICES ASSUME NEW s \in Sessions, NEW id \in session[s].owed
                 PROVE  Reply(id) \in Pending(session[s])
      BY DEF ResponsesKept
    <3>1. session[s] \in SessionT /\ StreamOk(session[s])
      BY SessionIs
    <3>2. session[s].queue \in Seq(FrameT)
      BY <3>1 DEF SessionT
    <3>3. In(Reply(id), session[s].queue) <=> Reply(id) \in Range(session[s].queue)
      BY <3>2, InIsRange
    <3> QED
      BY <3>1, <3>3 DEF StreamOk, Answers, Pending
  <2>2. OldestEventShedFirst
    <3> SUFFICES ASSUME NEW s \in Sessions, NEW n \in 1..MaxEvents,
                        Event(n) \in Range(session[s].queue),
                        NEW m \in n..session[s].newest
                 PROVE  Event(m) \in Range(session[s].queue)
      BY DEF OldestEventShedFirst
    <3> DEFINE q == session[s].queue
    <3>1. q \in Seq(FrameT) /\ Gapless(q, session[s].newest)
      BY SessionIs DEF SessionT, StreamOk
    <3>2. PICK i \in 1..Len(q) : q[i] = Event(n)
      BY <3>1, InIsRange DEF In
    <3>3. q[i].event /\ q[i].id = n
      BY <3>2 DEF Event
    <3>4. In(Event(m), q)
      BY <3>1, <3>3 DEF Gapless
    <3> QED
      BY <3>1, <3>4, InIsRange
  <2>3. OneActiveSession
    BY DEF IInv, LastIsActive, OneActiveSession, Numbered
  <2> QED
    BY <2>1, <2>2, <2>3 DEF StreamIsKept
<1> QED
    BY <1>1, ServeInvariant, PTL

\* Once Close has run no loop holds a request and no command runs in the
\* background, over either transport (serveStream, ServeListener).
THEOREM ServeQuietAfterClose == Spec => []QuietAfterClose
<1>1. IInv => QuietAfterClose
    BY DEF IInv, ClosedIsOver, LaneIsOpen, QuietAfterClose, Over
<1> QED
    BY <1>1, ServeInvariant, PTL
=============================================================================
