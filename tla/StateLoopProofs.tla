-------------------------- MODULE StateLoopProofs --------------------------
(***************************************************************************)
(* Proofs about StateLoop, for every number of event threads, clients and  *)
(* subscribers and every bound on the channels: the flag and the queue     *)
(* never disagree, no event is forgotten in silence, and a client that     *)
(* waits is owed exactly one answer.                                       *)
(***************************************************************************)
EXTENDS StateLoop, SequenceTheorems, TLAPS

Envelopes == Clients \cup {Wake}

\* Between envelopes the loop serves nobody.
Placed == pc \in {"start", "warm", "top", "observe", "receive"} => cur = None

Once(e) == \A i, j \in Queued(e) : i = j

IInv == TypeOK /\ Placed /\ WakeToken /\ PromptWake /\ WaitingIsServed

-----------------------------------------------------------------------------
\* What the two ends of the queue do to the places an envelope has in it.
LEMMA Enqueue ==
  ASSUME queue \in Seq(Envelopes), NEW CONSTANT x \in Envelopes,
         queue' = Append(queue, x), NEW CONSTANT e
  PROVE  Queued(e)' = IF e = x THEN Queued(e) \cup {Len(queue) + 1} ELSE Queued(e)
<1>1. /\ Len(queue) \in Nat /\ Len(queue') = Len(queue) + 1
      /\ \A i \in 1 .. Len(queue) : queue'[i] = queue[i]
      /\ queue'[Len(queue) + 1] = x
  BY AppendProperties
<1>2. DOMAIN queue = 1 .. Len(queue) /\ DOMAIN queue' = 1 .. Len(queue) + 1
  BY <1>1
<1>3. \A i : i \in Queued(e)' <=> i \in 1 .. Len(queue) + 1 /\ queue'[i] = e
  BY <1>2 DEF Queued
<1>4. \A i : i \in Queued(e) <=> i \in 1 .. Len(queue) /\ queue[i] = e
  BY <1>2 DEF Queued
<1>5. \A i : i \in 1 .. Len(queue) + 1 <=> i \in 1 .. Len(queue) \/ i = Len(queue) + 1
  BY <1>1
<1>6. Len(queue) + 1 \notin 1 .. Len(queue)
  BY <1>1
<1> QED
  BY <1>1, <1>3, <1>4, <1>5, <1>6

LEMMA Dequeue ==
  ASSUME queue \in Seq(Envelopes), queue # <<>>, queue' = Tail(queue),
         NEW CONSTANT e, Once(e)
  PROVE  /\ Once(e)'
         /\ e = Head(queue) => Queued(e) # {} /\ Queued(e)' = {}
         /\ e # Head(queue) => (Queued(e)' # {} <=> Queued(e) # {})
<1>1. /\ Len(queue) \in Nat \ {0} /\ Len(queue') = Len(queue) - 1
      /\ Head(queue) = queue[1] /\ \A i \in 1 .. Len(queue) - 1 : queue'[i] = queue[i + 1]
  BY HeadTailProperties
<1>2. DOMAIN queue = 1 .. Len(queue) /\ DOMAIN queue' = 1 .. Len(queue) - 1
  BY <1>1, HeadTailProperties
<1>3. \A i : i \in Queued(e)' <=> i \in 1 .. Len(queue) - 1 /\ queue[i + 1] = e
  BY <1>1, <1>2 DEF Queued
<1>4. \A i : i \in Queued(e) <=> i \in 1 .. Len(queue) /\ queue[i] = e
  BY <1>2 DEF Queued
<1>5. \A i \in Queued(e)' : i \in Nat /\ i + 1 \in Queued(e) /\ i + 1 # 1
  BY <1>1, <1>3, <1>4
<1>6. Once(e)'
  <2> SUFFICES ASSUME NEW i \in Queued(e)', NEW j \in Queued(e)' PROVE i = j
    BY DEF Once
  <2>1. i + 1 = j + 1
    BY <1>5 DEF Once
  <2> QED
    BY <2>1, <1>5
<1>7. ASSUME e = Head(queue) PROVE Queued(e) # {} /\ Queued(e)' = {}
  <2>1. 1 \in Queued(e)
    BY <1>1, <1>4, <1>7
  <2> QED
    BY <2>1, <1>5 DEF Once
<1>8. ASSUME e # Head(queue), Queued(e) # {} PROVE Queued(e)' # {}
  <2>1. PICK i \in Queued(e) : TRUE
    BY <1>8
  <2>2. i \in 2 .. Len(queue)
    BY <2>1, <1>1, <1>4, <1>8
  <2>3. i - 1 \in 1 .. Len(queue) - 1 /\ (i - 1) + 1 = i
    BY <2>2, <1>1
  <2>4. i - 1 \in Queued(e)'
    BY <2>1, <2>3, <1>3, <1>4
  <2> QED
    BY <2>4
<1> QED
  BY <1>5, <1>6, <1>7, <1>8

-----------------------------------------------------------------------------
\* Every variable keeps its type.
Streams == [Subscribers -> Seq({"hello", "note"})]

LEMMA DeliverTypes ==
  ASSUME registry \subseteq Subscribers, stream \in Streams,
         missed \in [Subscribers -> BOOLEAN], NEW some, Deliver(some)
  PROVE  /\ registry' \subseteq Subscribers /\ stream' \in Streams
         /\ missed' \in [Subscribers -> BOOLEAN]
<1>1. CASE some
  <2>1. \A s \in Subscribers : Append(stream[s], "note") \in Seq({"hello", "note"})
    BY AppendProperties DEF Streams
  <2>2. \A s \in Subscribers : missed[s] \in BOOLEAN
    OBVIOUS
  <2> QED
    BY <1>1, <2>1, <2>2 DEF Deliver, Streams
<1>2. CASE ~some
  BY <1>2 DEF Deliver
<1> QED
  BY <1>1, <1>2

\* The parts of the state, and the steps that may disturb each.
EventTypes  == dirty \in BOOLEAN /\ late \in BOOLEAN
LoopTypes   ==
  /\ wake \in BOOLEAN /\ due \in BOOLEAN
  /\ pc \in {"start", "warm", "top", "observe", "receive", "acknowledge",
             "refresh", "handle", "respond", "stuck"}
  /\ cur \in Envelopes \cup {None}
QueueTypes  == queue \in Seq(Envelopes) /\ Len(queue) <= QueueCap
ThreadTypes ==
  /\ watcher \in [Watchers -> {"idle", "noticed", "sending", "refused"}]
  /\ client \in [Clients -> {"idle", "sending", "waiting"}]
StreamTypes ==
  /\ registry \subseteq Subscribers
  /\ reader \in [Subscribers -> {"away", "acknowledged", "open"}]
  /\ stream \in Streams
  /\ heard \in [Subscribers -> BOOLEAN] /\ missed \in [Subscribers -> BOOLEAN]
ProcessTypes ==
  /\ shutdown \in BOOLEAN /\ watching \in BOOLEAN
  /\ exit \in {None, "clean", "restart"} /\ hangs \in 0 .. MaxHangs

LEMMA TypesAre ==
  TypeOK <=> EventTypes /\ LoopTypes /\ QueueTypes /\ ThreadTypes /\ StreamTypes
             /\ ProcessTypes
  BY DEF TypeOK, EventTypes, LoopTypes, QueueTypes, ThreadTypes, StreamTypes,
         ProcessTypes, Streams, Envelopes
LEMMA InitTypes == Init => TypeOK
<1> SUFFICES ASSUME Init PROVE TypeOK
  OBVIOUS
<1> USE StateLoopAssumption DEF Init
<1>1. <<>> \in Seq(Envelopes) /\ <<>> \in Seq({"hello", "note"}) /\ Len(<<>>) = 0
  BY EmptySeq
<1>2. EventTypes /\ LoopTypes
  BY DEF EventTypes, LoopTypes
<1>a. ProcessTypes
  <2>1. hangs \in 0 .. MaxHangs
    BY SMT
  <2> QED
    BY <2>1, Zenon DEF ProcessTypes
<1>3. QueueTypes
  BY <1>1 DEF QueueTypes
<1>4. ThreadTypes
  BY DEF ThreadTypes
<1>5. StreamTypes
  BY <1>1 DEF StreamTypes, Streams
<1> QED
  BY <1>2, <1>a, <1>3, <1>4, <1>5, TypesAre

LEMMA EventMoves ==
  [Next]_vars => \/ UNCHANGED events \/ Launch
                 \/ \E ok \in BOOLEAN : Snapshot(ok)
                 \/ \E w \in Watchers : Notice(w) \/ GiveUpWake(w)
  BY DEF Next, vars, events, streams, process, Watcher, Client, Subscriber, Loop,
         Observing, Notice, RequestWake, TrySendWake, GiveUpWake, Ask, Send, Subscribe,
         Register, Write, WriterEnds, Listen, LoopShutdown, LoopReceive, LoopTop,
         LoopAcknowledge, LoopRefresh, LoopHandle, LoopRespond, LoopWarm, LoopObserve,
         Hang, FallsDue, Signal, Watchdog, Launch

LEMMA QueueMoves ==
  [Next]_vars => \/ UNCHANGED queue \/ LoopReceive \/ Launch
                 \/ \E w \in Watchers : TrySendWake(w)
                 \/ \E c \in Clients : Send(c)
  BY DEF Next, vars, events, streams, process, Watcher, Client, Subscriber, Loop,
         Observing, Notice, RequestWake, TrySendWake, GiveUpWake, Ask, Send, Subscribe,
         Register, Write, WriterEnds, Listen, LoopShutdown, LoopReceive, LoopTop,
         LoopAcknowledge, LoopRefresh, LoopHandle, LoopRespond, LoopWarm, LoopObserve,
         Hang, FallsDue, Signal, Watchdog, Launch

LEMMA StreamMoves ==
  [Next]_vars =>
    \/ UNCHANGED streams \/ Launch
    \/ UNCHANGED <<reader, heard>> /\ \E some \in BOOLEAN : Deliver(some)
    \/ \E s \in Subscribers : Subscribe(s) \/ Register(s) \/ Write(s) \/ WriterEnds(s)
  BY DEF Next, vars, events, streams, process, Watcher, Client, Subscriber, Loop,
         Observing, Notice, RequestWake, TrySendWake, GiveUpWake, Ask, Send, Subscribe,
         Register, Write, WriterEnds, Listen, LoopShutdown, LoopReceive, LoopTop,
         LoopAcknowledge, LoopRefresh, LoopHandle, LoopRespond, LoopWarm, LoopObserve,
         Hang, FallsDue, Signal, Watchdog, Launch

LEMMA ProcessMoves ==
  [Next]_vars => UNCHANGED process \/ LoopShutdown \/ Hang \/ Signal \/ Watchdog \/ Launch
  BY DEF Next, vars, events, streams, process, Watcher, Client, Subscriber, Loop,
         Observing, Notice, RequestWake, TrySendWake, GiveUpWake, Ask, Send, Subscribe,
         Register, Write, WriterEnds, Listen, LoopShutdown, LoopReceive, LoopTop,
         LoopAcknowledge, LoopRefresh, LoopHandle, LoopRespond, LoopWarm, LoopObserve,
         Hang, FallsDue, Signal, Watchdog, Launch

LEMMA NextTypes == TypeOK /\ [Next]_vars => TypeOK'
<1> SUFFICES ASSUME TypeOK, [Next]_vars PROVE TypeOK'
  OBVIOUS
<1>0. EventTypes /\ LoopTypes /\ QueueTypes /\ ThreadTypes /\ StreamTypes /\ ProcessTypes
  BY TypesAre
<1> USE <1>0, StateLoopAssumption
<1>1. EventTypes'
  BY EventMoves DEF EventTypes, events, Launch, Snapshot, Notice, GiveUpWake
<1>2. QueueTypes'
  <2>1. ASSUME NEW x \in Envelopes, Len(queue) < QueueCap, queue' = Append(queue, x)
        PROVE  QueueTypes'
    BY <2>1, AppendProperties DEF QueueTypes
  <2>2. ASSUME NEW w \in Watchers, TrySendWake(w) PROVE QueueTypes'
    BY <2>1, <2>2 DEF TrySendWake, QueueTypes, Envelopes
  <2>3. ASSUME NEW c \in Clients, Send(c) PROVE QueueTypes'
    BY <2>1, <2>3 DEF Send, Envelopes
  <2>4. CASE LoopReceive
    BY <2>4, HeadTailProperties DEF LoopReceive, QueueTypes
  <2>5. CASE Launch
    BY <2>5, EmptySeq DEF Launch, QueueTypes
  <2> QED
    BY <2>2, <2>3, <2>4, <2>5, QueueMoves DEF QueueTypes
<1>3. LoopTypes'
  <2>1. CASE LoopReceive
    <3>1. queue # <<>> => Head(queue) \in Envelopes
      BY HeadTailProperties DEF QueueTypes
    <3> QED
      BY <2>1, <3>1 DEF LoopReceive, LoopTypes
  <2>2. CASE ~LoopReceive
    <3>1. pc' \in {"start", "warm", "top", "observe", "receive", "acknowledge",
                   "refresh", "handle", "respond", "stuck"}
          /\ cur' \in Envelopes \cup {None}
      BY <2>2 DEF LoopTypes, Next, vars, events, streams, process, Watcher, Client, Subscriber, Loop,
         Observing, Notice, RequestWake, TrySendWake, GiveUpWake, Ask, Send, Subscribe,
         Register, Write, WriterEnds, Listen, LoopShutdown, LoopReceive, LoopTop,
         LoopAcknowledge, LoopRefresh, LoopHandle, LoopRespond, LoopWarm, LoopObserve,
         Hang, FallsDue, Signal, Watchdog, Launch
    <3>2. due' \in BOOLEAN
      BY <2>2 DEF LoopTypes, Next, vars, events, streams, process, Watcher, Client, Subscriber, Loop,
         Observing, Notice, RequestWake, TrySendWake, GiveUpWake, Ask, Send, Subscribe,
         Register, Write, WriterEnds, Listen, LoopShutdown, LoopReceive, LoopTop,
         LoopAcknowledge, LoopRefresh, LoopHandle, LoopRespond, LoopWarm, LoopObserve,
         Hang, FallsDue, Signal, Watchdog, Launch
    <3>3. wake' \in BOOLEAN
      BY <2>2 DEF LoopTypes, Next, vars, events, streams, process, Watcher, Client, Subscriber, Loop,
         Observing, Notice, RequestWake, TrySendWake, GiveUpWake, Ask, Send, Subscribe,
         Register, Write, WriterEnds, Listen, LoopShutdown, LoopReceive, LoopTop,
         LoopAcknowledge, LoopRefresh, LoopHandle, LoopRespond, LoopWarm, LoopObserve,
         Hang, FallsDue, Signal, Watchdog, Launch
    <3> QED
      BY <3>1, <3>2, <3>3 DEF LoopTypes
  <2> QED
    BY <2>1, <2>2
<1>4. ThreadTypes'
  BY DEF ThreadTypes, Next, vars, events, streams, process, Watcher, Client, Subscriber, Loop,
         Observing, Notice, RequestWake, TrySendWake, GiveUpWake, Ask, Send, Subscribe,
         Register, Write, WriterEnds, Listen, LoopShutdown, LoopReceive, LoopTop,
         LoopAcknowledge, LoopRefresh, LoopHandle, LoopRespond, LoopWarm, LoopObserve,
         Hang, FallsDue, Signal, Watchdog, Launch
<1>5. StreamTypes'
  <2> USE DEF StreamTypes
  <2>1. ASSUME NEW some \in BOOLEAN, Deliver(some), UNCHANGED <<reader, heard>>
        PROVE  StreamTypes'
    BY <2>1, DeliverTypes
  <2>2. ASSUME NEW s \in Subscribers, Subscribe(s) \/ Register(s) PROVE StreamTypes'
    <3>1. <<"hello">> \in Seq({"hello", "note"})
      OBVIOUS
    <3> QED
      BY <2>2, <3>1 DEF Subscribe, Register, Streams
  <2>3. ASSUME NEW s \in Subscribers, Write(s) \/ WriterEnds(s) PROVE StreamTypes'
    <3>1. stream[s] # <<>> => Tail(stream[s]) \in Seq({"hello", "note"})
      BY HeadTailProperties DEF Streams
    <3>2. <<>> \in Seq({"hello", "note"})
      BY EmptySeq
    <3> QED
      BY <2>3, <3>1, <3>2 DEF Write, WriterEnds, Streams
  <2>4. CASE Launch
    BY <2>4, EmptySeq DEF Launch, Streams
  <2> QED
    BY <2>1, <2>2, <2>3, <2>4, StreamMoves DEF streams
<1>6. ProcessTypes'
  <2>1. hangs' \in 0 .. MaxHangs
    BY ProcessMoves DEF ProcessTypes, process, LoopShutdown, Hang, Signal, Watchdog, Launch
  <2>2. shutdown' \in BOOLEAN /\ watching' \in BOOLEAN /\ exit' \in {None, "clean", "restart"}
    BY ProcessMoves DEF ProcessTypes, process, LoopShutdown, Hang, Signal, Watchdog, Launch
  <2> QED
    BY <2>1, <2>2 DEF ProcessTypes
<1> QED
  <2>1. (EventTypes /\ LoopTypes /\ QueueTypes /\ ThreadTypes /\ StreamTypes /\ ProcessTypes)'
    BY <1>1, <1>2, <1>3, <1>4, <1>5, <1>6, Zenon
  <2>2. (TypeOK <=> EventTypes /\ LoopTypes /\ QueueTypes /\ ThreadTypes /\ StreamTypes
                    /\ ProcessTypes)'
    BY TypesAre, PTL
  <2> QED
    BY <2>1, <2>2, Zenon

\* Every variable of the daemon's threads keeps its type.
THEOREM TypeCorrect == Spec => []TypeOK
<1> QED
  BY InitTypes, NextTypes, PTL DEF Spec


-----------------------------------------------------------------------------
\* The flag and its wake.  Which steps move them; the others keep the token
\* where it is.
LEMMA TokenMoves ==
  ThreadTypes /\ [Next]_vars =>
    \/ UNCHANGED <<wake, queue>> /\ (Taken' <=> Taken)
       /\ \A w \in Watchers : Holding(w)' <=> Holding(w)
    \/ \E w \in Watchers : RequestWake(w) \/ TrySendWake(w) \/ GiveUpWake(w)
    \/ \E c \in Clients : Send(c)
    \/ \E defers \in BOOLEAN : LoopAcknowledge(defers)
    \/ LoopReceive \/ Launch
  BY DEF Holding, Taken, ThreadTypes, Next, vars, events, streams, process, Watcher, Client, Subscriber, Loop,
         Observing, Notice, RequestWake, TrySendWake, GiveUpWake, Ask, Send, Subscribe,
         Register, Write, WriterEnds, Listen, LoopShutdown, LoopReceive, LoopTop,
         LoopAcknowledge, LoopRefresh, LoopHandle, LoopRespond, LoopWarm, LoopObserve,
         Hang, FallsDue, Signal, Watchdog, Launch

LEMMA InitToken == Init => Placed /\ WakeToken
<1> SUFFICES ASSUME Init PROVE Placed /\ WakeToken
  OBVIOUS
<1>1. Queued(Wake) = {}
  BY DEF Init, Queued
<1> QED
  BY <1>1, StateLoopAssumption DEF Init, Placed, WakeToken, Holding, Taken

LEMMA NextPlaced == TypeOK /\ Placed /\ [Next]_vars => Placed'
  BY DEF TypeOK, Placed, Next, vars, events, streams, process, Watcher, Client, Subscriber, Loop,
         Observing, Notice, RequestWake, TrySendWake, GiveUpWake, Ask, Send, Subscribe,
         Register, Write, WriterEnds, Listen, LoopShutdown, LoopReceive, LoopTop,
         LoopAcknowledge, LoopRefresh, LoopHandle, LoopRespond, LoopWarm, LoopObserve,
         Hang, FallsDue, Signal, Watchdog, Launch

LEMMA NextToken ==
  ASSUME TypeOK, Placed, WakeToken, [Next]_vars
  PROVE  WakeToken'
<1>0. ThreadTypes /\ QueueTypes /\ LoopTypes
  BY TypesAre
<1> USE StateLoopAssumption
<1>1. ASSUME UNCHANGED <<wake, queue>>, Taken' <=> Taken,
             \A w \in Watchers : Holding(w)' <=> Holding(w)
      PROVE  WakeToken'
  <2>1. Queued(Wake)' = Queued(Wake)
    BY <1>1 DEF Queued
  <2> QED
    BY <1>1, <2>1 DEF WakeToken
<1>2. ASSUME NEW w \in Watchers, RequestWake(w) PROVE WakeToken'
  <2>1. Queued(Wake)' = Queued(Wake) /\ (Taken' <=> Taken) /\ wake'
    BY <1>2 DEF RequestWake, Queued, Taken
  <2>2. CASE wake
    <3>1. watcher[w] = "noticed" /\ watcher' = [watcher EXCEPT ![w] = "idle"]
      BY <1>2, <2>2 DEF RequestWake
    <3>2. \A v \in Watchers : Holding(v)' <=> Holding(v)
      BY <1>0, <3>1 DEF Holding, ThreadTypes
    <3> QED
      BY <2>1, <2>2, <3>2 DEF WakeToken
  <2>3. CASE ~wake
    <3>1. watcher' = [watcher EXCEPT ![w] = "sending"]
      BY <1>2, <2>3 DEF RequestWake
    <3>2. \A v \in Watchers : Holding(v)' <=> Holding(v) \/ v = w
      BY <1>0, <3>1 DEF Holding, ThreadTypes
    <3> QED
      BY <2>1, <2>3, <3>2 DEF WakeToken
  <2> QED
    BY <2>2, <2>3
<1>3. ASSUME NEW w \in Watchers, TrySendWake(w) PROVE WakeToken'
  <2>1. Holding(w) /\ UNCHANGED wake /\ (Taken' <=> Taken)
    BY <1>3 DEF TrySendWake, Holding, Taken
  <2>2. CASE pc # "start" /\ Len(queue) < QueueCap
    <3>1. Queued(Wake)' = Queued(Wake) \cup {Len(queue) + 1}
      BY <1>0, <1>3, <2>2, Enqueue DEF TrySendWake, QueueTypes, Envelopes
    <3>2. \A v \in Watchers : Holding(v)' <=> Holding(v) /\ v # w
      BY <1>0, <1>3, <2>2 DEF TrySendWake, Holding, ThreadTypes
    <3> QED
      BY <2>1, <3>1, <3>2 DEF WakeToken
  <2>3. CASE ~(pc # "start" /\ Len(queue) < QueueCap)
    <3>1. \A v \in Watchers : Holding(v)' <=> Holding(v)
      BY <1>0, <1>3, <2>3 DEF TrySendWake, Holding, ThreadTypes
    <3> QED
      BY <1>1, <1>3, <2>1, <2>3, <3>1 DEF TrySendWake
  <2> QED
    BY <2>2, <2>3
<1>4. ASSUME NEW w \in Watchers, GiveUpWake(w) PROVE WakeToken'
  <2>1. Holding(w) /\ wake' = FALSE /\ (Taken' <=> Taken) /\ Queued(Wake)' = Queued(Wake)
    BY <1>4 DEF GiveUpWake, Holding, Taken, Queued
  <2>2. \A v \in Watchers : Holding(v)' <=> Holding(v) /\ v # w
    BY <1>0, <1>4 DEF GiveUpWake, Holding, ThreadTypes
  <2> QED
    BY <2>1, <2>2 DEF WakeToken
<1>5. ASSUME NEW c \in Clients, Send(c) PROVE WakeToken'
  <2>1. Queued(Wake)' = Queued(Wake)
    BY <1>0, <1>5, Enqueue DEF Send, QueueTypes, Envelopes
  <2>2. UNCHANGED wake /\ (Taken' <=> Taken) /\ \A v \in Watchers : Holding(v)' <=> Holding(v)
    BY <1>5 DEF Send, Taken, Holding
  <2> QED
    BY <2>1, <2>2 DEF WakeToken
<1>6. CASE LoopReceive
  <2>1. UNCHANGED wake /\ ~Taken /\ \A v \in Watchers : Holding(v)' <=> Holding(v)
    BY <1>6 DEF LoopReceive, Taken, Holding
  <2>2. CASE queue = <<>>
    BY <1>1, <1>6, <2>1, <2>2 DEF LoopReceive, Taken
  <2>3. CASE queue # <<>>
    <3>1. Once(Wake)
      BY DEF WakeToken, Once
    <3>2. Taken' <=> Wake = Head(queue)
      BY <1>6, <2>3 DEF LoopReceive, Taken
    <3>3. /\ Once(Wake)'
          /\ Wake = Head(queue) => Queued(Wake) # {} /\ Queued(Wake)' = {}
          /\ Wake # Head(queue) => (Queued(Wake)' # {} <=> Queued(Wake) # {})
      BY <1>0, <1>6, <2>3, <3>1, Dequeue DEF LoopReceive, QueueTypes
    <3> QED
      BY <2>1, <3>2, <3>3 DEF WakeToken, Once
  <2> QED
    BY <2>2, <2>3
<1>7. ASSUME NEW defers \in BOOLEAN, LoopAcknowledge(defers) PROVE WakeToken'
  <2>1. /\ ~Taken' /\ (Taken <=> cur = Wake) /\ Queued(Wake)' = Queued(Wake)
        /\ \A v \in Watchers : Holding(v)' <=> Holding(v)
    BY <1>7 DEF LoopAcknowledge, Taken, Holding, Queued
  <2>2. (cur = Wake => wake' = FALSE) /\ (cur # Wake => wake' = wake)
    BY <1>7 DEF LoopAcknowledge
  <2> QED
    BY <2>1, <2>2 DEF WakeToken
<1>8. CASE Launch
  <2>1. Queued(Wake)' = {}
    BY <1>8 DEF Launch, Queued
  <2>2. ~Taken' /\ wake' = FALSE /\ \A v \in Watchers : ~Holding(v)'
    BY <1>8 DEF Launch, Taken, Holding
  <2> QED
    BY <2>1, <2>2 DEF WakeToken
<1> QED
  BY <1>0, <1>1, <1>2, <1>3, <1>4, <1>5, <1>6, <1>7, <1>8, TokenMoves

-----------------------------------------------------------------------------
\* Events: somebody is on the way to an observation.
LEMMA NextPrompt ==
  ASSUME TypeOK, Placed, WakeToken, PromptWake, [Next]_vars
  PROVE  PromptWake'
<1>0. ThreadTypes /\ QueueTypes /\ LoopTypes
  BY TypesAre
<1> USE StateLoopAssumption
<1>1. CASE UNCHANGED <<watcher, queue>>
  <2>1. Queued(Wake)' = Queued(Wake)
    BY <1>1 DEF Queued
  <2>2. SUFFICES ASSUME dirty' # FALSE, late' # TRUE,
                        \A w \in Watchers : watcher[w] = "idle", Queued(Wake) = {}
        PROVE  \/ cur' = Wake /\ pc' \in {"acknowledge", "refresh"}
               \/ pc' \in {"start", "warm", "stuck"}
    BY <1>1, <2>1 DEF PromptWake
  <2>3. (dirty = dirty' /\ late = late') \/ Launch
    <3>1. ASSUME NEW w \in Watchers PROVE ~Notice(w) /\ ~GiveUpWake(w)
      BY <1>0, <1>1, <2>2 DEF Notice, GiveUpWake, ThreadTypes
    <3>2. ASSUME NEW ok \in BOOLEAN, Snapshot(ok) PROVE UNCHANGED <<dirty, late>>
      BY <2>2, <3>2 DEF Snapshot
    <3> QED
      BY <3>1, <3>2, EventMoves DEF events
  <2>4. CASE dirty # FALSE /\ late # TRUE
    <3>1. \/ cur = Wake /\ pc \in {"acknowledge", "refresh"}
          \/ pc \in {"start", "warm", "stuck"}
      BY <2>2, <2>4 DEF PromptWake, TypeOK
    <3> QED
      BY <1>1, <2>2, <3>1 DEF Placed, Snapshot, Next, vars, events, streams, process, Watcher, Client, Subscriber, Loop,
         Observing, Notice, RequestWake, TrySendWake, GiveUpWake, Ask, Send, Subscribe,
         Register, Write, WriterEnds, Listen, LoopShutdown, LoopReceive, LoopTop,
         LoopAcknowledge, LoopRefresh, LoopHandle, LoopRespond, LoopWarm, LoopObserve,
         Hang, FallsDue, Signal, Watchdog, Launch
  <2> QED
    BY <2>2, <2>3, <2>4 DEF Launch
<1>2. ASSUME NEW w \in Watchers, Notice(w) \/ GiveUpWake(w) PROVE PromptWake'
  <2>1. watcher'[w] = "noticed" \/ late'
    BY <1>0, <1>2 DEF Notice, GiveUpWake, ThreadTypes
  <2> QED
    BY <2>1 DEF PromptWake
<1>3. ASSUME NEW w \in Watchers, RequestWake(w) PROVE PromptWake'
  <2>1. watcher[w] = "noticed" /\ Queued(Wake)' = Queued(Wake) /\ UNCHANGED <<pc, cur>>
    BY <1>3 DEF RequestWake, Queued
  <2>2. CASE wake
    <3>1. \A v \in Watchers : v # w => watcher'[v] = watcher[v]
      BY <1>0, <1>3 DEF RequestWake, ThreadTypes
    <3>2. Queued(Wake) # {} \/ Taken \/ \E v \in Watchers : Holding(v)
      BY <2>2 DEF WakeToken
    <3> QED
      BY <2>1, <3>1, <3>2 DEF PromptWake, Holding, Taken
  <2>3. CASE ~wake
    <3>1. watcher'[w] = "sending"
      BY <1>0, <1>3, <2>3 DEF RequestWake, ThreadTypes
    <3> QED
      BY <3>1 DEF PromptWake
  <2> QED
    BY <2>2, <2>3
<1>4. ASSUME NEW w \in Watchers, TrySendWake(w) PROVE PromptWake'
  <2>1. CASE pc # "start" /\ Len(queue) < QueueCap
    <3>1. Queued(Wake)' = Queued(Wake) \cup {Len(queue) + 1}
      BY <1>0, <1>4, <2>1, Enqueue DEF TrySendWake, QueueTypes, Envelopes
    <3> QED
      BY <3>1 DEF PromptWake
  <2>2. CASE ~(pc # "start" /\ Len(queue) < QueueCap)
    <3>1. watcher'[w] = "refused"
      BY <1>0, <1>4, <2>2 DEF TrySendWake, ThreadTypes
    <3> QED
      BY <3>1 DEF PromptWake
  <2> QED
    BY <2>1, <2>2
<1>5. ASSUME NEW c \in Clients, Send(c) PROVE PromptWake'
  <2>1. Queued(Wake)' = Queued(Wake)
    BY <1>0, <1>5, Enqueue DEF Send, QueueTypes, Envelopes
  <2> QED
    BY <1>5, <2>1 DEF Send, PromptWake, events
<1>6. CASE LoopReceive
  <2>1. UNCHANGED <<dirty, late, watcher>> /\ pc = "receive"
    BY <1>6 DEF LoopReceive, events
  <2>2. CASE queue = <<>>
    BY <1>1, <1>6, <2>2 DEF LoopReceive
  <2>3. CASE queue # <<>>
    <3>1. Once(Wake)
      BY DEF WakeToken, Once
    <3>2. /\ Wake # Head(queue) => (Queued(Wake)' # {} <=> Queued(Wake) # {})
          /\ cur' = Head(queue) /\ pc' = "acknowledge"
      BY <1>0, <1>6, <2>3, <3>1, Dequeue DEF LoopReceive, QueueTypes
    <3> QED
      BY <2>1, <3>2 DEF PromptWake
  <2> QED
    BY <2>2, <2>3
<1>7. CASE Launch
  BY <1>7 DEF Launch, PromptWake
<1> QED
  <2>1. \/ UNCHANGED watcher \/ Launch
        \/ \E w \in Watchers : Notice(w) \/ RequestWake(w) \/ TrySendWake(w) \/ GiveUpWake(w)
    BY DEF Next, vars, events, streams, process, Watcher, Client, Subscriber, Loop,
         Observing, Notice, RequestWake, TrySendWake, GiveUpWake, Ask, Send, Subscribe,
         Register, Write, WriterEnds, Listen, LoopShutdown, LoopReceive, LoopTop,
         LoopAcknowledge, LoopRefresh, LoopHandle, LoopRespond, LoopWarm, LoopObserve,
         Hang, FallsDue, Signal, Watchdog, Launch
  <2> QED
    BY <1>1, <1>2, <1>3, <1>4, <1>5, <1>6, <1>7, <2>1, QueueMoves

-----------------------------------------------------------------------------
\* Requests.
Served(c) ==
  /\ client[c] = "waiting" <=> cur = c \/ Queued(c) # {}
  /\ cur = c => Queued(c) = {}
  /\ Once(c)

LEMMA WaitingMoves ==
  ThreadTypes /\ [Next]_vars =>
    \/ UNCHANGED <<queue, cur>>
       /\ \A c \in Clients : client'[c] = "waiting" <=> client[c] = "waiting"
    \/ \E w \in Watchers : TrySendWake(w)
    \/ \E c \in Clients : Send(c)
    \/ \E some \in BOOLEAN : LoopRespond(some)
    \/ LoopReceive \/ Launch
  BY DEF ThreadTypes, Next, vars, events, streams, process, Watcher, Client, Subscriber, Loop,
         Observing, Notice, RequestWake, TrySendWake, GiveUpWake, Ask, Send, Subscribe,
         Register, Write, WriterEnds, Listen, LoopShutdown, LoopReceive, LoopTop,
         LoopAcknowledge, LoopRefresh, LoopHandle, LoopRespond, LoopWarm, LoopObserve,
         Hang, FallsDue, Signal, Watchdog, Launch

LEMMA NextWaiting ==
  ASSUME TypeOK, Placed, WaitingIsServed, [Next]_vars
  PROVE  WaitingIsServed'
<1>0. ThreadTypes /\ QueueTypes /\ LoopTypes
  BY TypesAre
<1> USE StateLoopAssumption
<1> SUFFICES ASSUME NEW c \in Clients PROVE Served(c)'
  BY DEF WaitingIsServed, Served, Once
<1> USE DEF Served
<1>a. /\ client[c] = "waiting" <=> cur = c \/ Queued(c) # {}
      /\ cur = c => Queued(c) = {}
      /\ Once(c) /\ c # Wake /\ c # None
  BY DEF WaitingIsServed, Once
<1>2. CASE UNCHANGED <<queue, cur>>
           /\ \A d \in Clients : client'[d] = "waiting" <=> client[d] = "waiting"
  BY <1>a, <1>2 DEF Once, Queued
<1>3. ASSUME NEW w \in Watchers, TrySendWake(w)
      PROVE  Served(c)'
  <2>1. Queued(c)' = Queued(c)
    <3>1. CASE queue' = queue
      BY <3>1 DEF Queued
    <3>2. CASE queue' = Append(queue, Wake)
      BY <1>0, <1>a, <3>2, Enqueue DEF QueueTypes, Envelopes
    <3> QED
      BY <1>3, <3>1, <3>2 DEF TrySendWake
  <2>2. UNCHANGED <<cur, client>>
    BY <1>3 DEF TrySendWake
  <2> QED
    BY <1>a, <2>1, <2>2 DEF Once
<1>4. ASSUME NEW d \in Clients, Send(d) PROVE Served(c)'
  <2>1. Queued(c)' = IF c = d THEN Queued(c) \cup {Len(queue) + 1} ELSE Queued(c)
    BY <1>0, <1>4, Enqueue DEF Send, QueueTypes, Envelopes
  <2>2. client[d] = "sending" /\ client' = [client EXCEPT ![d] = "waiting"] /\ cur' = cur
    BY <1>4 DEF Send
  <2> QED
    BY <1>0, <1>a, <2>1, <2>2 DEF Once, ThreadTypes
<1>5. ASSUME NEW some \in BOOLEAN, LoopRespond(some) PROVE Served(c)'
  <2>1. cur' = None /\ client' = [d \in Clients |-> IF d = cur THEN "idle" ELSE client[d]]
        /\ Queued(c)' = Queued(c)
    BY <1>5 DEF LoopRespond, Queued
  <2> QED
    BY <1>a, <2>1 DEF Once
<1>6. CASE LoopReceive
  <2>1. client' = client /\ cur = None
    BY <1>6 DEF LoopReceive, Placed
  <2>2. CASE queue = <<>>
    BY <1>2, <1>6, <2>2 DEF LoopReceive
  <2>3. CASE queue # <<>>
    <3>1. /\ Once(c)' /\ cur' = Head(queue)
          /\ c = Head(queue) => Queued(c) # {} /\ Queued(c)' = {}
          /\ c # Head(queue) => (Queued(c)' # {} <=> Queued(c) # {})
      BY <1>0, <1>6, <1>a, <2>3, Dequeue DEF LoopReceive, QueueTypes
    <3> QED
      BY <1>a, <2>1, <3>1
  <2> QED
    BY <2>2, <2>3
<1>7. CASE Launch
  <2>1. Queued(c)' = {}
    BY <1>7 DEF Launch, Queued
  <2> QED
    BY <1>7, <1>a, <2>1 DEF Launch, Once
<1> QED
  BY <1>0, <1>a, <1>2, <1>3, <1>4, <1>5, <1>6, <1>7, WaitingMoves DEF Once

-----------------------------------------------------------------------------
LEMMA InitIInv == Init => IInv
<1> SUFFICES ASSUME Init PROVE IInv
  OBVIOUS
<1>1. PromptWake
  BY DEF Init, PromptWake
<1>2. WaitingIsServed
  <2>1. \A c \in Clients : Queued(c) = {}
    BY DEF Init, Queued
  <2> QED
    BY <2>1, StateLoopAssumption DEF Init, WaitingIsServed
<1> QED
  BY <1>1, <1>2, InitTypes, InitToken DEF IInv

LEMMA NextIInv == IInv /\ [Next]_vars => IInv'
  BY NextTypes, NextPlaced, NextToken, NextPrompt, NextWaiting DEF IInv

LEMMA Invariant == Spec => []IInv
  BY InitIInv, NextIInv, PTL DEF Spec

\* The flag is up exactly while one wake is under way (RefreshWake).
THEOREM WakeTokenHolds == Spec => []WakeToken
<1>1. IInv => WakeToken
  BY DEF IInv
<1> QED
  BY <1>1, Invariant, PTL

\* No event waits for the periodic observation unless its wake was given up or
\* spent on an observation that failed.
THEOREM PromptWakeHolds == Spec => []PromptWake
<1>1. IInv => PromptWake
  BY DEF IInv
<1> QED
  BY <1>1, Invariant, PTL

\* A client that waits is owed exactly one answer.
THEOREM WaitingIsServedHolds == Spec => []WaitingIsServed
<1>1. IInv => WaitingIsServed
  BY DEF IInv
<1> QED
  BY <1>1, Invariant, PTL


-----------------------------------------------------------------------------
\* Subscribers: one that waits for its registration has missed nothing yet.
Fresh(s) == reader[s] = "acknowledged" => missed[s] = FALSE /\ s \notin registry
Whole(s) ==
  /\ missed[s] # FALSE => s \notin registry
  /\ reader[s] # "away" /\ heard[s] = FALSE =>
       stream[s] # <<>> /\ Head(stream[s]) = "hello"
StreamInv == \A s \in Subscribers : Fresh(s) /\ Whole(s)

LEMMA AppendedLast ==
  ASSUME NEW T, NEW q \in Seq(T), NEW x \in T
  PROVE  /\ Append(q, x) # <<>>
         /\ q # <<>> => Head(Append(q, x)) = Head(q)
<1>1. Append(q, x) \in Seq(T) /\ Append(q, x) # <<>>
  BY AppendProperties
<1>2. Head(Append(q, x)) = Append(q, x)[1]
  BY <1>1, HeadTailProperties
<1>3. ASSUME q # <<>> PROVE Append(q, x)[1] = q[1] /\ Head(q) = q[1]
  <2>1. 1 \in 1 .. Len(q)
    BY <1>3, EmptySeq
  <2> QED
    BY <1>3, <2>1, AppendProperties, HeadTailProperties
<1> QED
  BY <1>1, <1>2, <1>3

LEMMA InitStreams == Init => StreamInv
  BY DEF Init, StreamInv, Fresh, Whole

LEMMA NextStreams ==
  ASSUME TypeOK, StreamInv, [Next]_vars
  PROVE  StreamInv'
<1>0. StreamTypes
  BY TypesAre
<1> SUFFICES ASSUME NEW s \in Subscribers PROVE Fresh(s)' /\ Whole(s)'
  BY DEF StreamInv
<1>a. /\ Fresh(s) /\ Whole(s) /\ stream[s] \in Seq({"hello", "note"})
      /\ missed[s] \in BOOLEAN /\ heard[s] \in BOOLEAN
  BY <1>0 DEF StreamInv, StreamTypes, Streams
<1> USE DEF Fresh, Whole
<1>1. CASE UNCHANGED streams
  BY <1>1, <1>a DEF streams
<1>2. ASSUME NEW some \in BOOLEAN, Deliver(some), UNCHANGED <<reader, heard>>
      PROVE  Fresh(s)' /\ Whole(s)'
  <2>1. CASE ~some
    BY <1>2, <1>a, <2>1 DEF Deliver
  <2>2. CASE some
    <3>1. /\ s \in registry' <=> s \in registry /\ Takes(s)
          /\ (s \in registry /\ ~Takes(s)) \/ missed'[s] = missed[s]
          /\ stream'[s] = Append(stream[s], "note") \/ stream'[s] = stream[s]
      BY <1>0, <1>2, <2>2 DEF Deliver, StreamTypes
    <3>2. Append(stream[s], "note") # <<>>
          /\ (stream[s] # <<>> => Head(Append(stream[s], "note")) = Head(stream[s]))
      BY <1>a, AppendedLast
    <3> QED
      BY <1>2, <1>a, <3>1, <3>2
  <2> QED
    BY <2>1, <2>2
<1>3. ASSUME NEW t \in Subscribers,
             Subscribe(t) \/ Register(t) \/ Write(t) \/ WriterEnds(t)
      PROVE  Fresh(s)' /\ Whole(s)'
  <2>1. CASE Subscribe(t)
    <3>1. Head(<<"hello">>) = "hello" /\ <<"hello">> # <<>>
      OBVIOUS
    <3> QED
      BY <1>0, <1>a, <2>1, <3>1 DEF Subscribe, StreamTypes, Streams
  <2>2. CASE Register(t)
    BY <1>0, <1>a, <2>2 DEF Register, StreamTypes, Streams
  <2>3. CASE Write(t)
    BY <1>0, <1>a, <2>3 DEF Write, StreamTypes, Streams
  <2>4. CASE WriterEnds(t)
    BY <1>0, <1>a, <2>4 DEF WriterEnds, StreamTypes, Streams
  <2> QED
    BY <1>3, <2>1, <2>2, <2>3, <2>4
<1>4. CASE Launch
  BY <1>4 DEF Launch
<1> QED
  BY <1>1, <1>2, <1>3, <1>4, StreamMoves

\* A subscriber hears Hello first and never misses a notification in silence.
THEOREM WholeStreamHolds == Spec => []WholeStream
<1>1. Init => TypeOK /\ StreamInv
  BY InitTypes, InitStreams
<1>2. (TypeOK /\ StreamInv) /\ [Next]_vars => (TypeOK /\ StreamInv)'
  BY NextTypes, NextStreams
<1>3. TypeOK /\ StreamInv => WholeStream
  BY DEF StreamInv, Whole, WholeStream, TypeOK
<1> QED
  BY <1>1, <1>2, <1>3, PTL DEF Spec
=============================================================================
