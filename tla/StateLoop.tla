----------------------------- MODULE StateLoop -----------------------------
(***************************************************************************)
(* The daemon's threads around the one that owns its state (rovr-daemon/   *)
(* src/main.rs): event threads that wake the loop through one flag and a   *)
(* bounded queue, client threads that queue requests and wait for their    *)
(* answers, subscribers with bounded backlogs and writer threads of their  *)
(* own, the watchdog, signals, and launchd, which starts the daemon again  *)
(* when it exits with an error.  What a request or an observation does to  *)
(* the state is not in this module.                                        *)
(***************************************************************************)
EXTENDS Naturals, Sequences

CONSTANTS
  Watchers,     \* threads that deliver events of macOS
  Clients, Subscribers,
  QueueCap,     \* the request queue: 256 in the code
  Backlog,      \* SUBSCRIBER_BACKLOG: 64 in the code
  MaxHangs,     \* bound: calls into macOS that never return
  MaySignal,    \* whether SIGTERM, SIGINT or SIGHUP may come
  Wake,         \* the event envelope
  None

ASSUME StateLoopAssumption ==
  /\ QueueCap \in Nat \ {0} /\ Backlog \in Nat \ {0} /\ MaxHangs \in Nat
  /\ MaySignal \in BOOLEAN
  /\ Wake \notin Clients /\ None \notin Clients \cup {Wake}

VARIABLES
  dirty,     \* an event has not been observed yet
  late,      \* a wake was given up, or spent on an observation that failed
  wake,      \* RefreshWake
  watcher,   \* where each event thread is
  queue,     \* the request channel
  pc, cur,   \* the state loop, and the envelope it serves
  due,       \* next_observation is past
  client,    \* where each client's thread is
  registry,  \* the subscribers notifications go to
  reader,    \* each subscriber's connection
  stream,    \* its channel
  heard,     \* its writer has sent something
  missed,    \* history: a notification after its registration did not reach it
  shutdown, watching, exit, hangs

events  == <<dirty, late>>
streams == <<registry, reader, stream, heard, missed>>
process == <<shutdown, watching, exit, hangs>>
vars    == <<dirty, late, wake, watcher, queue, pc, cur, due, client, registry,
             reader, stream, heard, missed, shutdown, watching, exit, hangs>>

Init ==
  /\ dirty = TRUE /\ late = FALSE
  /\ wake = FALSE /\ watcher = [w \in Watchers |-> "idle"] /\ queue = <<>>
  /\ pc = "start" /\ cur = None /\ due = FALSE
  /\ client = [c \in Clients |-> "idle"]
  /\ registry = {} /\ reader = [s \in Subscribers |-> "away"]
  /\ stream = [s \in Subscribers |-> <<>>]
  /\ heard = [s \in Subscribers |-> FALSE]
  /\ missed = [s \in Subscribers |-> FALSE]
  /\ shutdown = FALSE /\ watching = TRUE /\ exit = None /\ hangs = 0

Alive == exit = None

-----------------------------------------------------------------------------
\* Event threads.  The watcher is installed before the queue exists.
Notice(w) ==
  /\ Alive /\ watcher[w] = "idle"
  /\ dirty' = TRUE
  /\ watcher' = [watcher EXCEPT ![w] = "noticed"]
  /\ UNCHANGED <<late, wake, queue, pc, cur, due, client, streams, process>>

\* RefreshWake::request is one swap: a wake that is under way serves for this
\* event too.
RequestWake(w) ==
  /\ Alive /\ watcher[w] = "noticed"
  /\ watcher' = [watcher EXCEPT ![w] = IF wake THEN "idle" ELSE "sending"]
  /\ wake' = TRUE
  /\ UNCHANGED <<events, queue, pc, cur, due, client, streams, process>>

TrySendWake(w) ==
  /\ Alive /\ watcher[w] = "sending"
  /\ IF pc # "start" /\ Len(queue) < QueueCap
     THEN /\ queue' = Append(queue, Wake)
          /\ watcher' = [watcher EXCEPT ![w] = "idle"]
     ELSE /\ watcher' = [watcher EXCEPT ![w] = "refused"]
          /\ UNCHANGED queue
  /\ UNCHANGED <<events, wake, pc, cur, due, client, streams, process>>

GiveUpWake(w) ==
  /\ Alive /\ watcher[w] = "refused"
  /\ wake' = FALSE
  /\ late' = TRUE
  /\ watcher' = [watcher EXCEPT ![w] = "idle"]
  /\ UNCHANGED <<dirty, queue, pc, cur, due, client, streams, process>>

-----------------------------------------------------------------------------
\* Client threads: a full queue blocks the sender; then it waits.
Ask(c) ==
  /\ Alive /\ pc # "start" /\ client[c] = "idle"
  /\ client' = [client EXCEPT ![c] = "sending"]
  /\ UNCHANGED <<events, wake, watcher, queue, pc, cur, due, streams, process>>

Send(c) ==
  /\ Alive /\ client[c] = "sending" /\ Len(queue) < QueueCap
  /\ queue' = Append(queue, c)
  /\ client' = [client EXCEPT ![c] = "waiting"]
  /\ UNCHANGED <<events, wake, watcher, pc, cur, due, streams, process>>

-----------------------------------------------------------------------------
\* Subscribers.  Hello is in the channel before the registry knows of it.  A
\* subscriber stands for one connection: its name is free again when the
\* registry has dropped it.
Subscribe(s) ==
  /\ Alive /\ pc # "start" /\ reader[s] = "away" /\ s \notin registry
  /\ reader' = [reader EXCEPT ![s] = "acknowledged"]
  /\ stream' = [stream EXCEPT ![s] = <<"hello">>]
  /\ heard' = [heard EXCEPT ![s] = FALSE]
  /\ missed' = [missed EXCEPT ![s] = FALSE]
  /\ UNCHANGED <<events, wake, watcher, queue, pc, cur, due, client, registry,
                 process>>

Register(s) ==
  /\ Alive /\ reader[s] = "acknowledged"
  /\ reader' = [reader EXCEPT ![s] = "open"]
  /\ registry' = registry \cup {s}
  /\ UNCHANGED <<events, wake, watcher, queue, pc, cur, due, client, stream,
                 heard, missed, process>>

Write(s) ==
  /\ Alive /\ reader[s] = "open" /\ stream[s] # <<>>
  /\ stream' = [stream EXCEPT ![s] = Tail(@)]
  /\ heard' = [heard EXCEPT ![s] = TRUE]
  /\ UNCHANGED <<events, wake, watcher, queue, pc, cur, due, client, registry,
                 reader, missed, process>>

\* The socket fails, or the channel is empty and its sender was dropped.
WriterEnds(s) ==
  /\ Alive /\ reader[s] = "open"
  /\ reader' = [reader EXCEPT ![s] = "away"]
  /\ stream' = [stream EXCEPT ![s] = <<>>]
  /\ UNCHANGED <<events, wake, watcher, queue, pc, cur, due, client, registry,
                 heard, missed, process>>

\* deliver_notification: try_send to each; who cannot take it is dropped.
Takes(s) == reader[s] = "open" /\ Len(stream[s]) < Backlog

\* Mutant of Deliver: a full backlog only loses the notification.
DeliverLossy(some) ==
  IF some
  THEN /\ stream' = [s \in Subscribers |->
                       IF s \in registry /\ Takes(s) THEN Append(stream[s], "note")
                       ELSE stream[s]]
       /\ missed' = [s \in Subscribers |->
                       IF s \in registry /\ ~Takes(s) THEN TRUE ELSE missed[s]]
       /\ UNCHANGED registry
  ELSE UNCHANGED <<registry, stream, missed>>

Deliver(some) ==
  IF some
  THEN /\ registry' = {s \in registry : Takes(s)}
       /\ stream' = [s \in Subscribers |->
                       IF s \in registry /\ Takes(s) THEN Append(stream[s], "note")
                       ELSE stream[s]]
       /\ missed' = [s \in Subscribers |->
                       IF s \in registry /\ ~Takes(s) THEN TRUE ELSE missed[s]]
  ELSE UNCHANGED <<registry, stream, missed>>

-----------------------------------------------------------------------------
\* The state loop.  An observation fails when it meets an animation, when the
\* snapshot fails, or when it panics; then the events are still unobserved, and
\* the wake it was for is spent.
Snapshot(ok) ==
  IF ok THEN dirty' = FALSE /\ late' = FALSE
  ELSE dirty' = dirty /\ late' = IF cur = Wake \/ pc = "warm" THEN TRUE ELSE late

\* EVENT_TX is set and the loop's thread is spawned.
Listen ==
  /\ Alive /\ pc = "start"
  /\ pc' = "warm"
  /\ UNCHANGED <<events, wake, watcher, queue, cur, due, client, streams, process>>

LoopWarm(ok, changed) ==
  /\ Alive /\ pc = "warm"
  /\ Snapshot(ok) /\ Deliver(changed)
  /\ due' = FALSE
  /\ pc' = "top"
  /\ UNCHANGED <<wake, watcher, queue, cur, client, reader, heard, process>>

\* persist_state, then exit(0).
LoopShutdown ==
  /\ Alive /\ pc = "top" /\ shutdown
  /\ exit' = "clean"
  /\ UNCHANGED <<events, wake, watcher, queue, pc, cur, due, client, streams,
                 shutdown, watching, hangs>>

\* Mutant of LoopTop: requests go before the deadline.
LoopTopBusy(beat) ==
  /\ Alive /\ pc = "top" /\ ~shutdown
  /\ Deliver(beat)
  /\ pc' = IF due /\ queue = <<>> THEN "observe" ELSE "receive"
  /\ UNCHANGED <<events, wake, watcher, queue, cur, due, client, reader, heard,
                 process>>

\* A heartbeat when it is due, then the observation when that is due.
LoopTop(beat) ==
  /\ Alive /\ pc = "top" /\ ~shutdown
  /\ Deliver(beat)
  /\ pc' = IF due THEN "observe" ELSE "receive"
  /\ UNCHANGED <<events, wake, watcher, queue, cur, due, client, reader, heard,
                 process>>

LoopObserve(ok, changed) ==
  /\ Alive /\ pc = "observe"
  /\ Snapshot(ok) /\ Deliver(changed)
  /\ due' = FALSE
  /\ pc' = "top"
  /\ UNCHANGED <<wake, watcher, queue, cur, client, reader, heard, process>>

LoopReceive ==
  /\ Alive /\ pc = "receive"
  /\ IF queue = <<>>
     THEN /\ pc' = "top"
          /\ UNCHANGED <<queue, cur>>
     ELSE /\ cur' = Head(queue)
          /\ queue' = Tail(queue)
          /\ pc' = "acknowledge"
  /\ UNCHANGED <<events, wake, watcher, due, client, streams, process>>

\* Refresh and the commands that default to the focused window observe, and
\* put the next observation off.
LoopAcknowledge(defers) ==
  /\ Alive /\ pc = "acknowledge"
  /\ cur = Wake => defers
  /\ wake' = IF cur = Wake THEN FALSE ELSE wake
  /\ pc' = IF defers THEN "refresh" ELSE "handle"
  /\ UNCHANGED <<events, watcher, queue, cur, due, client, streams, process>>

LoopRefresh(ok) ==
  /\ Alive /\ pc = "refresh"
  /\ Snapshot(ok)
  /\ due' = FALSE
  /\ pc' = "respond"
  /\ UNCHANGED <<wake, watcher, queue, cur, client, streams, process>>

\* The other requests: those about workspaces observe too, and put nothing off.
LoopHandle(observed) ==
  /\ Alive /\ pc = "handle"
  /\ IF observed THEN Snapshot(TRUE) ELSE UNCHANGED events
  /\ pc' = "respond"
  /\ UNCHANGED <<wake, watcher, queue, cur, due, client, streams, process>>

\* Mutant of LoopRespond: a request that panicked is not answered.
LoopRespondSilent(some) ==
  /\ Alive /\ pc = "respond"
  /\ Deliver(some)
  /\ client' = [c \in Clients |-> IF c = cur /\ some THEN "idle" ELSE client[c]]
  /\ cur' = None
  /\ pc' = "top"
  /\ UNCHANGED <<events, wake, watcher, queue, due, reader, heard, process>>

\* A panic is contained: its client gets an error, and an answer all the same.
LoopRespond(some) ==
  /\ Alive /\ pc = "respond"
  /\ Deliver(some)
  /\ client' = [c \in Clients |-> IF c = cur THEN "idle" ELSE client[c]]
  /\ cur' = None
  /\ pc' = "top"
  /\ UNCHANGED <<events, wake, watcher, queue, due, reader, heard, process>>

Hang ==
  /\ Alive /\ pc \in {"warm", "observe", "refresh", "handle", "respond"} /\ hangs < MaxHangs
  /\ hangs' = hangs + 1
  /\ pc' = "stuck"
  /\ UNCHANGED <<events, wake, watcher, queue, cur, due, client, streams,
                 shutdown, watching, exit>>

\* The clock reaches next_observation.
FallsDue ==
  /\ Alive /\ ~due
  /\ due' = TRUE
  /\ UNCHANGED <<events, wake, watcher, queue, pc, cur, client, streams, process>>

-----------------------------------------------------------------------------
\* Supervision.
Signal ==
  /\ Alive /\ MaySignal /\ ~shutdown
  /\ shutdown' = TRUE
  /\ UNCHANGED <<events, wake, watcher, queue, pc, cur, due, client, streams,
                 watching, exit, hangs>>

\* Mutant of Watchdog: the exit looks like a success.
WatchdogClean ==
  /\ Alive /\ watching
  /\ IF shutdown THEN watching' = FALSE /\ UNCHANGED exit
     ELSE pc = "stuck" /\ exit' = "clean" /\ UNCHANGED watching
  /\ UNCHANGED <<events, wake, watcher, queue, pc, cur, due, client, streams,
                 shutdown, hangs>>

\* The heartbeat is stale when the loop is stuck (15 s are more than any call
\* that returns).  A watchdog that sees a shutdown requested goes away.
Watchdog ==
  /\ Alive /\ watching
  /\ IF shutdown THEN watching' = FALSE /\ UNCHANGED exit
     ELSE pc = "stuck" /\ exit' = "restart" /\ UNCHANGED watching
  /\ UNCHANGED <<events, wake, watcher, queue, pc, cur, due, client, streams,
                 shutdown, hangs>>

\* launchd, KeepAlive SuccessfulExit = false: a fresh process; every socket of
\* the old one is closed.
Launch ==
  /\ exit = "restart"
  /\ exit' = None
  /\ dirty' = TRUE /\ late' = FALSE /\ wake' = FALSE
  /\ watcher' = [w \in Watchers |-> "idle"]
  /\ queue' = <<>> /\ pc' = "start" /\ cur' = None /\ due' = FALSE
  /\ client' = [c \in Clients |-> "idle"]
  /\ registry' = {} /\ reader' = [s \in Subscribers |-> "away"]
  /\ stream' = [s \in Subscribers |-> <<>>]
  /\ UNCHANGED <<heard, missed, shutdown, watching, hangs>>

Watcher == \E w \in Watchers :
             RequestWake(w) \/ TrySendWake(w) \/ GiveUpWake(w)
Client == \E c \in Clients : Ask(c) \/ Send(c)
Subscriber == \E s \in Subscribers :
                Subscribe(s) \/ Register(s) \/ Write(s) \/ WriterEnds(s)
Observing(ok) ==
  \/ LoopRefresh(ok)
  \/ \E changed \in BOOLEAN : LoopWarm(ok, changed) \/ LoopObserve(ok, changed)
Loop ==
  \/ Listen \/ LoopShutdown \/ LoopReceive
  \/ \E b \in BOOLEAN :
       LoopTop(b) \/ LoopAcknowledge(b) \/ Observing(b) \/ LoopHandle(b) \/ LoopRespond(b)
Receptive == ~due /\ \E beat \in BOOLEAN : LoopTop(beat)

Next ==
  \/ \E w \in Watchers : Notice(w)
  \/ Watcher \/ Client \/ Subscriber \/ Loop
  \/ Hang \/ FallsDue \/ Signal \/ Watchdog \/ Launch

Spec == Init /\ [][Next]_vars

(***************************************************************************)
(* Fairness.  Threads run, clocks pass, launchd relaunches; and an         *)
(* observation that is tried again and again succeeds again and again:     *)
(* animations end, and panics and failed snapshots are exceptions.  No     *)
(* request is assumed to observe, and no event thread to be prompt.  After *)
(* an observation the loop gets to its queue within an interval (at least  *)
(* MIN_RECOVERY_INTERVAL), if not every time, then again and again.        *)
(***************************************************************************)
FairSpec ==
  /\ Spec
  /\ WF_vars(Loop) /\ SF_vars(Observing(TRUE)) /\ SF_vars(Receptive)
  /\ WF_vars(FallsDue) /\ WF_vars(Watchdog) /\ WF_vars(Launch)

-----------------------------------------------------------------------------
TypeOK ==
  /\ dirty \in BOOLEAN /\ late \in BOOLEAN /\ wake \in BOOLEAN /\ due \in BOOLEAN
  /\ watcher \in [Watchers -> {"idle", "noticed", "sending", "refused"}]
  /\ queue \in Seq(Clients \cup {Wake}) /\ Len(queue) <= QueueCap
  /\ pc \in {"start", "warm", "top", "observe", "receive", "acknowledge",
             "refresh", "handle", "respond", "stuck"}
  /\ cur \in Clients \cup {Wake, None}
  /\ client \in [Clients -> {"idle", "sending", "waiting"}]
  /\ registry \subseteq Subscribers
  /\ reader \in [Subscribers -> {"away", "acknowledged", "open"}]
  /\ stream \in [Subscribers -> Seq({"hello", "note"})]
  /\ heard \in [Subscribers -> BOOLEAN] /\ missed \in [Subscribers -> BOOLEAN]
  /\ shutdown \in BOOLEAN /\ watching \in BOOLEAN
  /\ exit \in {None, "clean", "restart"} /\ hangs \in 0 .. MaxHangs

\* The flag stands for exactly one wake: in the hands of an event thread, in
\* the queue, or taken and not acknowledged.  So the queue never holds two, and
\* the flag is never left up with nobody to lower it.
Holding(w) == watcher[w] \in {"sending", "refused"}
Queued(e)  == {i \in DOMAIN queue : queue[i] = e}
Taken      == pc = "acknowledge" /\ cur = Wake

WakeToken ==
  /\ wake <=> (\E w \in Watchers : Holding(w)) \/ Queued(Wake) # {} \/ Taken
  /\ \A v, w \in Watchers : Holding(v) /\ Holding(w) => v = w
  /\ \A i, j \in Queued(Wake) : i = j
  /\ Queued(Wake) # {} => ~Taken /\ \A w \in Watchers : ~Holding(w)
  /\ Taken => \A w \in Watchers : ~Holding(w)

\* An event is never forgotten until the next periodic observation, unless a
\* wake found the queue full or its observation failed: somebody is still on
\* the way to an observation that begins after the event.
PromptWake ==
  dirty /\ ~late =>
    \/ \E w \in Watchers : watcher[w] # "idle"
    \/ Queued(Wake) # {}
    \/ cur = Wake /\ pc \in {"acknowledge", "refresh"}
    \/ pc \in {"start", "warm", "stuck"}

\* A subscriber reads Hello first and then every notification delivered since
\* it was registered, in order and without a gap, until its stream ends.
WholeStream ==
  \A s \in Subscribers :
    /\ missed[s] => s \notin registry
    /\ reader[s] # "away" /\ ~heard[s] =>
         stream[s] # <<>> /\ Head(stream[s]) = "hello"

\* A client that waits is in the queue once, or being served: its thread never
\* blocks on an answer nobody owes it.
WaitingIsServed ==
  \A c \in Clients :
    /\ client[c] = "waiting" <=> cur = c \/ Queued(c) # {}
    /\ cur = c => Queued(c) = {}
    /\ \A i, j \in Queued(c) : i = j

\* Every event is observed in the end, whatever is lost or busy.
EventsObserved == dirty ~> ~dirty \/ shutdown

\* Every request is answered, or its connection ends with the process.
Answered ==
  \A c \in Clients : client[c] = "waiting" ~> client[c] = "idle" \/ shutdown

\* A wedged daemon is replaced by one that serves (unless a shutdown had been
\* requested: then nobody watches any more).
ComesBack == pc = "stuck" ~> pc = "top" \/ shutdown
=============================================================================
