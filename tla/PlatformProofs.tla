--------------------------- MODULE PlatformProofs ---------------------------
(***************************************************************************)
(* Theorems about the two components of rovr-platform.                     *)
(*                                                                         *)
(* BoundedWorker, for every set of jobs and every width of the epoch cell: *)
(* single flight alone makes the answers right, the epoch comparison only  *)
(* confirms it.                                                            *)
(*                                                                         *)
(* Reinjection, for every length of the backoff schedule and every number  *)
(* of Dock restarts.                                                       *)
(***************************************************************************)
EXTENDS BoundedWorker, Reinjection, FiniteSetTheorems, SequenceTheorems, TLAPS

-----------------------------------------------------------------------------
\* The bounded worker.

\* The ticket the owner blocks on is the only one there is.
WaitingIsOut ==
  waiting # Nothing =>
    /\ inFlight
    /\ queue # <<>> => Head(queue) = waiting
    /\ running # Nothing => running = waiting
    /\ results # <<>> => Head(results) = waiting

\* A lost thread leaves its owner convinced that the job is still out.
LostIsInFlight == ~alive => inFlight

WorkerInv ==
  /\ WorkerTypeOK
  /\ SingleOutstanding
  /\ WaitingIsOut
  /\ LostIsInFlight
  /\ WedgeIsTrue
  /\ RightAnswer

-----------------------------------------------------------------------------
LEMMA EpochType == NextEpoch \in Epochs \/ epoch \notin Epochs
  BY WorkerAssumption DEF NextEpoch, Epochs

\* The channels hold at most one ticket: what taking it and adding it do.
LEMMA ShortChannel ==
  ASSUME NEW S, NEW s \in Seq(S), Len(s) <= 1
  PROVE  /\ Len(s) \in Nat
         /\ s = <<>> <=> Len(s) = 0
         /\ s # <<>> => Len(s) = 1 /\ Head(s) \in S /\ Tail(s) = <<>>
  BY EmptySeq, HeadTailProperties

LEMMA AddToEmpty ==
  ASSUME NEW S, NEW x \in S
  PROVE  /\ Append(<<>>, x) \in Seq(S)
         /\ Append(<<>>, x) # <<>>
         /\ Len(Append(<<>>, x)) = 1
         /\ Head(Append(<<>>, x)) = x
  OBVIOUS

\* What SingleOutstanding says about each channel on its own.
LEMMA OneTicket ==
  ASSUME WorkerTypeOK, SingleOutstanding
  PROVE  /\ Len(queue) <= 1 /\ Len(results) <= 1
         /\ queue = <<>> \/ (running = Nothing /\ results = <<>>)
         /\ running = Nothing \/ results = <<>>
         /\ ~(inFlight /\ alive) => queue = <<>> /\ running = Nothing /\ results = <<>>
         /\ results # <<>> => inFlight /\ alive
         /\ Len(queue) \in Nat /\ Len(results) \in Nat
<1>1. Len(queue) \in Nat /\ Len(results) \in Nat
  BY DEF WorkerTypeOK
<1>2. Len(queue) <= 1 /\ Len(results) <= 1
  BY <1>1 DEF SingleOutstanding, RunningCount
<1> QED
  BY <1>1, <1>2, ShortChannel DEF WorkerTypeOK, SingleOutstanding, RunningCount

\* The initial state satisfies the inductive invariant.
LEMMA WorkerInitInv == WorkerInit => WorkerInv
<1> SUFFICES ASSUME WorkerInit PROVE WorkerInv
  OBVIOUS
<1> USE DEF WorkerInit
<1>1. WorkerTypeOK
  <2>1. inFlight \in BOOLEAN /\ wedged \in BOOLEAN /\ alive \in BOOLEAN
    OBVIOUS
  <2>2. epoch \in Epochs
    BY WorkerAssumption DEF Epochs
  <2>3. queue \in Seq(Tickets) /\ results \in Seq(Tickets)
    BY EmptySeq
  <2> QED
    BY <2>1, <2>2, <2>3 DEF WorkerTypeOK
<1>2. SingleOutstanding
  BY DEF SingleOutstanding, RunningCount
<1> QED
  BY <1>1, <1>2 DEF WorkerInv, WaitingIsOut, LostIsInFlight, WedgeIsTrue, RightAnswer

\* Every step keeps it.
LEMMA WorkerNextInv == WorkerInv /\ [WorkerNext]_workerVars => WorkerInv'
<1> SUFFICES ASSUME WorkerInv, [WorkerNext]_workerVars PROVE WorkerInv'
  OBVIOUS
<1>0. /\ Len(queue) <= 1 /\ Len(results) <= 1
      /\ queue = <<>> \/ (running = Nothing /\ results = <<>>)
      /\ running = Nothing \/ results = <<>>
      /\ ~(inFlight /\ alive) => queue = <<>> /\ running = Nothing /\ results = <<>>
      /\ results # <<>> => inFlight /\ alive
  BY OneTicket DEF WorkerInv
<1>a. /\ queue # <<>> => Len(queue) = 1 /\ Head(queue) \in Tickets /\ Tail(queue) = <<>>
      /\ results # <<>> => Len(results) = 1 /\ Head(results) \in Tickets
                           /\ Tail(results) = <<>>
      /\ Len(<<>>) = 0 /\ <<>> \in Seq(Tickets)
  BY <1>0, ShortChannel DEF WorkerInv, WorkerTypeOK
<1> USE WorkerAssumption DEF WorkerInv, WorkerTypeOK, SingleOutstanding, WaitingIsOut,
        LostIsInFlight, WedgeIsTrue, RightAnswer, RunningCount
<1>1. ASSUME NEW j \in Jobs, Submit(j) PROVE WorkerInv'
  <2> DEFINE t == [epoch |-> NextEpoch, job |-> j]
  <2>1. NextEpoch \in Epochs /\ t \in Tickets
    BY EpochType DEF Tickets
  <2>2. alive /\ queue = <<>> /\ running = Nothing
    BY <1>1, <1>0 DEF Submit, MaySubmit
  <2>3. results' = <<>> /\ wedged' = FALSE
    BY <1>1, <1>0, <1>a DEF Submit, Reap
  <2>4. /\ queue' = Append(<<>>, t) /\ inFlight' = TRUE /\ waiting' = t
        /\ answer' = Nothing /\ epoch' = NextEpoch
        /\ running' = Nothing /\ alive' = TRUE
    BY <1>1, <1>a, <2>2 DEF Submit, QueueCap, thread
  <2>5. t # Nothing
    BY <2>1
  <2> HIDE DEF t
  <2>6. queue' \in Seq(Tickets) /\ Len(queue') = 1 /\ Head(queue') = t
    BY <2>1, <2>4, AddToEmpty
  <2>7. WorkerTypeOK'
    BY <1>a, <2>1, <2>3, <2>4, <2>6
  <2>8. SingleOutstanding'
    BY <1>a, <2>3, <2>4, <2>6
  <2> QED
    BY <2>3, <2>4, <2>6, <2>7, <2>8
<1>2. ASSUME NEW j \in Jobs, SubmitRefused(j) PROVE WorkerInv'
  BY <1>2 DEF SubmitRefused, owner, thread, Reply, Replies, Errors
<1>3. CASE ReapIdle
  <2>1. results' = <<>> /\ wedged' = FALSE /\ inFlight' = FALSE
    BY <1>3, <1>a DEF ReapIdle, Reap
  <2>2. /\ queue' = <<>> /\ running' = Nothing /\ alive' = TRUE
        /\ epoch' = epoch /\ waiting' = Nothing /\ answer' = answer
    BY <1>3, <1>0 DEF ReapIdle, thread
  <2>3. WorkerTypeOK'
    BY <1>a, <2>1, <2>2
  <2>4. SingleOutstanding'
    BY <1>a, <2>1, <2>2
  <2>5. RightAnswer'
    BY <2>2
  <2> QED
    BY <2>1, <2>2, <2>3, <2>4, <2>5
<1>4. CASE WaitReceive
  <2>1. Head(results) = waiting /\ results' = <<>>
    BY <1>4, <1>a DEF WaitReceive
  <2>2. answer' = Reply(waiting.job, waiting.job) /\ waiting' = Nothing
    BY <1>4, <2>1 DEF WaitReceive
  <2>3. waiting.job \in Jobs
    BY <1>4 DEF WaitReceive, Tickets
  <2>4. /\ inFlight' = FALSE /\ wedged' = FALSE /\ queue' = <<>> /\ running' = Nothing
        /\ alive' = TRUE /\ epoch' = epoch
    BY <1>4, <1>0 DEF WaitReceive, thread
  <2>5. WorkerTypeOK' /\ RightAnswer'
    BY <1>a, <2>1, <2>2, <2>3, <2>4 DEF Reply, Replies
  <2> QED
    BY <1>a, <2>1, <2>2, <2>4, <2>5
<1>5. CASE WaitTimeout
  <2>1. waiting.job \in Jobs
    BY <1>5 DEF WaitTimeout, Tickets
  <2> QED
    BY <1>5, <2>1 DEF WaitTimeout, thread, Reply, Replies, Errors
<1>6. CASE WaitDead
  <2>1. waiting.job \in Jobs
    BY <1>6 DEF WaitDead, Tickets
  <2> QED
    BY <1>6, <2>1 DEF WaitDead, owner, thread, Reply, Replies, Errors
<1>7. CASE Take
  BY <1>7, <1>0, <1>a DEF Take, owner
<1>8. CASE Finish
  <2>1. results = <<>> /\ queue = <<>> /\ inFlight /\ alive /\ running \in Tickets
    BY <1>8, <1>0 DEF Finish
  <2>2. results' = Append(<<>>, running) /\ running' = Nothing
    BY <1>8, <2>1 DEF Finish
  <2> QED
    BY <1>8, <1>a, <2>1, <2>2, AddToEmpty DEF Finish, owner
<1>9. CASE Panic
  <2>1. /\ queue' = <<>> /\ results' = <<>> /\ running' = Nothing /\ alive' = FALSE
        /\ inFlight' = inFlight /\ inFlight
    BY <1>9, <1>0 DEF Panic, owner
  <2>2. SingleOutstanding'
    BY <1>a, <2>1
  <2>3. WorkerTypeOK'
    BY <1>9, <2>1 DEF Panic, owner
  <2> QED
    BY <1>9, <2>1, <2>2, <2>3 DEF Panic, owner
<1>10. CASE UNCHANGED workerVars
  BY <1>10 DEF workerVars
<1> QED
  BY <1>1, <1>2, <1>3, <1>4, <1>5, <1>6, <1>7, <1>8, <1>9, <1>10
  DEF WorkerNext, Owner, Thread

LEMMA AlwaysWorkerInv == WorkerSpec => []WorkerInv
  BY WorkerInitInv, WorkerNextInv, PTL DEF WorkerSpec

\* Every variable keeps its type.
THEOREM WorkerTypeCorrect == WorkerSpec => []WorkerTypeOK
  BY AlwaysWorkerInv, PTL DEF WorkerInv

\* At most one job exists, and in_flight says whether it does.
THEOREM SingleOutstandingHolds == WorkerSpec => []SingleOutstanding
  BY AlwaysWorkerInv, PTL DEF WorkerInv

\* No owner is ever handed another job's result, whatever the epoch width.
THEOREM RightAnswerHolds == WorkerSpec => []RightAnswer
  BY AlwaysWorkerInv, PTL DEF WorkerInv

\* The wedge report is raised only over a job that is still out.
THEOREM WedgeIsTrueHolds == WorkerSpec => []WedgeIsTrue
  BY AlwaysWorkerInv, PTL DEF WorkerInv

-----------------------------------------------------------------------------
Placed ==
  /\ queue # <<>> => Outstanding = Head(queue).job
  /\ running # Nothing => Outstanding = running.job
  /\ results # <<>> => Outstanding = Head(results).job
  /\ inFlight /\ alive => Outstanding \in Jobs
  /\ ~(inFlight /\ alive) => Outstanding = Nothing
  /\ waiting # Nothing => waiting.job \in Jobs

\* Where the outstanding job is, one place at a time.
LEMMA OutstandingPlaced == WorkerInv => Placed
<1> SUFFICES ASSUME WorkerTypeOK, SingleOutstanding PROVE Placed
  BY DEF WorkerInv
<1>1. /\ queue # <<>> => Head(queue) \in Tickets
      /\ results # <<>> => Head(results) \in Tickets
  BY OneTicket, ShortChannel DEF WorkerTypeOK
<1>2. queue = <<>> /\ running = Nothing /\ results = <<>> => ~(inFlight /\ alive)
  BY EmptySeq DEF SingleOutstanding, RunningCount
<1> QED
  BY <1>1, <1>2, OneTicket DEF Placed, Outstanding, WorkerTypeOK, Tickets

\* The initial state is an initial state of the promise.
LEMMA PromiseInit == WorkerInit => Promise!Init
  BY DEF WorkerInit, Promise!Init, Outstanding

\* Every step is a step of the promise or leaves it unchanged.
LEMMA PromiseStep ==
  WorkerInv /\ WorkerInv' /\ [WorkerNext]_workerVars => [Promise!Next]_Promise!vars
<1> SUFFICES ASSUME WorkerInv, WorkerInv', [WorkerNext]_workerVars
             PROVE  [Promise!Next]_Promise!vars
  OBVIOUS
<1> DEFINE Asked == IF waiting = Nothing THEN Nothing ELSE waiting.job
<1>0. /\ queue = <<>> \/ (running = Nothing /\ results = <<>>)
      /\ running = Nothing \/ results = <<>>
      /\ ~(inFlight /\ alive) => queue = <<>> /\ running = Nothing /\ results = <<>>
      /\ results # <<>> => inFlight /\ alive /\ Tail(results) = <<>>
      /\ queue # <<>> => Tail(queue) = <<>>
      /\ inFlight \in BOOLEAN /\ alive \in BOOLEAN
      /\ waiting # Nothing => waiting.job \in Jobs
      /\ Nothing \notin Jobs
      /\ running \in Tickets \cup {Nothing}
  BY OneTicket, ShortChannel, WorkerAssumption DEF WorkerInv, WorkerTypeOK, Tickets
<1>a. Placed
  BY OutstandingPlaced
<1>b. Placed'
  BY OutstandingPlaced, PTL
<1> USE DEF Placed
<1>1. ASSUME NEW j \in Jobs, Submit(j) PROVE Promise!Next
  <2> DEFINE t == [epoch |-> NextEpoch, job |-> j]
  <2>1. t \in Tickets
    BY EpochType DEF Tickets, WorkerInv, WorkerTypeOK
  <2>2. waiting = Nothing /\ alive /\ queue = <<>> /\ (results = <<>> => ~inFlight)
    BY <1>1, <1>0 DEF Submit, MaySubmit, WorkerInv, LostIsInFlight
  <2>3. /\ queue' = Append(<<>>, t) /\ waiting' = t /\ answer' = Nothing
        /\ alive' = alive
    BY <1>1, <2>2, EmptySeq DEF Submit, QueueCap, thread
  <2>4. t # Nothing /\ t.job = j /\ t.job # Nothing
    BY <2>1, WorkerAssumption
  <2>5. queue' # <<>> /\ Head(queue') = t
    BY <2>1, <2>3, AddToEmpty
  <2>6. Outstanding' = j
    BY <1>b, <2>4, <2>5
  <2>7. CASE results = <<>>
    BY <2>2, <2>3, <2>4, <2>6, <2>7, <1>a DEF Promise!Next, Promise!Ask
  <2>8. CASE results # <<>>
    BY <2>2, <2>3, <2>4, <2>6, <2>8, <1>a, <1>0 DEF Promise!Next, Promise!Replace
  <2> QED
    BY <2>7, <2>8
<1>2. ASSUME NEW j \in Jobs, SubmitRefused(j) PROVE Promise!Next
  <2>1. UNCHANGED Outstanding
    BY <1>2 DEF SubmitRefused, Outstanding, thread
  <2>2. Outstanding # Nothing \/ ~alive
    BY <1>2, <1>0, <1>a DEF SubmitRefused, MaySubmit
  <2> QED
    BY <1>2, <2>1, <2>2
    DEF SubmitRefused, owner, thread, Promise!Next, Promise!Refuse, Promise!Reply,
        Reply, Errors
<1>3. CASE ReapIdle
  <2>1. waiting = Nothing /\ waiting' = Nothing /\ answer' = answer /\ alive' = alive
    BY <1>3 DEF ReapIdle, thread
  <2>2. Outstanding # Nothing
    BY <1>3, <1>0, <1>a DEF ReapIdle
  <2>3. Outstanding' = Nothing
    BY <1>3, <1>b DEF ReapIdle
  <2> QED
    BY <2>1, <2>2, <2>3 DEF Promise!Next, Promise!Retire
<1>4. CASE WaitReceive
  <2>1. Head(results) = waiting /\ waiting # Nothing /\ alive' = alive
    BY <1>4 DEF WaitReceive, WorkerInv, WaitingIsOut, thread
  <2>2. answer' = Reply(waiting.job, waiting.job) /\ waiting' = Nothing
    BY <1>4, <2>1 DEF WaitReceive
  <2>3. Outstanding = waiting.job
    BY <1>4, <1>a, <2>1 DEF WaitReceive
  <2>4. Outstanding' = Nothing
    BY <1>4, <1>b DEF WaitReceive
  <2> QED
    BY <1>0, <2>1, <2>2, <2>3, <2>4 DEF Promise!Next, Promise!Serve, Promise!Reply, Reply
<1>5. CASE WaitTimeout
  <2>1. UNCHANGED Outstanding
    BY <1>5 DEF WaitTimeout, Outstanding, thread
  <2> QED
    BY <1>5, <1>0, <2>1
    DEF WaitTimeout, thread, Promise!Next, Promise!GiveUp, Promise!Reply, Reply, Errors
<1>6. CASE WaitDead
  <2>1. UNCHANGED Outstanding
    BY <1>6 DEF WaitDead, Outstanding, thread
  <2> QED
    BY <1>6, <1>0, <2>1
    DEF WaitDead, owner, thread, Promise!Next, Promise!GiveUp, Promise!Reply, Reply, Errors
<1>7. CASE Take
  <2>1. running' = Head(queue) /\ queue # <<>> /\ running' # Nothing
    BY <1>7, OneTicket, ShortChannel, WorkerAssumption DEF Take, WorkerInv, WorkerTypeOK
  <2>2. Outstanding' = Outstanding
    BY <1>a, <1>b, <2>1
  <2> QED
    BY <1>7, <2>2 DEF Take, Promise!vars
<1>8. CASE Finish
  <2>1. results = <<>> /\ running # Nothing /\ running \in Tickets
    BY <1>8, <1>0 DEF Finish
  <2>2. results' # <<>> /\ Head(results') = running
    BY <1>8, <2>1, AddToEmpty DEF Finish
  <2>3. Outstanding' = Outstanding
    BY <1>a, <1>b, <2>1, <2>2
  <2> QED
    BY <1>8, <2>3 DEF Finish, Promise!vars
<1>9. CASE Panic
  <2>1. Outstanding # Nothing
    BY <1>9, <1>0, <1>a DEF Panic
  <2>2. Outstanding' = Nothing
    BY <1>9, <1>b DEF Panic
  <2> QED
    BY <1>9, <2>1, <2>2 DEF Panic, owner, Promise!Next, Promise!Lose
<1>10. CASE UNCHANGED workerVars
  BY <1>10 DEF workerVars, Promise!vars, Outstanding
<1> QED
  BY <1>1, <1>2, <1>3, <1>4, <1>5, <1>6, <1>7, <1>8, <1>9, <1>10
  DEF WorkerNext, Owner, Thread

\* The worker keeps the promise of a single-flight server: what its owner can
\* see of it is a behaviour of SingleFlight.
THEOREM PromiseHolds == WorkerSpec => PromiseKept
  BY PromiseInit, PromiseStep, AlwaysWorkerInv, PTL DEF WorkerSpec, PromiseKept, Promise!Spec

\* Nothing is handed to a thread that a panicking job has ended.
THEOREM DeadStaysDeadHolds == WorkerSpec => DeadStaysDead
<1>1. WorkerInv /\ [WorkerNext]_workerVars =>
        [~alive => UNCHANGED <<epoch, queue, inFlight>>]_workerVars
  <2> SUFFICES ASSUME WorkerInv, WorkerNext, ~alive
               PROVE  UNCHANGED <<epoch, queue, inFlight>>
    BY DEF workerVars
  <2>1. inFlight /\ results = <<>> /\ queue = <<>> /\ running = Nothing
    BY OneTicket DEF WorkerInv, LostIsInFlight
  <2> QED
    BY <2>1 DEF WorkerNext, Owner, Thread, Submit, SubmitRefused, MaySubmit, ReapIdle,
                WaitReceive, WaitTimeout, WaitDead, Take, Finish, Panic, owner
<1> QED
  BY <1>1, AlwaysWorkerInv, PTL DEF WorkerSpec, DeadStaysDead

-----------------------------------------------------------------------------
\* Reinjection.

\* The guard is held while a job thread exists, and by one thread.
GuardHeld ==
  /\ jobs # {} => inflight
  /\ \A j, k \in jobs : j = k
  /\ \A j \in jobs : j.stage = "stored" => slot # None /\ slot.gen = j.gen

\* The request of this generation is out, or its result is in the slot.
Own ==
  \/ inflight /\ \E j \in jobs : j.gen = generation
  \/ ~inflight /\ slot # None /\ slot.gen = generation

Waiting ==
  /\ phase = "Injecting" => Own
  /\ pc = "started" => Own /\ phase = "Failed"

Counted ==
  /\ attempts <= MaxAttempts
  /\ phase \in {"Injecting", "Verifying"} => attempts >= 1
  /\ request = "RequestInjection" =>
       pc = "spawn" /\ phase = "Failed" /\ attempts <= BackoffLen
  /\ pc = "started" => attempts <= BackoffLen

\* The Dock the platform last read has not restarted behind the cached
\* handshake, except between reading the pid and the probe it forces.
WorldOrder ==
  /\ dock # None => dock = started
  /\ dock = None => ~sa
  /\ lastDock # None => lastDock <= started

Fresh == saSeen # None /\ lastDock # None => saSeen >= lastDock

Handshake ==
  /\ pc = "probe" => tickDock = lastDock /\ (probeDue \/ Fresh)
  /\ pc # "probe" => Fresh
  /\ pc \in {"collect", "observe"} => tickDock = lastDock
  /\ pc = "spawn" => pid = lastDock
  /\ pc = "spawn" /\ phase = "Healthy" => saSeen # None

IInv ==
  TypeOK /\ GuardHeld /\ Waiting /\ Counted /\ WorldOrder /\ Handshake

-----------------------------------------------------------------------------
\* The initial states satisfy the invariant.
LEMMA InitIInv == ASSUME Init PROVE IInv
<1> USE ReinjectionAssumption
<1>1. TypeOK
  <2>1. Flags
    BY Zenon DEF Init, Flags
  <2> QED BY <2>1 DEF Init, TypeOK, Phases, Timers
<1>2. GuardHeld /\ Waiting /\ Counted
  BY DEF Init, GuardHeld, Waiting, Counted, MaxAttempts
<1>3. WorldOrder
  BY DEF Init, WorldOrder
<1>4. Handshake
  BY DEF Init, Handshake, Fresh
<1> QED BY <1>1, <1>2, <1>3, <1>4 DEF IInv

\* The world's actions touch neither the machine's phase nor the job.
LEMMA WorldStep == ASSUME IInv, World PROVE IInv'
<1> USE ReinjectionAssumption DEF IInv
<1>1. TypeOK'
  <2>1. Flags'
    BY Zenon DEF TypeOK, Flags, World, DockExits, DockStarts, SaChanges,
      VerifyPasses, RetryPasses, ProbeFallsDue, world, cells, job
  <2> QED
    BY <2>1 DEF TypeOK, World, DockExits, DockStarts, SaChanges, VerifyPasses,
      RetryPasses, ProbeFallsDue, world, tick, cells, machine, job, Timers
<1>2. UNCHANGED <<job, phase, generation, attempts, request, pc, pid, tickDock,
                  lastDock, saSeen>>
  BY DEF World, DockExits, DockStarts, SaChanges, VerifyPasses, RetryPasses,
         ProbeFallsDue, tick, cells, machine
<1>3. GuardHeld' /\ Waiting' /\ Counted'
  BY <1>2 DEF GuardHeld, Waiting, Own, Counted, job
<1>4. WorldOrder'
  BY DEF WorldOrder, TypeOK, World, DockExits, DockStarts, SaChanges,
         VerifyPasses, RetryPasses, ProbeFallsDue, world, cells
<1>5. probeDue => probeDue'
  BY DEF World, DockExits, DockStarts, SaChanges, VerifyPasses, RetryPasses,
         ProbeFallsDue, cells
<1>6. Handshake'
  BY <1>2, <1>5 DEF Handshake, Fresh
<1> QED BY <1>1, <1>3, <1>4, <1>6

\* The six steps of a tick.
LEMMA TickStep == ASSUME IInv, Tick PROVE IInv'
<1> USE ReinjectionAssumption DEF IInv
<1>1. CASE ReadDock
  <2>1. TypeOK'
    <3>1. Flags'
      BY <1>1, Zenon DEF TypeOK, Flags, ReadDock, world, job
    <3> QED BY <1>1, <3>1 DEF TypeOK, ReadDock, world, machine, job
  <2>2. GuardHeld' /\ Waiting' /\ Counted' /\ WorldOrder'
    BY <1>1 DEF ReadDock, TypeOK, GuardHeld, Waiting, Own, Counted, WorldOrder,
                world, machine, job
  <2>3. Handshake'
    BY <1>1 DEF ReadDock, TypeOK, Handshake, Fresh, machine
  <2> QED BY <2>1, <2>2, <2>3
<1>2. CASE Probe
  <2>1. TypeOK'
    <3>1. Flags'
      BY <1>2, Zenon DEF TypeOK, Flags, Probe, world, job
    <3> QED BY <1>2, <3>1 DEF TypeOK, Probe, world, machine, job
  <2>2. GuardHeld' /\ Waiting' /\ Counted' /\ WorldOrder'
    BY <1>2 DEF Probe, TypeOK, GuardHeld, Waiting, Own, Counted, WorldOrder,
                world, machine, job
  <2>3. Handshake'
    BY <1>2 DEF Probe, TypeOK, Handshake, Fresh, WorldOrder, machine
  <2> QED BY <2>1, <2>2, <2>3
<1>3. CASE Collect
  <2>1. TypeOK'
    <3>1. Flags'
      BY <1>3, Zenon DEF TypeOK, Flags, Collect, world
    <3> QED
      BY <1>3, <3>1 DEF TypeOK, Collect, InjectionFinished, world, deadline,
                        machine, Phases, Timers
  <2>2. GuardHeld' /\ WorldOrder'
    BY <1>3 DEF Collect, GuardHeld, WorldOrder, world
  <2>3. Waiting'
    BY <1>3 DEF Collect, InjectionFinished, Waiting, Own, machine, deadline
  <2>4. Counted'
    BY <1>3 DEF Collect, InjectionFinished, Counted, machine, deadline
  <2>5. Handshake'
    BY <1>3 DEF Collect, Handshake, Fresh
  <2> QED BY <2>1, <2>2, <2>3, <2>4, <2>5
<1>4. CASE Observe
  <2> DEFINE s == Renewed(saSeen # None)
  <2>1. /\ s.phase \in Phases /\ s.attempts \in Nat
        /\ s.verify \in Timers /\ s.retry \in Timers
        /\ s.attempts <= MaxAttempts
        /\ s.phase \in {"Injecting", "Verifying"} => s.attempts >= 1
    BY DEF Renewed, TypeOK, Counted, Phases, Timers, MaxAttempts
  <2>2. /\ phase' \in Phases /\ verify' \in Timers /\ retry' \in Timers
        /\ request' \in {"None", "RequestInjection"}
        /\ phase' \in {"Injecting", "Verifying"} => phase' = s.phase
        /\ request' = "RequestInjection" =>
             phase' = "Failed" /\ s.attempts <= BackoffLen
        /\ phase' = "Healthy" => saSeen # None
    <3>1. Decide(s, saSeen # None)
      BY <1>4 DEF Observe
    <3> HIDE DEF s
    <3>2. CASE s.phase = "Healthy"
      BY <2>1, <3>1, <3>2 DEF Decide, Become, MaybeRequest, Phases, Timers
    <3>3. CASE s.phase = "Injecting"
      BY <2>1, <3>1, <3>3 DEF Decide, Become, Phases, Timers
    <3>4. CASE s.phase = "Verifying"
      BY <2>1, <3>1, <3>4 DEF Decide, Become, Phases, Timers
    <3>5. CASE s.phase = "Failed"
      BY <2>1, <3>1, <3>5 DEF Decide, Become, MaybeRequest, Phases, Timers
    <3> QED BY <2>1, <3>2, <3>3, <3>4, <3>5 DEF Phases
  <2>3. /\ attempts' = s.attempts /\ pid' = tickDock /\ pc' = "spawn"
        /\ generation' = IF tickDock = pid THEN generation ELSE generation + 1
        /\ UNCHANGED <<world, tickDock, cells, job>>
    BY <1>4 DEF Observe
  <2>4. TypeOK'
    <3>1. Flags'
      BY <2>3, Zenon DEF TypeOK, Flags, world, cells, job
    <3> QED BY <2>1, <2>2, <2>3, <3>1 DEF TypeOK, world, cells, job
  <2>5. GuardHeld' /\ WorldOrder'
    BY <2>3 DEF GuardHeld, WorldOrder, world, cells, job
  <2>6. phase' = "Injecting" => phase = "Injecting" /\ generation' = generation
    BY <2>2, <2>3 DEF Renewed
  <2>7. Waiting'
    BY <2>3, <2>6 DEF Waiting, Own, job
  <2>8. Counted'
    BY <2>1, <2>2, <2>3 DEF Counted
  <2>9. Handshake'
    BY <2>2, <2>3, <1>4 DEF Handshake, Fresh, Observe, cells
  <2> QED BY <2>4, <2>5, <2>7, <2>8, <2>9
<1>5. CASE Spawn
  <2>1. TypeOK'
    <3>1. Flags'
      BY <1>5, Zenon DEF TypeOK, Flags, Spawn, world, cells
    <3>2. jobs' \in SUBSET Threads
      BY <1>5 DEF TypeOK, Spawn, Threads
    <3> QED BY <1>5, <3>1, <3>2 DEF TypeOK, Spawn, world, cells, machine
  <2>2. GuardHeld'
    BY <1>5 DEF Spawn, GuardHeld
  <2>3. Waiting'
    BY <1>5 DEF Spawn, Waiting, Own, Counted, GuardHeld, machine
  <2>4. Counted' /\ WorldOrder'
    BY <1>5 DEF Spawn, Counted, WorldOrder, world, cells, machine
  <2>5. Handshake'
    BY <1>5 DEF Spawn, Handshake, Fresh, cells, machine
  <2> QED BY <2>1, <2>2, <2>3, <2>4, <2>5
<1>6. CASE InjectionStarted
  <2>1. TypeOK'
    <3>1. Flags'
      BY <1>6, Zenon DEF TypeOK, Flags, InjectionStarted, world, cells, job
    <3> QED BY <1>6, <3>1 DEF TypeOK, InjectionStarted, Phases, Timers, world,
                              cells, job
  <2>2. GuardHeld' /\ WorldOrder'
    BY <1>6 DEF InjectionStarted, GuardHeld, WorldOrder, world, cells, job
  <2>3. Waiting'
    BY <1>6 DEF InjectionStarted, Waiting, Own, job
  <2>4. Counted'
    BY <1>6 DEF InjectionStarted, Counted, TypeOK, MaxAttempts
  <2>5. Handshake'
    BY <1>6 DEF InjectionStarted, Handshake, Fresh, cells
  <2> QED BY <2>1, <2>2, <2>3, <2>4, <2>5
<1> QED BY <1>1, <1>2, <1>3, <1>4, <1>5, <1>6 DEF Tick

\* The steps of a job thread, of which there is one.
LEMMA JobStep == ASSUME IInv, Job PROVE IInv'
<1> USE ReinjectionAssumption DEF IInv
<1>1. PICK j \in jobs : Inject(j) \/ Store(j) \/ Release(j)
  BY DEF Job
<1>2. jobs = {j}
  BY DEF GuardHeld
<1>3. inflight
  BY <1>2 DEF GuardHeld
<1>4. j \in Threads
  BY DEF TypeOK
<1>5. CASE Inject(j)
  <2>1. PICK end \in {"ok", "failed"}, loaded \in BOOLEAN :
          /\ end = "ok" \/ loaded => dock # None
          /\ jobs' = (jobs \ {j}) \cup {[j EXCEPT !.stage = end]}
          /\ sa' = IF loaded THEN TRUE ELSE sa
    BY <1>5, Zenon DEF Inject
  <2>2. jobs' = {[j EXCEPT !.stage = end]}
    BY <1>2, <2>1
  <2>3. TypeOK'
    <3>1. Flags'
      BY <1>5, <2>1, Zenon DEF TypeOK, Flags, Inject, cells
    <3>2. jobs' \in SUBSET Threads
      BY <1>4, <2>2 DEF Threads
    <3> QED BY <1>5, <3>1, <3>2 DEF TypeOK, Inject, tick, cells, machine
  <2>4. GuardHeld' /\ Waiting'
    BY <1>2, <1>3, <1>4, <1>5, <2>2
    DEF Inject, GuardHeld, Waiting, Own, Threads, tick, machine
  <2>5. Counted' /\ WorldOrder' /\ Handshake'
    BY <1>5, <2>1 DEF Inject, Counted, WorldOrder, Handshake, Fresh, tick,
                      cells, machine
  <2> QED BY <2>3, <2>4, <2>5
<1>6. CASE Store(j)
  <2>1. jobs' = {[j EXCEPT !.stage = "stored"]}
    BY <1>2, <1>6 DEF Store
  <2>2. /\ slot' \in Results /\ slot'.gen = j.gen /\ slot' # None
    BY <1>4, <1>6, ReinjectionAssumption DEF Store, Results, Threads
  <2>3. TypeOK'
    <3>1. Flags'
      BY <1>6, Zenon DEF TypeOK, Flags, Store, world, cells
    <3>2. jobs' \in SUBSET Threads
      BY <1>4, <2>1 DEF Threads
    <3> QED BY <1>6, <2>2, <3>1, <3>2 DEF TypeOK, Store, world, tick, cells,
                                          machine
  <2>4. GuardHeld' /\ Waiting'
    BY <1>2, <1>3, <1>4, <1>6, <2>1, <2>2
    DEF Store, GuardHeld, Waiting, Own, Threads, Results, tick, machine
  <2>5. Counted' /\ WorldOrder' /\ Handshake'
    BY <1>6 DEF Store, Counted, WorldOrder, Handshake, Fresh, world, tick,
                cells, machine
  <2> QED BY <2>3, <2>4, <2>5
<1>7. CASE Release(j)
  <2>1. jobs' = {}
    BY <1>2, <1>7 DEF Release
  <2>2. TypeOK'
    <3>1. Flags'
      BY <1>7, Zenon DEF TypeOK, Flags, Release, world, cells
    <3> QED BY <1>7, <2>1, <3>1 DEF TypeOK, Release, world, tick, cells,
                                    machine
  <2>3. GuardHeld' /\ Waiting'
    BY <1>2, <1>3, <1>7, <2>1 DEF Release, GuardHeld, Waiting, Own, tick, machine
  <2>4. Counted' /\ WorldOrder' /\ Handshake'
    BY <1>7 DEF Release, Counted, WorldOrder, Handshake, Fresh, world, tick,
                cells, machine
  <2> QED BY <2>2, <2>3, <2>4
<1> QED BY <1>1, <1>5, <1>6, <1>7

LEMMA StutterStep == ASSUME IInv, UNCHANGED vars PROVE IInv'
BY DEF IInv, TypeOK, Flags, GuardHeld, Waiting, Own, Counted, WorldOrder, Handshake,
       Fresh, vars

\* The inductive invariant holds of every behaviour.
THEOREM Inductive == Spec => []IInv
<1>1. IInv /\ [Next]_vars => IInv'
  BY WorldStep, TickStep, JobStep, StutterStep DEF Next
<1> QED BY InitIInv, <1>1, PTL DEF Spec

-----------------------------------------------------------------------------
\* Every variable keeps its type.
THEOREM TypeCorrect == Spec => []TypeOK
<1>1. IInv => TypeOK
  BY DEF IInv
<1> QED BY Inductive, <1>1, PTL

\* A Healthy verdict rests on a handshake of the current Dock or a later one,
\* however restarts, probes and ticks interleave.
THEOREM HealthyIsCurrentHolds == Spec => []HealthyIsCurrent
<1>1. IInv => HealthyIsCurrent
  BY DEF IInv, Handshake, Fresh, HealthyIsCurrent
<1> QED BY Inductive, <1>1, PTL

\* Injecting is never a dead end and never takes an older generation's result.
THEOREM ResultIsOwnHolds == Spec => []ResultIsOwn
<1>1. IInv => ResultIsOwn
  BY DEF IInv, Waiting, Own, ResultIsOwn
<1> QED BY Inductive, <1>1, PTL

\* At most one privileged request is in flight.
THEOREM OneRequestHolds == Spec => []OneRequest
<1>1. ASSUME IInv PROVE OneRequest
  <2> DEFINE R == {j \in jobs : j.stage = "running"}
  <2>1. CASE R = {}
    BY <2>1, FS_EmptySet DEF OneRequest
  <2>2. CASE R # {}
    <3>1. PICK j \in R : TRUE
      BY <2>2
    <3>2. R = {j}
      BY <1>1, <3>1 DEF IInv, GuardHeld
    <3> QED BY <3>2, FS_Singleton DEF OneRequest
  <2> QED BY <2>1, <2>2
<1> QED BY Inductive, <1>1, PTL

\* A generation gets at most BackoffLen + 1 requests, and schedule_backoff is
\* never reached with no attempt behind it.
THEOREM AttemptsBoundedHolds == Spec => []AttemptsBounded
<1>1. IInv => AttemptsBounded
  BY DEF IInv, Counted, AttemptsBounded
<1> QED BY Inductive, <1>1, PTL
=============================================================================
