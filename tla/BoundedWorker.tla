--------------------------- MODULE BoundedWorker ---------------------------
(***************************************************************************)
(* The bounded platform worker (rovr-platform/src/bounded_worker.rs): one  *)
(* persistent thread, a job channel of capacity one, an unbounded result   *)
(* channel, and the owner's cells in_flight, epoch and wedged_at.  The     *)
(* owner submits a job and waits for it against a deadline; macOS may make *)
(* the job hang, finish late, or panic.  A deadline passes at any moment.  *)
(***************************************************************************)
EXTENDS Naturals, Sequences

CONSTANTS
  Jobs,      \* what a closure computes: two closures with different values
  EpochMod,  \* the epoch cell is a u64: 2^64 in the code
  MayPanic,  \* whether a job may panic, which ends the worker thread
  Nothing

Errors  == {"timeout", "fastfail", "dead"}
Epochs  == 0 .. EpochMod - 1
Tickets == [epoch : Epochs, job : Jobs]
Replies == [asked : Jobs, got : Jobs \cup Errors]

ASSUME WorkerAssumption ==
  /\ EpochMod \in Nat \ {0}
  /\ MayPanic \in BOOLEAN
  /\ Jobs \cap Errors = {}
  /\ Nothing \notin Jobs \cup Tickets \cup Replies

VARIABLES
  inFlight, epoch, wedged,   \* the owner's cells
  queue, results,            \* the two channels
  running, alive,            \* the worker thread
  waiting,                   \* the ticket the owner blocks on, or Nothing
  answer                     \* what the owner was last told

owner  == <<inFlight, epoch, wedged>>
thread == <<running, alive>>
workerVars ==
  <<inFlight, epoch, wedged, queue, results, running, alive, waiting, answer>>

WorkerInit ==
  /\ inFlight = FALSE /\ epoch = 0 /\ wedged = FALSE
  /\ queue = <<>> /\ results = <<>>
  /\ running = Nothing /\ alive = TRUE
  /\ waiting = Nothing /\ answer = Nothing

QueueCap  == 1
NextEpoch == (epoch + 1) % EpochMod
Reply(j, v) == [asked |-> j, got |-> v]

\* reap_finished took the previous job's result off the channel, or had none
\* to look for; otherwise submit stops before it issues an epoch.
MaySubmit == inFlight => results # <<>>

\* Mutant of Reap: the wedge report survives the late result.
ReapStillWedged ==
  /\ results' = IF inFlight THEN Tail(results) ELSE results
  /\ wedged' = wedged

Reap ==
  /\ results' = IF inFlight THEN Tail(results) ELSE results
  /\ wedged' = IF inFlight THEN FALSE ELSE wedged

Submit(j) ==
  /\ waiting = Nothing
  /\ MaySubmit
  /\ Reap
  /\ epoch' = NextEpoch
  /\ IF alive /\ Len(queue) < QueueCap
     THEN LET t == [epoch |-> NextEpoch, job |-> j]
          IN  /\ queue' = Append(queue, t)
              /\ inFlight' = TRUE
              /\ waiting' = t
              /\ answer' = Nothing
     ELSE /\ inFlight' = FALSE
          /\ answer' = Reply(j, "dead")
          /\ UNCHANGED <<queue, waiting>>
  /\ UNCHANGED thread

\* The previous job is still out: FastFail, or Dead when its thread is gone.
SubmitRefused(j) ==
  /\ waiting = Nothing
  /\ ~MaySubmit
  /\ answer' = Reply(j, IF alive THEN "fastfail" ELSE "dead")
  /\ UNCHANGED <<owner, queue, results, thread, waiting>>

\* is_idle finds a late result and throws it away.
ReapIdle ==
  /\ waiting = Nothing
  /\ inFlight /\ results # <<>>
  /\ Reap
  /\ inFlight' = FALSE
  /\ UNCHANGED <<epoch, queue, thread, waiting, answer>>

\* One turn of the loops in wait_until and poll that takes a result.
WaitReceive ==
  /\ waiting # Nothing
  /\ results # <<>>
  /\ results' = Tail(results)
  /\ inFlight' = FALSE
  /\ wedged' = FALSE
  /\ IF Head(results).epoch = waiting.epoch
     THEN /\ answer' = Reply(waiting.job, Head(results).job)
          /\ waiting' = Nothing
     ELSE UNCHANGED <<answer, waiting>>
  /\ UNCHANGED <<epoch, queue, thread>>

\* Mutant of WaitTimeout: the owner takes the hung job for gone.
WaitTimeoutForgets ==
  /\ waiting # Nothing /\ results = <<>> /\ alive
  /\ wedged' = TRUE
  /\ inFlight' = FALSE
  /\ answer' = Reply(waiting.job, "timeout")
  /\ waiting' = Nothing
  /\ UNCHANGED <<epoch, queue, results, thread>>

\* The deadline passed; wait_until polls once more before it looks at it.
WaitTimeout ==
  /\ waiting # Nothing
  /\ results = <<>>
  /\ alive
  /\ wedged' = TRUE
  /\ answer' = Reply(waiting.job, "timeout")
  /\ waiting' = Nothing
  /\ UNCHANGED <<inFlight, epoch, queue, results, thread>>

WaitDead ==
  /\ waiting # Nothing
  /\ results = <<>>
  /\ ~alive
  /\ answer' = Reply(waiting.job, "dead")
  /\ waiting' = Nothing
  /\ UNCHANGED <<owner, queue, results, thread>>

\* The worker thread.
Take ==
  /\ alive
  /\ running = Nothing
  /\ queue # <<>>
  /\ running' = Head(queue)
  /\ queue' = Tail(queue)
  /\ UNCHANGED <<owner, results, alive, waiting, answer>>

Finish ==
  /\ running # Nothing
  /\ results' = Append(results, running)
  /\ running' = Nothing
  /\ UNCHANGED <<owner, queue, alive, waiting, answer>>

Panic ==
  /\ MayPanic
  /\ running # Nothing
  /\ running' = Nothing
  /\ alive' = FALSE
  /\ UNCHANGED <<owner, queue, results, waiting, answer>>

Owner  == \/ \E j \in Jobs : Submit(j) \/ SubmitRefused(j)
          \/ ReapIdle \/ WaitReceive \/ WaitTimeout \/ WaitDead
Thread == Take \/ Finish \/ Panic
WorkerNext == Owner \/ Thread

WorkerSpec == WorkerInit /\ [][WorkerNext]_workerVars

(***************************************************************************)
(* Fairness.  The state loop observes again and again, so the owner keeps  *)
(* calling; the thread takes what is queued; JobsReturn is the premise of  *)
(* recovery only: the code never assumes that a job returns.               *)
(***************************************************************************)
OwnerFair ==
  /\ WF_workerVars(WaitReceive \/ WaitTimeout \/ WaitDead)
  /\ WF_workerVars(\E j \in Jobs : Submit(j) \/ SubmitRefused(j))
JobsReturn == WF_workerVars(Take) /\ WF_workerVars(Finish)
WorkerFairSpec == WorkerSpec /\ OwnerFair /\ JobsReturn

-----------------------------------------------------------------------------
WorkerTypeOK ==
  /\ inFlight \in BOOLEAN /\ wedged \in BOOLEAN /\ alive \in BOOLEAN
  /\ epoch \in Epochs
  /\ queue \in Seq(Tickets) /\ results \in Seq(Tickets)
  /\ running \in Tickets \cup {Nothing}
  /\ waiting \in Tickets \cup {Nothing}
  /\ answer \in Replies \cup {Nothing}

RunningCount == IF running = Nothing THEN 0 ELSE 1

\* While the thread lives, the in_flight cell is true exactly when one job
\* exists somewhere between the job channel, the thread and the result
\* channel, and there is never a second one: nothing is queued behind a hang
\* (module doc, bounded_worker.rs:9-14).
SingleOutstanding ==
  Len(queue) + RunningCount + Len(results)
    = (IF inFlight /\ alive THEN 1 ELSE 0)

\* A successful answer is the value of the job that was asked for, never the
\* late result of an earlier one; AxWorkerPool relies on it with unreachable!.
RightAnswer ==
  answer # Nothing /\ answer.got \notin Errors => answer.got = answer.asked

\* The wedge report (wedged_since, shown by diagnostics) is raised only while
\* a job its owner gave up on has not been seen to return.
WedgeIsTrue == wedged => inFlight /\ waiting = Nothing

\* Once a job has panicked no closure is ever handed to the lost thread: the
\* owner is told, and no epoch is issued.
DeadStaysDead == [][~alive => UNCHANGED <<epoch, queue, inFlight>>]_workerVars

\* A wedge ends once the hung job returns: no restart of the daemon is needed.
\* A job that panics is the exception; it takes the thread with it.
Recovery == wedged ~> ~wedged \/ ~alive

-----------------------------------------------------------------------------
\* The worker implements SingleFlight: the outstanding job is wherever the
\* ticket is, and what the owner is blocked on is its ticket's job.
Outstanding ==
  CASE queue # <<>>      -> Head(queue).job
    [] running # Nothing -> running.job
    [] results # <<>>    -> Head(results).job
    [] OTHER             -> Nothing

Promise == INSTANCE SingleFlight WITH
             None <- Nothing,
             asked <- IF waiting = Nothing THEN Nothing ELSE waiting.job,
             outstanding <- Outstanding,
             broken <- ~alive

PromiseKept == Promise!Spec
=============================================================================
