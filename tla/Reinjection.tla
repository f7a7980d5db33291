---------------------------- MODULE Reinjection ----------------------------
(***************************************************************************)
(* Automatic reinjection of the scripting addition (SA) into the Dock:     *)
(* the decision machine Reinjector and the single-flight InjectionJob      *)
(* (rovr-platform/src/macos/reinject.rs), driven by one observation tick   *)
(* of the platform (macos/mod.rs, needs_refresh_inner, drive_reinjection). *)
(* A tick is several steps: the Dock restarts, the SA comes and goes and   *)
(* the background job finishes between any two of them.                    *)
(*                                                                         *)
(* Dock processes are numbered in the order they start; a pid is such a    *)
(* number.  A deadline is None, "pending" or "passed".                     *)
(***************************************************************************)
EXTENDS Naturals, FiniteSets

CONSTANTS
  BackoffLen,     \* the length of BACKOFF: 3 in the code
  MaxDock,        \* bound: Dock processes started in one behaviour
  None

ASSUME ReinjectionAssumption ==
  /\ BackoffLen \in Nat \ {0}
  /\ MaxDock \in Nat
  /\ None \notin Nat
  /\ None \notin {"pending", "passed"}
  /\ None \notin [gen : Nat, result : {"ok", "failed"}]

VARIABLES
  dock, started, sa,                     \* the Dock, and its SA answering
  pc, tickDock, request,                 \* the tick in progress
  lastDock, probeDue, saSeen,            \* the platform's cells
  phase, generation, pid, attempts,      \* Reinjector
  verify, retry,
  inflight, slot, jobs                   \* InjectionJob and its threads

world    == <<dock, started, sa>>
tick     == <<pc, tickDock, request>>
cells    == <<lastDock, probeDue, saSeen>>
deadline == <<verify, retry>>
machine  == <<phase, generation, pid, attempts, verify, retry>>
job      == <<inflight, slot, jobs>>
vars     == <<dock, started, sa, pc, tickDock, request, lastDock, probeDue,
              saSeen, phase, generation, pid, attempts, verify, retry,
              inflight, slot, jobs>>

Phases      == {"Healthy", "Injecting", "Verifying", "Failed"}
Timers      == {None, "pending", "passed"}
MaxAttempts == BackoffLen + 1

Init ==
  /\ dock \in {None, 1} /\ started = 1 /\ sa \in IF dock = None THEN {FALSE} ELSE BOOLEAN
  /\ pc = "read" /\ tickDock = None /\ request = "None"
  /\ lastDock = None /\ probeDue = TRUE /\ saSeen = None
  /\ phase = "Failed" /\ generation = 0 /\ pid = None /\ attempts = 0
  /\ verify = None /\ retry = None
  /\ inflight = FALSE /\ slot = None /\ jobs = {}

-----------------------------------------------------------------------------
\* The world: the Dock exits and launchd starts another, the SA stops
\* answering or is loaded by hand, deadlines pass.
DockExits ==
  /\ dock # None
  /\ dock' = None /\ sa' = FALSE
  /\ UNCHANGED <<started, tick, cells, machine, job>>

DockStarts ==
  /\ dock = None
  /\ started < MaxDock
  /\ started' = started + 1
  /\ dock' = started + 1
  /\ UNCHANGED <<sa, tick, cells, machine, job>>

SaChanges ==
  /\ dock # None
  /\ sa' = ~sa
  /\ UNCHANGED <<dock, started, tick, cells, machine, job>>

VerifyPasses ==
  /\ verify = "pending"
  /\ verify' = "passed"
  /\ UNCHANGED <<world, tick, cells, phase, generation, pid, attempts, retry,
                 job>>

RetryPasses ==
  /\ retry = "pending"
  /\ retry' = "passed"
  /\ UNCHANGED <<world, tick, cells, phase, generation, pid, attempts, verify,
                 job>>

\* SA_PROBE_MIN_INTERVAL has gone by since the last probe.
ProbeFallsDue ==
  /\ ~probeDue
  /\ probeDue' = TRUE
  /\ UNCHANGED <<world, tick, lastDock, saSeen, machine, job>>

-----------------------------------------------------------------------------
\* The tick, in the order of needs_refresh_inner and drive_reinjection.
\* Mutant of ReadDock: a new Dock does not make a probe due.
ReadDockStale ==
  /\ pc = "read"
  /\ tickDock' = dock
  /\ lastDock' = dock
  /\ pc' = "probe"
  /\ UNCHANGED <<world, request, probeDue, saSeen, machine, job>>

ReadDock ==
  /\ pc = "read"
  /\ tickDock' = dock
  /\ lastDock' = dock
  /\ probeDue' = IF dock # lastDock THEN TRUE ELSE probeDue
  /\ pc' = "probe"
  /\ UNCHANGED <<world, request, saSeen, machine, job>>

\* saSeen remembers which Dock answered; the code keeps only that one did.
Probe ==
  /\ pc = "probe"
  /\ saSeen' = IF ~probeDue THEN saSeen ELSE IF sa THEN dock ELSE None
  /\ probeDue' = FALSE
  /\ pc' = "collect"
  /\ UNCHANGED <<world, tickDock, request, lastDock, machine, job>>

\* injection_finished: a result is dropped unless the phase is Injecting.
InjectionFinished(result) ==
  /\ IF phase # "Injecting" THEN UNCHANGED <<phase, deadline>>
     ELSE IF result = "ok" THEN /\ phase' = "Verifying"
                                   /\ verify' = "pending"
                                   /\ UNCHANGED retry
     ELSE /\ phase' = "Failed"
          /\ retry' = "pending"
          /\ UNCHANGED verify
  /\ UNCHANGED <<generation, pid, attempts>>

Collect ==
  /\ pc = "collect"
  /\ pc' = "observe"
  /\ IF inflight \/ slot = None
     THEN UNCHANGED <<slot, probeDue, machine>>
     ELSE /\ slot' = None
          /\ InjectionFinished(slot.result)
          /\ probeDue' = TRUE
  /\ UNCHANGED <<world, tickDock, request, lastDock, saSeen, inflight, jobs>>

MaybeRequest(made) ==
  IF made <= BackoffLen THEN "RequestInjection" ELSE "None"

\* What a change of the Dock's pid invalidates before the phase is looked at.
Renewed(alive) ==
  IF tickDock = pid
  THEN [phase |-> phase, attempts |-> attempts, verify |-> verify,
        retry |-> retry]
  ELSE [phase |-> IF alive THEN "Healthy" ELSE "Failed", attempts |-> 0,
        verify |-> None, retry |-> None]

Become(ph, v, r, req) ==
  phase' = ph /\ verify' = v /\ retry' = r /\ request' = req

\* observe's match on the phase.
Decide(s, alive) ==
  CASE s.phase = "Healthy" ->
         IF alive THEN Become("Healthy", s.verify, s.retry, "None")
                  ELSE Become("Failed", None, s.retry, MaybeRequest(s.attempts))
    [] s.phase = "Injecting" ->
         Become("Injecting", s.verify, s.retry, "None")
    [] s.phase = "Verifying" ->
         IF alive THEN Become("Healthy", None, s.retry, "None")
         ELSE IF s.verify = "pending"
         THEN Become("Verifying", s.verify, s.retry, "None")
         ELSE Become("Failed", None, "pending", "None")
    [] s.phase = "Failed" ->
         IF alive THEN Become("Healthy", s.verify, s.retry, "None")
         ELSE Become("Failed", s.verify, s.retry,
                     IF s.retry = "pending" THEN "None"
                     ELSE MaybeRequest(s.attempts))

Observe ==
  /\ pc = "observe"
  /\ LET alive == saSeen # None
         s == Renewed(alive)
     IN  Decide(s, alive) /\ attempts' = s.attempts
  /\ generation' = IF tickDock = pid THEN generation ELSE generation + 1
  /\ pid' = tickDock
  /\ pc' = "spawn"
  /\ UNCHANGED <<world, tickDock, cells, job>>

\* is_inflight is read again, and InjectionJob::spawn swaps it.
Spawn ==
  /\ pc = "spawn"
  /\ IF request = "RequestInjection" /\ ~inflight
     THEN /\ inflight' = TRUE
          /\ jobs' = jobs \cup {[gen |-> generation, stage |-> "running"]}
          /\ pc' = "started"
     ELSE /\ pc' = "read"
          /\ UNCHANGED <<inflight, jobs>>
  /\ request' = "None"
  /\ UNCHANGED <<world, tickDock, cells, machine, slot>>

InjectionStarted ==
  /\ pc = "started"
  /\ attempts' = attempts + 1
  /\ phase' = "Injecting"
  /\ retry' = None
  /\ pc' = "read"
  /\ UNCHANGED <<world, tickDock, request, cells, generation, pid, verify, job>>

-----------------------------------------------------------------------------
\* The job thread: the helper injects into whatever Dock it finds, within its
\* 15 s timeout; then the result is stored; then the guard is released.
Inject(j) ==
  /\ j \in jobs /\ j.stage = "running"
  /\ \E end \in {"ok", "failed"}, loaded \in BOOLEAN :
       /\ end = "ok" \/ loaded => dock # None
       /\ jobs' = (jobs \ {j}) \cup {[j EXCEPT !.stage = end]}
       /\ sa' = IF loaded THEN TRUE ELSE sa
  /\ UNCHANGED <<dock, started, tick, cells, machine, inflight, slot>>

Store(j) ==
  /\ j \in jobs /\ j.stage \in {"ok", "failed"}
  /\ slot' = [gen |-> j.gen, result |-> j.stage]
  /\ jobs' = (jobs \ {j}) \cup {[j EXCEPT !.stage = "stored"]}
  /\ UNCHANGED <<world, tick, cells, machine, inflight>>

\* Mutants of Release: the guard goes before the result is stored; the guard
\* is never released.
ReleaseFirst(j) ==
  /\ j \in jobs /\ j.stage # "running"
  /\ inflight' = FALSE
  /\ jobs' = jobs \ {j}
  /\ UNCHANGED <<world, tick, cells, machine, slot>>
ReleaseNever(j) ==
  /\ j \in jobs /\ j.stage = "stored"
  /\ jobs' = jobs \ {j}
  /\ UNCHANGED <<world, tick, cells, machine, inflight, slot>>

Release(j) ==
  /\ j \in jobs /\ j.stage = "stored"
  /\ inflight' = FALSE
  /\ jobs' = jobs \ {j}
  /\ UNCHANGED <<world, tick, cells, machine, slot>>

World  == DockExits \/ DockStarts \/ SaChanges \/ VerifyPasses \/ RetryPasses
          \/ ProbeFallsDue
Tick   == ReadDock \/ Probe \/ Collect \/ Observe \/ Spawn \/ InjectionStarted
Job    == \E j \in jobs : Inject(j) \/ Store(j) \/ Release(j)
Next   == World \/ Tick \/ Job

Spec == Init /\ [][Next]_vars

(***************************************************************************)
(* Fairness.  The state loop ticks for ever, a clock passes every deadline *)
(* and the client's 15 s timeout ends every job.  Nothing obliges the Dock *)
(* or the SA.                                                              *)
(***************************************************************************)
FairSpec ==
  /\ Spec
  /\ WF_vars(Tick) /\ WF_vars(Job)
  /\ WF_vars(VerifyPasses) /\ WF_vars(RetryPasses) /\ WF_vars(ProbeFallsDue)

-----------------------------------------------------------------------------
Results == [gen : Nat, result : {"ok", "failed"}]
Threads == [gen : Nat, stage : {"running", "ok", "failed", "stored"}]

Flags == sa \in BOOLEAN /\ probeDue \in BOOLEAN /\ inflight \in BOOLEAN

TypeOK ==
  /\ Flags
  /\ started \in Nat /\ dock \in Nat \cup {None}
  /\ pc \in {"read", "probe", "collect", "observe", "spawn", "started"}
  /\ tickDock \in Nat \cup {None} /\ request \in {"None", "RequestInjection"}
  /\ lastDock \in Nat \cup {None} /\ saSeen \in Nat \cup {None}
  /\ phase \in Phases /\ generation \in Nat /\ pid \in Nat \cup {None}
  /\ attempts \in Nat /\ verify \in Timers /\ retry \in Timers
  /\ slot \in Results \cup {None}
  /\ jobs \in SUBSET Threads

\* A success recorded against an older Dock never marks the current one
\* healthy (reinject.rs:150-153): the handshake behind a Healthy verdict came
\* from the Dock whose pid the machine holds, or from a later one.
HealthyIsCurrent ==
  pc = "spawn" /\ phase = "Healthy" =>
    saSeen # None /\ (pid # None => saSeen >= pid)

\* The machine waits in Injecting only for its own request: the guard is held,
\* or the slot holds the result of this Dock generation.  So it can neither
\* wait for ever nor take a late result of an earlier generation.
ResultIsOwn ==
  phase = "Injecting" =>
    \/ inflight
    \/ slot # None /\ slot.gen = generation

\* One privileged request in flight at most, whichever Dock it was for.
OneRequest == Cardinality({j \in jobs : j.stage = "running"}) <= 1

\* At most BACKOFF.len() + 1 requests in one Dock generation, and the index
\* of schedule_backoff, attempts - 1, never underflows.
AttemptsBounded ==
  /\ attempts <= MaxAttempts
  /\ phase \in {"Injecting", "Verifying"} => attempts >= 1

\* Once the Dock stays, the lifecycle comes to rest: the SA is healthy for
\* good, or the attempts of this generation are used up.
Settles == <>[](phase = "Healthy" \/ attempts = MaxAttempts)
=============================================================================
