---------------------------- MODULE Observation ----------------------------
(***************************************************************************)
(* How the daemon sees macOS (rovr-platform/src/macos/mod.rs): the state   *)
(* loop asks one snapshot worker for a snapshot; its closure enumerates    *)
(* the windows and asks one worker per application for what only the       *)
(* accessibility API knows; mutations go to the same workers.  Every       *)
(* worker is a bounded worker, seen here as SingleFlight promises it: a    *)
(* job in flight, and a result that waits or is thrown away by the next    *)
(* submit.  An application may hang inside any call, for any time.         *)
(*                                                                         *)
(* Left out: the windows' text, frames and Spaces, the fullscreen flag,    *)
(* which goes the way of the minimized one, and verdicts of AX on windows  *)
(* it lists (dialogs), which are the same at every answer.                 *)
(***************************************************************************)
EXTENDS Naturals, FiniteSets

CONSTANTS
  Apps,        \* processes, the keys of the worker pool
  Windows,     \* windows and surfaces the window server lists
  Surfaces,    \* those that AX never lists: tab strips, tooltips
  Owner,       \* the process of each window
  Moved,       \* the processes whose windows the engine moves
  MaxChanges,  \* bound on what users and applications do
  MaxMoves,    \* bound on the mutations the loop issues
  None

ASSUME ObservationAssumption ==
  /\ Surfaces \subseteq Windows /\ Moved \subseteq Apps
  /\ Owner \in [Windows -> Apps]
  /\ MaxChanges \in Nat /\ MaxMoves \in Nat

VARIABLES
  present, away, mini,  \* the world: windows, those on hidden Spaces, minimized
  loop,       \* what the state loop is blocked on
  sw, snap,   \* the snapshot worker's cell, and its closure
  ax,         \* the pool: the owner's side of each application's worker
  thr,        \* the jobs inside each application, by the threads that run them
  known,      \* last_known_minimized
  applied, acked,       \* the last mutation that took effect, that was reported
  since,      \* history: what each window was since the snapshot was asked for
  moves, changes

world == <<present, away, mini, changes>>
pool  == <<ax, thr>>
hist  == <<applied, acked, moves>>
vars  == <<world, loop, sw, snap, pool, known, hist, since>>

Bools    == {"yes", "no"}
Observed == Bools \cup {"unknown"}

Idle    == [busy |-> FALSE, res |-> None]
Started == [busy |-> TRUE, res |-> None]

\* None is told from a worker that has just been given a job and from an answer.
Answers == [kind : {"move"}, ok : BOOLEAN]
ASSUME NoneAssumption == None # Started /\ None \notin Answers

\* Mutant of Restarted: the result of the job before is left in the channel.
RestartedUnreaped(cell) == IF cell = None THEN Started ELSE [cell EXCEPT !.busy = TRUE]
\* submit reaps what an abandoned job left and starts the next one.
Restarted(cell) == Started

\* submit goes through: no job is in flight, or it has ended and is reaped.
Accepts(cell) == cell.busy => cell.res # None

Nothing == [at |-> "none", cands |-> {}, wait |-> {}]
Resting == [at |-> "rest", app |-> None, n |-> 0]

Init ==
  /\ present = Windows /\ away = {} /\ mini = [w \in Windows |-> "no"]
  /\ loop = Resting
  /\ sw = Idle /\ snap = Nothing
  /\ ax = [p \in Apps |-> None] /\ thr = [p \in Apps |-> {}]
  /\ known = [w \in Windows |-> "unknown"]
  /\ applied = [p \in Apps |-> 0] /\ acked = [p \in Apps |-> 0]
  /\ since = [w \in Windows |-> {}]
  /\ moves = 0 /\ changes = 0

---------------------------------------------------------------------------
(* The user and the applications. *)

Change ==
  /\ changes < MaxChanges
  /\ changes' = changes + 1
  /\ UNCHANGED <<loop, sw, snap, pool, known, hist>>

\* The history only matters while the loop waits for a snapshot.
Note(w, what) ==
  since' = IF loop.at = "snapshot" THEN [since EXCEPT ![w] = @ \cup {what}] ELSE since

Minimize(w) ==
  /\ Change
  /\ w \in present \ Surfaces
  /\ mini' = [mini EXCEPT ![w] = IF @ = "yes" THEN "no" ELSE "yes"]
  /\ Note(w, mini'[w])
  /\ UNCHANGED <<present, away>>

OpenOrClose(w) ==
  /\ Change
  /\ present' = IF w \in present THEN present \ {w} ELSE present \cup {w}
  /\ Note(w, "hidden")
  /\ UNCHANGED <<away, mini>>

SwitchSpace(w) ==
  /\ Change
  /\ w \in present \ Surfaces
  /\ away' = IF w \in away THEN away \ {w} ELSE away \cup {w}
  /\ Note(w, "hidden")
  /\ UNCHANGED <<present, mini>>

---------------------------------------------------------------------------
(* The threads of the application workers. *)

Job(kind, n) == [kind |-> kind, n |-> n, did |-> None]

\* Put a job into an application's worker, creating the worker at need.
StartIn(p, job) ==
  /\ ax' = [ax EXCEPT ![p] = Restarted(@)]
  /\ thr' = [thr EXCEPT ![p] = @ \cup {job}]

\* kAXWindowsAttribute lists the windows of the visible Spaces, or nothing
\* for an application in the background, whose main window is then looked at.
Listed(p) == {w \in present \ (Surfaces \cup away) : Owner[w] = p}

\* rovr_bridge_refine_windows_for_pid: a list that names windows settles which
\* windows the application has; any attribute may fail to be read.
Readings(p) ==
  LET Read(S, auth) ==
        {[kind |-> "refine", auth |-> auth, mini |-> m] :
           m \in {f \in [S -> Observed] : \A w \in S : f[w] \in {mini[w], "unknown"}}}
      Main == {w \in present \ Surfaces : Owner[w] = p}
  IN  (IF Listed(p) # {} THEN Read(Listed(p), TRUE) ELSE {})
      \cup Read({}, FALSE)
      \cup UNION {Read({w}, FALSE) : w \in Main}

\* The call into the application is made: a reading, or a mutation's effect.
Reach(p, job) ==
  /\ job \in thr[p] /\ job.did = None
  /\ \/ /\ job.kind = "refine"
        /\ \E r \in Readings(p) :
             thr' = [thr EXCEPT ![p] = (@ \ {job}) \cup {[job EXCEPT !.did = r]}]
        /\ UNCHANGED applied
     \/ /\ job.kind = "move"
        /\ \E done \in BOOLEAN :
             /\ thr' = [thr EXCEPT ![p] = (@ \ {job}) \cup
                                   {[job EXCEPT !.did = [kind |-> "move", ok |-> done]]}]
             /\ applied' = IF done THEN [applied EXCEPT ![p] = job.n] ELSE applied
  /\ UNCHANGED <<world, loop, sw, snap, ax, known, acked, moves, since>>

\* The closure returns and its result is sent.
Return(p, job) ==
  /\ job \in thr[p] /\ job.did # None
  /\ thr' = [thr EXCEPT ![p] = @ \ {job}]
  /\ ax' = IF ax[p] = None THEN ax ELSE [ax EXCEPT ![p].res = job.did]
  /\ UNCHANGED <<world, loop, sw, snap, known, hist, since>>

---------------------------------------------------------------------------
(* The snapshot: asked for by the loop, made by the snapshot worker. *)

Observe ==
  /\ loop.at = "rest"
  /\ Accepts(sw)
  /\ sw' = Started
  /\ snap' = [Nothing EXCEPT !.at = "enumerate"]
  /\ loop' = [Resting EXCEPT !.at = "snapshot"]
  /\ since' = [w \in Windows |-> {mini[w]} \cup
                    IF w \in present \ away THEN {} ELSE {"hidden"}]
  /\ UNCHANGED <<world, pool, known, hist>>

\* Mutant of Retained: every worker whose process shows no window is dropped.
RetainedAlways(asked) == {p \in asked : ax[p] # None}
\* refine keeps the workers of the processes it asks and those with a job out.
Retained(asked) ==
  {p \in Apps : ax[p] # None /\ (p \in asked \/ ~Accepts(ax[p]))}

\* The processes whose worker takes the question.
Takers(asked) == {p \in asked : p \in Retained(asked) => Accepts(ax[p])}

\* Candidates are listed and, holding the pool's lock, every application with
\* a window on a Space is asked at once.
Enumerate ==
  /\ snap.at = "enumerate"
  /\ \E asked \in SUBSET {Owner[w] : w \in present} :
       LET took == Takers(asked)
       IN  /\ ax' = [p \in Apps |-> IF p \in took THEN Restarted(ax[p])
                                    ELSE IF p \in Retained(asked) THEN ax[p] ELSE None]
           /\ thr' = [p \in Apps |-> IF p \in took THEN thr[p] \cup {Job("refine", 0)}
                                     ELSE thr[p]]
           /\ snap' = [snap EXCEPT !.at = "wait", !.cands = present, !.wait = took]
  /\ UNCHANGED <<world, loop, sw, known, hist, since>>

\* What an application's worker sent; any other answer says nothing.
Reading(p) == IF ax[p].res.kind = "refine" THEN ax[p].res
              ELSE [auth |-> FALSE, mini |-> [w \in {} |-> "unknown"]]

\* Mutant of Demoted: an application that says nothing has no windows.
DemotedSilent(shot) == shot.wins \ shot.heard
\* demote_ax_absent_candidates: a candidate that its application's list omits.
\* Whatever else is unknown is settled by the window server, as a window.
Demoted(shot) == {w \in shot.wins \ (shot.heard \cup shot.silent) : Reading(Owner[w]).auth}

\* The snapshot when the applications in gone did not answer by the deadline.
Assembled(gone) ==
  LET Heard(w) == Owner[w] \in snap.wait \ gone
      Refined(w) == Heard(w) /\ w \in DOMAIN Reading(Owner[w]).mini
      shot == [wins   |-> snap.cands,
               heard  |-> {w \in snap.cands : Refined(w)},
               silent |-> {w \in snap.cands : ~Heard(w)},
               mini   |-> [w \in Windows |->
                             IF w \in snap.cands /\ Refined(w)
                             THEN Reading(Owner[w]).mini[w] ELSE "unknown"],
               no     |-> {}]
  IN  [shot EXCEPT !.no = Demoted(shot)]

\* What becomes of it: the displays and the Spaces are listed last, and when one
\* of the lists fails there is no snapshot at all.
SnapshotResults(gone) == {[kind |-> "shot", shot |-> Assembled(gone)], [kind |-> "error"]}

\* The closure takes the answers, each by the common deadline; a worker whose
\* job is not done by then stays busy with it.
Collect ==
  /\ snap.at = "wait"
  /\ \E gone \in SUBSET snap.wait :
       /\ \A p \in snap.wait \ gone : ax[p].res # None
       /\ ax' = [p \in Apps |-> IF p \in snap.wait \ gone THEN Idle ELSE ax[p]]
       /\ \E result \in SnapshotResults(gone) : sw' = [sw EXCEPT !.res = result]
  /\ snap' = Nothing
  /\ UNCHANGED <<world, loop, thr, known, hist, since>>

\* The windows cannot be listed: no snapshot at all.
FailSnapshot ==
  /\ snap.at = "enumerate"
  /\ sw' = [sw EXCEPT !.res = [kind |-> "error"]]
  /\ snap' = Nothing
  /\ UNCHANGED <<world, loop, pool, known, hist, since>>

\* cached_minimized, then retain: silence keeps the last known value, and the
\* values of windows that are gone are forgotten.
Merged(shot) ==
  [w \in Windows |-> IF w \notin shot.wins THEN "unknown"
                     ELSE IF shot.mini[w] = "unknown" THEN known[w] ELSE shot.mini[w]]

TakeSnapshot ==
  /\ loop.at = "snapshot"
  /\ sw.res # None
  /\ sw' = Idle
  /\ loop' = Resting
  /\ IF sw.res.kind = "error" THEN UNCHANGED known
     ELSE known' = Merged(sw.res.shot)
  /\ since' = [w \in Windows |-> {}]
  /\ UNCHANGED <<world, snap, pool, hist>>

\* The loop goes on without an observation; the closure stays on its worker.
SnapshotTimeout ==
  /\ loop.at = "snapshot"
  /\ sw.res = None
  /\ loop' = Resting
  /\ since' = [w \in Windows |-> {}]
  /\ UNCHANGED <<world, sw, snap, pool, known, hist>>

---------------------------------------------------------------------------
(* Mutations: execute, ensure_bridge_idle, execute_ax_mutation, mutate. *)

\* ensure_bridge_idle sends an empty closure through the snapshot worker.
Execute(p) ==
  /\ loop.at = "rest"
  /\ moves < MaxMoves
  /\ Accepts(sw)
  /\ sw' = Started
  /\ snap' = [Nothing EXCEPT !.at = "ping"]
  /\ loop' = [at |-> "ping", app |-> p, n |-> moves + 1]
  /\ moves' = moves + 1
  /\ UNCHANGED <<world, pool, known, applied, acked, since>>

Ping ==
  /\ snap.at = "ping"
  /\ sw' = [sw EXCEPT !.res = [kind |-> "pong"]]
  /\ snap' = Nothing
  /\ UNCHANGED <<world, loop, pool, known, hist, since>>

\* The bridge is idle: the mutation goes to the window's application, if the
\* window is still there and the application's worker is free.
PingAnswered ==
  /\ loop.at = "ping"
  /\ sw.res # None
  /\ sw' = Idle
  /\ LET p == loop.app
         can == (\E w \in present : Owner[w] = p) /\ (ax[p] # None => Accepts(ax[p]))
     IN  IF can THEN StartIn(p, Job("move", loop.n)) /\ loop' = [loop EXCEPT !.at = "move"]
         ELSE loop' = Resting /\ UNCHANGED pool
  /\ UNCHANGED <<world, snap, known, hist, since>>

PingTimeout ==
  /\ loop.at = "ping"
  /\ sw.res = None
  /\ loop' = Resting
  /\ UNCHANGED <<world, sw, snap, pool, known, hist, since>>

\* execute_ax_mutation reports success for a mutation's answer with status zero.
Succeeded(res) == res.kind = "move" /\ res.ok

MoveAnswered ==
  /\ loop.at = "move"
  /\ ax[loop.app].res # None
  /\ acked' = IF Succeeded(ax[loop.app].res)
             THEN [acked EXCEPT ![loop.app] = loop.n] ELSE acked
  /\ ax' = [ax EXCEPT ![loop.app] = Idle]
  /\ loop' = Resting
  /\ UNCHANGED <<world, sw, snap, thr, known, applied, moves, since>>

\* Reported as failed; it may still take effect.
MoveTimeout ==
  /\ loop.at = "move"
  /\ ax[loop.app].res = None
  /\ loop' = Resting
  /\ UNCHANGED <<world, sw, snap, pool, known, hist, since>>

---------------------------------------------------------------------------
Next ==
  \/ \E w \in Windows : Minimize(w) \/ OpenOrClose(w) \/ SwitchSpace(w)
  \/ \E p \in Apps : \E job \in thr[p] : Reach(p, job) \/ Return(p, job)
  \/ \E p \in Moved : Execute(p)
  \/ Observe \/ Enumerate \/ Collect \/ FailSnapshot
  \/ TakeSnapshot \/ SnapshotTimeout
  \/ Ping \/ PingAnswered \/ PingTimeout \/ MoveAnswered \/ MoveTimeout

Spec == Init /\ [][Next]_vars
---------------------------------------------------------------------------
\* The variables hold what the code's fields can hold (MacPlatform, AxWorkerPool).
TypeOK ==
  /\ present \in SUBSET Windows /\ away \in SUBSET Windows
  /\ mini \in [Windows -> Bools]
  /\ loop.at \in {"rest", "snapshot", "ping", "move"}
  /\ sw.busy \in BOOLEAN
  /\ sw.res # None => sw.res.kind \in {"shot", "error", "pong"}
  /\ snap.at \in {"none", "enumerate", "wait", "ping"} /\ snap.wait \subseteq Apps
  /\ \A p \in Apps : ax[p] # None => /\ ax[p].busy \in BOOLEAN
                                     /\ ax[p].res # None => ax[p].res.kind \in {"refine", "move"}
  /\ known \in [Windows -> Observed]
  /\ applied \in [Apps -> 0 .. MaxMoves] /\ acked \in [Apps -> 0 .. MaxMoves]

\* However long applications hang and however often they are asked, each has
\* one thread of the daemon's inside it, never two (retain and submit).
OneThreadPerApp == \A p \in Apps : Cardinality(thr[p]) <= 1

\* While the loop has a mutation on its way, no observation closure is at work
\* in the bridge, not even one the loop gave up on (ensure_bridge_idle).
NoOverlap == loop.at = "move" => snap.at = "none"

\* A success reported to the engine took effect in the application (mutate).
AckedIsApplied == \A p \in Apps : acked[p] <= applied[p]

\* Mutations of one application take effect in the order they were issued,
\* those that were reported as timed out included.
MovesInOrder == [][\A p \in Apps : applied'[p] >= applied[p]]_applied

\* The loop takes a snapshot for the engine.
Told == sw.res # None /\ sw.res.kind = "shot" /\ sw'.res = None /\ loop.at = "snapshot"

\* What the engine is told of a window its application answered for was so at
\* some moment since the loop asked, whatever late answers were on their way.
FreshWhenHeard ==
  [][Told => \A w \in sw.res.shot.heard :
       sw.res.shot.mini[w] = "unknown" \/ sw.res.shot.mini[w] \in since[w]]_sw

\* A window is only taken for a surface when its application answered; one
\* that stayed open in sight since the loop asked never is.
SilenceIsNotAbsence ==
  [][Told => /\ sw.res.shot.no \cap sw.res.shot.silent = {}
             /\ \A w \in sw.res.shot.no : w \in Surfaces \/ "hidden" \in since[w]]_sw

\* "Telling us that candidate is a surface, not a window": what is demoted is
\* never a window, also when its Space is not in sight.
OnlySurfacesDemoted == [][Told => sw.res.shot.no \subseteq Surfaces]_sw
=============================================================================
