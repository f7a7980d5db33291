------------------------- MODULE ObservationProofs -------------------------
(***************************************************************************)
(* Theorems about Observation, for any applications, windows and bounds.   *)
(* They all rest on one invariant, Orderly: a worker that has a job inside *)
(* its application has just that one, the loop's last mutation carries the *)
(* largest number given out, and while the loop waits for it nobody else   *)
(* talks to that application.                                              *)
(***************************************************************************)
EXTENDS Observation, FiniteSetTheorems, TLAPS

Numbers ==
  /\ moves \in Nat
  /\ applied \in [Apps -> Nat] /\ acked \in [Apps -> Nat]
  /\ DOMAIN ax = Apps /\ DOMAIN thr = Apps
  /\ loop.at \in {"ping", "move"} => loop.app \in Apps /\ loop.n = moves
  /\ \A p \in Apps : applied[p] <= moves

\* The snapshot worker has a closure at work while its job is out.
Bridge ==
  /\ snap.at # "none" => sw = Started
  /\ NoOverlap

IsJob(p, job) ==
  /\ job = [kind |-> job.kind, n |-> job.n, did |-> job.did]
  /\ job.kind = "move" =>
       /\ job.n \in Nat /\ applied[p] <= job.n /\ job.n <= moves
       /\ job.did \in Answers \cup {None}
       /\ (job.did \in Answers /\ job.did.ok) => applied[p] = job.n

Alone(p) ==
  thr[p] # {} => ax[p] = Started /\ \E job : thr[p] = {job} /\ IsJob(p, job)

\* What the loop waits for is in the application, or came back from it.
Expected(p) ==
  /\ \A job \in thr[p] : job.kind = "move" /\ job.n = loop.n
  /\ thr[p] = {} => \/ ax[p].res = None
                    \/ ax[p].res \in Answers /\ (ax[p].res.ok => loop.n <= applied[p])

Orderly ==
  /\ Numbers /\ Bridge
  /\ \A p \in Apps : Alone(p)
  /\ loop.at = "move" => Expected(loop.app)
  /\ AckedIsApplied

Quiet == UNCHANGED <<ax, thr, applied, acked, moves>>

LEMMA OrderlyInit == Init => Orderly
  BY DEF Init, Orderly, Numbers, Bridge, NoOverlap, Alone, AckedIsApplied, Nothing, Resting

\* A worker that takes a job has none inside its application.
LEMMA Free ==
  ASSUME NEW p \in Apps, Alone(p), ax[p] = None \/ Accepts(ax[p])
  PROVE  thr[p] = {}
  BY NoneAssumption DEF Alone, Accepts, Started

-----------------------------------------------------------------------------
\* Steps that touch neither the workers nor the mutations.
LEMMA QuietStep ==
  ASSUME Orderly, Quiet, loop' = loop \/ loop'.at \in {"rest", "snapshot"}, Bridge'
  PROVE  Orderly'
<1>1. Numbers'
  BY DEF Orderly, Quiet, Numbers
<1>2. \A p \in Apps : Alone(p)'
  BY DEF Orderly, Quiet, Alone, IsJob
<1>3. (loop.at = "move" => Expected(loop.app))'
  BY DEF Orderly, Quiet, Expected
<1>4. AckedIsApplied'
  BY DEF Orderly, Quiet, AckedIsApplied
<1> QED BY <1>1, <1>2, <1>3, <1>4 DEF Orderly

LEMMA ReachStep ==
  ASSUME Orderly, NEW p \in Apps, NEW job \in thr[p], Reach(p, job)
  PROVE  Orderly' /\ \A q \in Apps : applied'[q] >= applied[q]
<1>1. /\ thr[p] = {job} /\ ax[p] = Started /\ IsJob(p, job) /\ job.did = None
      /\ UNCHANGED <<ax, loop, sw, snap, acked, moves>>
  BY DEF Reach, Orderly, Alone, world
<1>2. Bridge'
  BY <1>1 DEF Orderly, Bridge, NoOverlap
<1>3. PICK r : /\ thr' = [thr EXCEPT ![p] = {[job EXCEPT !.did = r]}]
               /\ \/ job.kind = "refine" /\ UNCHANGED applied
                  \/ /\ job.kind = "move" /\ r \in Answers
                     /\ applied' = IF r.ok THEN [applied EXCEPT ![p] = job.n] ELSE applied
  <2>1. CASE job.kind = "refine"
    <3>1. PICK r \in Readings(p) :
            thr' = [thr EXCEPT ![p] = (@ \ {job}) \cup {[job EXCEPT !.did = r]}]
      BY <2>1 DEF Reach
    <3>2. thr' = [thr EXCEPT ![p] = {[job EXCEPT !.did = r]}] /\ UNCHANGED applied
      BY <1>1, <2>1, <3>1 DEF Reach
    <3> QED BY <2>1, <3>2
  <2>2. CASE job.kind = "move"
    <3>1. PICK done \in BOOLEAN :
            /\ thr' = [thr EXCEPT ![p] = (@ \ {job}) \cup
                         {[job EXCEPT !.did = [kind |-> "move", ok |-> done]]}]
            /\ applied' = IF done THEN [applied EXCEPT ![p] = job.n] ELSE applied
      BY <2>2 DEF Reach
    <3> DEFINE r == [kind |-> "move", ok |-> done]
    <3>2. thr' = [thr EXCEPT ![p] = {[job EXCEPT !.did = r]}]
      BY <1>1, <3>1
    <3>3. r \in Answers /\ r.ok = done
      BY DEF Answers
    <3>4. applied' = IF r.ok THEN [applied EXCEPT ![p] = job.n] ELSE applied
      BY <3>1, <3>3, Zenon
    <3> HIDE DEF r
    <3> QED BY <2>2, <3>2, <3>3, <3>4
  <2> QED BY <2>1, <2>2 DEF Reach
<1>4. applied' \in [Apps -> Nat] /\ \A q \in Apps :
        applied'[q] >= applied[q] /\ applied'[q] <= moves
  BY <1>1, <1>3 DEF Orderly, Numbers, IsJob
<1>5. Numbers'
  BY <1>1, <1>3, <1>4 DEF Orderly, Numbers
<1>6. ASSUME NEW q \in Apps PROVE Alone(q)'
  <2>1. CASE q = p
    <3> DEFINE new == [job EXCEPT !.did = r]
    <3>1. thr'[q] = {new}
      BY <1>3, <2>1 DEF Orderly, Numbers
    <3>2. new.kind = job.kind /\ new.n = job.n /\ new.did = r
          /\ new = [kind |-> new.kind, n |-> new.n, did |-> new.did]
      BY <1>1 DEF IsJob
    <3>3. applied'[p] = IF job.kind = "move" /\ r.ok THEN job.n ELSE applied[p]
      BY <1>3 DEF Orderly, Numbers
    <3>4. IsJob(q, new)'
      BY <1>1, <1>3, <2>1, <3>2, <3>3 DEF IsJob, Orderly, Numbers
    <3> QED BY <1>1, <2>1, <3>1, <3>4 DEF Alone
  <2>2. CASE q # p
    <3>1. thr'[q] = thr[q] /\ ax'[q] = ax[q] /\ applied'[q] = applied[q] /\ moves' = moves
      BY <1>1, <1>3, <2>2 DEF Orderly, Numbers
    <3> QED BY <3>1 DEF Orderly, Alone, IsJob
  <2> QED BY <2>1, <2>2
<1>7. (loop.at = "move" => Expected(loop.app))'
  <2> SUFFICES ASSUME loop.at = "move" PROVE Expected(loop.app)'
    BY <1>1
  <2>1. loop.app \in Apps /\ Expected(loop.app) /\ loop' = loop
    BY <1>1 DEF Orderly, Numbers
  <2>2. CASE loop.app = p
    BY <1>1, <1>3, <2>1, <2>2 DEF Expected, Orderly, Numbers, IsJob
  <2>3. CASE loop.app # p
    <3>1. thr'[loop.app] = thr[loop.app] /\ applied'[loop.app] = applied[loop.app]
      BY <1>1, <1>3, <2>1, <2>3 DEF Orderly, Numbers
    <3> QED BY <1>1, <2>1, <3>1 DEF Expected
  <2> QED BY <2>2, <2>3
<1>8. AckedIsApplied'
  BY <1>1, <1>4 DEF Orderly, AckedIsApplied, Numbers
<1> QED BY <1>2, <1>4, <1>5, <1>6, <1>7, <1>8 DEF Orderly

LEMMA ReturnStep ==
  ASSUME Orderly, NEW p \in Apps, NEW job \in thr[p], Return(p, job)
  PROVE  Orderly'
<1>1. /\ thr[p] = {job} /\ ax[p] = Started /\ IsJob(p, job) /\ job.did # None
      /\ UNCHANGED <<loop, sw, snap, applied, acked, moves>>
  BY DEF Return, Orderly, Alone, hist
<1>2. thr' = [thr EXCEPT ![p] = {}] /\ ax' = [ax EXCEPT ![p].res = job.did]
  BY <1>1, NoneAssumption DEF Return
<1>3. Numbers' /\ Bridge' /\ AckedIsApplied'
  BY <1>1, <1>2 DEF Orderly, Numbers, Bridge, NoOverlap, AckedIsApplied
<1>4. ASSUME NEW q \in Apps PROVE Alone(q)'
  BY <1>1, <1>2 DEF Orderly, Numbers, Alone, IsJob
<1>5. (loop.at = "move" => Expected(loop.app))'
  <2> SUFFICES ASSUME loop.at = "move" PROVE Expected(loop.app)'
    BY <1>1
  <2>1. loop.app \in Apps /\ Expected(loop.app)
    BY DEF Orderly, Numbers
  <2>2. CASE loop.app = p
    <3>1. ax'[p].res = job.did /\ thr'[p] = {}
      BY <1>1, <1>2 DEF Orderly, Numbers, Started
    <3>2. job.kind = "move" /\ job.n = loop.n
      BY <1>1, <2>1, <2>2 DEF Expected
    <3>3. job.did \in Answers /\ (job.did.ok => applied[p] = job.n) /\ job.n \in Nat
      BY <1>1, <3>2 DEF IsJob
    <3> QED BY <1>1, <2>2, <3>1, <3>2, <3>3 DEF Expected
  <2>3. CASE loop.app # p
    BY <1>1, <1>2, <2>1, <2>3 DEF Expected, Orderly, Numbers
  <2> QED BY <2>2, <2>3
<1> QED BY <1>3, <1>4, <1>5 DEF Orderly

LEMMA EnumerateStep == ASSUME Orderly, Enumerate PROVE Orderly'
<1>1. /\ snap.at = "enumerate" /\ snap'.at = "wait"
      /\ UNCHANGED <<loop, sw, applied, acked, moves>>
  BY DEF Enumerate, Orderly, Bridge, hist, Started
<1>2. loop.at # "move" /\ Bridge'
  BY <1>1 DEF Orderly, Bridge, NoOverlap
<1>3. PICK asked \in SUBSET {Owner[w] : w \in present} :
        /\ ax' = [p \in Apps |-> IF p \in Takers(asked) THEN Restarted(ax[p])
                                 ELSE IF p \in Retained(asked) THEN ax[p] ELSE None]
        /\ thr' = [p \in Apps |-> IF p \in Takers(asked) THEN thr[p] \cup {Job("refine", 0)}
                                  ELSE thr[p]]
  BY DEF Enumerate
<1>4. ASSUME NEW p \in Apps PROVE Alone(p)'
  <2>1. Alone(p)
    BY DEF Orderly
  <2>2. CASE p \in Takers(asked)
    <3>1. ax[p] = None \/ Accepts(ax[p])
      BY <2>2 DEF Takers, Retained
    <3>2. thr'[p] = {Job("refine", 0)} /\ ax'[p] = Started
      BY <1>3, <2>1, <2>2, <3>1, Free DEF Restarted
    <3>3. IsJob(p, Job("refine", 0))'
      BY DEF IsJob, Job
    <3> QED BY <3>2, <3>3 DEF Alone
  <2>3. CASE p \notin Takers(asked) /\ p \in Retained(asked)
    BY <1>1, <1>3, <2>1, <2>3 DEF Alone, IsJob
  <2>4. CASE p \notin Takers(asked) /\ p \notin Retained(asked)
    <3>1. ax[p] = None \/ Accepts(ax[p])
      BY <2>4 DEF Retained
    <3>2. thr'[p] = {}
      BY <1>3, <2>1, <2>4, <3>1, Free
    <3> QED BY <3>2 DEF Alone
  <2> QED BY <2>2, <2>3, <2>4
<1>5. Numbers' /\ AckedIsApplied'
  BY <1>1, <1>3 DEF Orderly, Numbers, AckedIsApplied
<1> QED BY <1>1, <1>2, <1>4, <1>5 DEF Orderly

LEMMA CollectStep == ASSUME Orderly, Collect PROVE Orderly'
<1>1. /\ snap.at = "wait" /\ snap'.at = "none"
      /\ UNCHANGED <<loop, thr, applied, acked, moves>>
  BY DEF Collect, hist, Nothing
<1>2. loop.at # "move" /\ Bridge'
  BY <1>1 DEF Orderly, Bridge, NoOverlap
<1>3. PICK done \in SUBSET Apps :
        /\ \A p \in done : p \in Apps => ax[p].res # None
        /\ ax' = [p \in Apps |-> IF p \in done THEN Idle ELSE ax[p]]
  <2>1. PICK gone \in SUBSET snap.wait :
          /\ \A p \in snap.wait \ gone : ax[p].res # None
          /\ ax' = [p \in Apps |-> IF p \in snap.wait \ gone THEN Idle ELSE ax[p]]
    BY DEF Collect
  <2> WITNESS (snap.wait \ gone) \cap Apps \in SUBSET Apps
  <2> QED BY <2>1
<1>4. ASSUME NEW p \in Apps PROVE Alone(p)'
  <2>1. p \in done => thr[p] = {}
    BY <1>3 DEF Orderly, Alone, Started
  <2> QED BY <1>1, <1>3, <2>1 DEF Orderly, Alone, IsJob
<1>5. Numbers' /\ AckedIsApplied'
  BY <1>1, <1>3 DEF Orderly, Numbers, AckedIsApplied
<1> QED BY <1>1, <1>2, <1>4, <1>5 DEF Orderly

LEMMA PingAnsweredStep == ASSUME Orderly, PingAnswered PROVE Orderly'
<1>1. /\ loop.at = "ping" /\ loop.app \in Apps /\ loop.n = moves
      /\ UNCHANGED <<snap, applied, acked, moves>>
  BY DEF PingAnswered, hist, Orderly, Numbers
<1>2. snap.at = "none" /\ Bridge'
  BY <1>1 DEF PingAnswered, Orderly, Bridge, NoOverlap, Started
<1> DEFINE p == loop.app
<1> PICK job : job = Job("move", loop.n)
  OBVIOUS
<1>3. CASE loop' = Resting /\ UNCHANGED pool
  <2>1. Quiet
    BY <1>1, <1>3 DEF Quiet, pool
  <2> QED BY <1>2, <1>3, <2>1, QuietStep DEF Resting
<1>4. CASE /\ ax[p] # None => Accepts(ax[p])
           /\ StartIn(p, job) /\ loop' = [loop EXCEPT !.at = "move"]
  <2>1. thr[p] = {}
    BY <1>1, <1>4, Free DEF Orderly
  <2>2. ax' = [ax EXCEPT ![p] = Started] /\ thr' = [thr EXCEPT ![p] = {job}]
    BY <1>4, <2>1 DEF StartIn, Restarted
  <2>3. /\ job.kind = "move" /\ job.n = loop.n /\ job.did = None
        /\ job = [kind |-> job.kind, n |-> job.n, did |-> job.did]
    BY DEF Job
  <2>4. loop'.n = loop.n /\ loop'.app = p
    BY <1>4
  <2>5. Numbers' /\ AckedIsApplied'
    BY <1>1, <2>2, <2>4 DEF Orderly, Numbers, AckedIsApplied
  <2>6. ASSUME NEW q \in Apps PROVE Alone(q)'
    <3>1. CASE q = p
      <4>1. thr'[q] = {job} /\ ax'[q] = Started
        BY <2>2, <3>1 DEF Orderly, Numbers
      <4>2. IsJob(q, job)'
        BY <1>1, <2>3, <3>1, NoneAssumption DEF IsJob, Orderly, Numbers
      <4> QED BY <4>1, <4>2 DEF Alone
    <3>2. CASE q # p
      BY <1>1, <2>2, <3>2 DEF Orderly, Numbers, Alone, IsJob
    <3> QED BY <3>1, <3>2
  <2>7. Expected(loop.app)'
    <3>1. thr'[p] = {job}
      BY <1>1, <2>2 DEF Orderly, Numbers
    <3> QED BY <2>3, <2>4, <3>1 DEF Expected
  <2> QED BY <1>2, <2>5, <2>6, <2>7 DEF Orderly
<1> QED BY <1>3, <1>4 DEF PingAnswered

LEMMA MoveAnsweredStep == ASSUME Orderly, MoveAnswered PROVE Orderly'
<1> DEFINE p == loop.app
           r == ax[p].res
<1>1. /\ loop.at = "move" /\ p \in Apps /\ r # None /\ Expected(p) /\ loop.n = moves
      /\ ax' = [ax EXCEPT ![p] = Idle] /\ loop' = Resting
      /\ UNCHANGED <<sw, snap, thr, applied, moves>>
  BY DEF MoveAnswered, Orderly, Numbers
<1>2. thr[p] = {}
  BY <1>1 DEF Orderly, Alone, Started
<1>3. r \in Answers /\ (r.ok => loop.n <= applied[p])
  BY <1>1, <1>2 DEF Expected
<1>4. acked' = IF r.ok THEN [acked EXCEPT ![p] = loop.n] ELSE acked
  BY <1>3 DEF MoveAnswered, Succeeded, Answers
<1> HIDE DEF r
<1>5. Numbers' /\ AckedIsApplied'
  BY <1>1, <1>3, <1>4 DEF Orderly, Numbers, AckedIsApplied, Resting
<1>6. Bridge' /\ loop'.at # "move"
  BY <1>1 DEF Orderly, Bridge, NoOverlap, Resting
<1>7. ASSUME NEW q \in Apps PROVE Alone(q)'
  BY <1>1, <1>2 DEF Orderly, Numbers, Alone, IsJob
<1> QED BY <1>5, <1>6, <1>7 DEF Orderly

LEMMA ExecuteStep == ASSUME Orderly, NEW p \in Moved, Execute(p) PROVE Orderly'
<1>1. /\ moves' = moves + 1 /\ loop' = [at |-> "ping", app |-> p, n |-> moves + 1]
      /\ sw' = Started /\ UNCHANGED <<ax, thr, applied, acked>> /\ p \in Apps
  BY ObservationAssumption DEF Execute, pool
<1>2. Numbers' /\ Bridge' /\ AckedIsApplied'
  BY <1>1 DEF Orderly, Numbers, Bridge, NoOverlap, AckedIsApplied
<1>3. ASSUME NEW q \in Apps PROVE Alone(q)'
  BY <1>1 DEF Orderly, Numbers, Alone, IsJob
<1> QED BY <1>1, <1>2, <1>3 DEF Orderly

LEMMA OrderlyNext == ASSUME Orderly, [Next]_vars PROVE Orderly'
<1> USE DEF Quiet, pool, hist
<1>1. ASSUME NEW w \in Windows, Minimize(w) \/ OpenOrClose(w) \/ SwitchSpace(w)
      PROVE  Orderly'
  <2>1. Quiet /\ UNCHANGED <<loop, sw, snap>>
    BY <1>1 DEF Minimize, OpenOrClose, SwitchSpace, Change
  <2>2. Bridge'
    BY <2>1 DEF Orderly, Bridge, NoOverlap
  <2> QED BY <2>1, <2>2, QuietStep
<1>2. CASE Observe \/ Ping \/ FailSnapshot
  <2>1. Quiet /\ (loop' = loop \/ loop'.at = "snapshot")
    BY <1>2 DEF Observe, Ping, FailSnapshot, Resting
  <2>2. Bridge'
    BY <1>2 DEF Observe, Ping, FailSnapshot, Orderly, Bridge, NoOverlap, Nothing, Resting
  <2> QED BY <2>1, <2>2, QuietStep
<1>3. CASE TakeSnapshot
  <2>1. Quiet /\ loop'.at = "rest" /\ snap' = snap
    BY <1>3 DEF TakeSnapshot, Resting
  <2>2. snap.at = "none"
    BY <1>3 DEF TakeSnapshot, Orderly, Bridge, Started
  <2> QED BY <2>1, <2>2, QuietStep DEF Bridge, NoOverlap
<1>4. CASE SnapshotTimeout \/ PingTimeout \/ MoveTimeout
  <2>1. Quiet /\ loop'.at = "rest" /\ UNCHANGED <<sw, snap>>
    BY <1>4 DEF SnapshotTimeout, PingTimeout, MoveTimeout, Resting
  <2> QED BY <2>1, QuietStep DEF Orderly, Bridge, NoOverlap
<1>5. CASE UNCHANGED vars
  <2>1. Quiet /\ UNCHANGED <<loop, sw, snap>>
    BY <1>5 DEF vars
  <2> QED BY <2>1, QuietStep DEF Orderly, Bridge, NoOverlap
<1> QED
  BY <1>1, <1>2, <1>3, <1>4, <1>5, ReachStep, ReturnStep, EnumerateStep, CollectStep,
     PingAnsweredStep, MoveAnsweredStep, ExecuteStep DEF Next

-----------------------------------------------------------------------------
\* However long applications hang and however often they are asked, each has
\* at most one thread of the daemon inside it (AxWorkerPool::retain, submit).
THEOREM OneThreadHolds == Spec => []OneThreadPerApp
<1>1. Orderly => OneThreadPerApp
  <2> SUFFICES ASSUME Orderly, NEW p \in Apps PROVE Cardinality(thr[p]) <= 1
    BY DEF OneThreadPerApp
  <2>1. CASE thr[p] = {}
    BY <2>1, FS_EmptySet
  <2>2. CASE thr[p] # {}
    <3>1. PICK job : thr[p] = {job}
      BY <2>2 DEF Orderly, Alone
    <3>2. Cardinality(thr[p]) = 1
      BY <3>1, FS_Singleton
    <3> QED BY <3>2
  <2> QED BY <2>1, <2>2
<1> QED BY <1>1, OrderlyInit, OrderlyNext, PTL DEF Spec

\* No observation closure is at work in the bridge while a mutation of the
\* loop is on its way (ensure_bridge_idle).
THEOREM NoOverlapHolds == Spec => []NoOverlap
<1>1. Orderly => NoOverlap
  BY DEF Orderly, Bridge
<1> QED BY <1>1, OrderlyInit, OrderlyNext, PTL DEF Spec

\* A mutation is reported to the engine as done only when it was (mutate): late
\* answers, of mutations or of questions, are never taken for this one's.
THEOREM AckedIsAppliedHolds == Spec => []AckedIsApplied
<1>1. Orderly => AckedIsApplied
  BY DEF Orderly
<1> QED BY <1>1, OrderlyInit, OrderlyNext, PTL DEF Spec

\* An application's mutations take effect in the order they were issued, those
\* that were reported as timed out included (execute_ax_mutation).
THEOREM MovesInOrderHolds == Spec => MovesInOrder
<1> DEFINE Later == \A p \in Apps : applied'[p] >= applied[p]
<1>1. Orderly /\ [Next]_vars => Later
  <2> SUFFICES ASSUME Orderly, [Next]_vars PROVE Later
    OBVIOUS
  <2>1. CASE UNCHANGED applied
    BY <2>1 DEF Orderly, Numbers
  <2>2. CASE \E p \in Apps : \E job \in thr[p] : Reach(p, job)
    BY <2>2, ReachStep
  <2>3. UNCHANGED applied \/ \E p \in Apps : \E job \in thr[p] : Reach(p, job)
    BY DEF Next, vars, hist, Minimize, OpenOrClose, SwitchSpace, Change, Return, Execute,
      Observe, Enumerate, Collect, FailSnapshot, TakeSnapshot, SnapshotTimeout, Ping,
      PingAnswered, PingTimeout, MoveAnswered, MoveTimeout
  <2> QED BY <2>1, <2>2, <2>3
<1> HIDE DEF Later
<1>2. Spec => [][Later]_applied
  BY <1>1, OrderlyInit, OrderlyNext, PTL DEF Spec
<1> QED BY <1>2 DEF MovesInOrder, Later
-----------------------------------------------------------------------------
(* What the loop is told is of its time: while it waits for a snapshot, the *)
(* history holds all that each window was since, and every answer on its    *)
(* way to this snapshot, or in it, agrees with the history.                 *)

Held(w, what) == what = "unknown" \/ what \in since[w]
Out(w) == w \in Surfaces \/ "hidden" \in since[w]

Named == loop = [at |-> loop.at, app |-> loop.app, n |-> loop.n]

Worlds ==
  /\ present \subseteq Windows /\ DOMAIN mini = Windows /\ DOMAIN since = Windows
  /\ snap \in [at : {"none", "enumerate", "wait", "ping"},
               cands : SUBSET Windows, wait : SUBSET Apps]
  /\ Named

Witnessed ==
  loop.at = "snapshot" => \A w \in Windows :
    mini[w] \in since[w] /\ (w \in present \ away \/ "hidden" \in since[w])

FreshAnswer(p, r) ==
  r.kind = "refine" =>
    /\ \A w \in DOMAIN r.mini : w \in Windows /\ Held(w, r.mini[w])
    /\ r.auth => \A w \in Windows \ DOMAIN r.mini : Owner[w] = p => Out(w)

FreshShot(shot) ==
  /\ \A w \in shot.heard : w \in Windows /\ Held(w, shot.mini[w])
  /\ shot.no \cap shot.silent = {}
  /\ \A w \in shot.no : w \in Windows /\ Out(w)

FreshFrom(p) ==
  /\ ax[p].res # None => FreshAnswer(p, ax[p].res)
  /\ \A job \in thr[p] : job.did # None => FreshAnswer(p, job.did)

Waiting == loop.at = "snapshot" /\ snap.at = "wait" => \A p \in snap.wait : FreshFrom(p)

Made == loop.at = "snapshot" /\ sw.res # None /\ sw.res.kind = "shot" => FreshShot(sw.res.shot)

Timely == Orderly /\ Worlds /\ Witnessed /\ Waiting /\ Made

LEMMA TimelyInit == Init => Timely
  BY OrderlyInit DEF Init, Timely, Worlds, Named, Witnessed, Waiting, Made, Nothing, Resting

\* Nothing is forgotten while the loop waits.
LEMMA Grown ==
  ASSUME \A w \in Windows : since[w] \subseteq since'[w]
  PROVE  /\ \A p, r : FreshAnswer(p, r) => FreshAnswer(p, r)'
         /\ \A shot : FreshShot(shot) => FreshShot(shot)'
<1>1. \A w \in Windows : \A what : Held(w, what) => Held(w, what)'
  BY DEF Held
<1>2. \A w \in Windows : Out(w) => Out(w)'
  BY DEF Out
<1> QED BY <1>1, <1>2 DEF FreshAnswer, FreshShot

\* What users and applications do meanwhile is noted.
LEMMA WorldTimely ==
  ASSUME Timely, Orderly', NEW w \in Windows, Minimize(w) \/ OpenOrClose(w) \/ SwitchSpace(w)
  PROVE  Timely'
<1>1. UNCHANGED <<loop, sw, snap, ax, thr>>
  BY DEF Minimize, OpenOrClose, SwitchSpace, Change, pool
<1>2. PICK what :
        /\ since' = IF loop.at = "snapshot" THEN [since EXCEPT ![w] = @ \cup {what}] ELSE since
        /\ \/ /\ what = mini'[w] /\ DOMAIN mini' = Windows
              /\ \A v \in Windows : v # w => mini'[v] = mini[v]
              /\ UNCHANGED <<present, away>>
           \/ /\ what = "hidden" /\ UNCHANGED mini
              /\ \A v \in Windows : v # w => (v \in present' \ away' <=> v \in present \ away)
        /\ present' \subseteq Windows
  <2>1. CASE Minimize(w)
    <3>1. since' = IF loop.at = "snapshot" THEN [since EXCEPT ![w] = @ \cup {mini'[w]}] ELSE since
      BY <2>1 DEF Minimize, Note
    <3>2. /\ DOMAIN mini' = Windows /\ UNCHANGED <<present, away>>
          /\ \A v \in Windows : v # w => mini'[v] = mini[v]
      BY <2>1 DEF Minimize, Timely, Worlds
    <3> QED BY <3>1, <3>2 DEF Timely, Worlds, Named
  <2>2. CASE OpenOrClose(w) \/ SwitchSpace(w)
    <3>1. since' = IF loop.at = "snapshot" THEN [since EXCEPT ![w] = @ \cup {"hidden"}] ELSE since
      BY <2>2 DEF OpenOrClose, SwitchSpace, Note
    <3>2. /\ present' \subseteq Windows /\ UNCHANGED mini
          /\ \A v \in Windows : v # w => (v \in present' \ away' <=> v \in present \ away)
      BY <2>2 DEF OpenOrClose, SwitchSpace, Timely, Worlds
    <3> QED BY <3>1, <3>2
  <2> QED BY <2>1, <2>2
<1>3. \A v \in Windows : since[v] \subseteq since'[v]
  BY <1>2 DEF Timely, Worlds, Named
<1>4. Worlds'
  BY <1>1, <1>2 DEF Timely, Worlds, Named
<1>5. Witnessed'
  <2> SUFFICES ASSUME loop.at = "snapshot", NEW v \in Windows
               PROVE  mini'[v] \in since'[v] /\ (v \in present' \ away' \/ "hidden" \in since'[v])
    BY <1>1 DEF Witnessed
  <2>1. mini[v] \in since[v] /\ (v \in present \ away \/ "hidden" \in since[v])
    BY DEF Timely, Witnessed
  <2>2. CASE v = w
    <3>1. since'[w] = since[w] \cup {what}
      BY <1>2 DEF Timely, Worlds, Named
    <3> QED BY <1>2, <2>1, <2>2, <3>1
  <2>3. CASE v # w
    BY <1>2, <1>3, <2>1, <2>3
  <2> QED BY <2>2, <2>3
<1>6. Waiting'
  BY <1>1, <1>3, Grown DEF Timely, Waiting, FreshFrom
<1>7. Made'
  BY <1>1, <1>3, Grown DEF Timely, Made
<1> QED BY <1>4, <1>5, <1>6, <1>7 DEF Timely

\* A reading is of its moment, and that is one since the loop asked.
LEMMA ReadingFresh ==
  ASSUME Worlds, Witnessed, loop.at = "snapshot", NEW p \in Apps, NEW r \in Readings(p)
  PROVE  FreshAnswer(p, r)
<1>1. PICK S \in SUBSET Windows, auth \in BOOLEAN :
        /\ auth => S = Listed(p)
        /\ r.kind = "refine" /\ r.auth = auth
        /\ r.mini \in [S -> Observed] /\ \A w \in S : r.mini[w] \in {mini[w], "unknown"}
  <2> DEFINE Read(S, auth) ==
        {[kind |-> "refine", auth |-> auth, mini |-> m] :
           m \in {f \in [S -> Observed] : \A w \in S : f[w] \in {mini[w], "unknown"}}}
      Main == {w \in present \ Surfaces : Owner[w] = p}
  <2>1. \/ r \in Read(Listed(p), TRUE)
        \/ r \in Read({}, FALSE)
        \/ \E w \in Main : r \in Read({w}, FALSE)
    BY DEF Readings
  <2>2. Listed(p) \subseteq Windows /\ Main \subseteq Windows
    BY DEF Listed, Worlds
  <2>3. ASSUME NEW S \in SUBSET Windows, NEW auth \in BOOLEAN, r \in Read(S, auth),
               auth => S = Listed(p)
        PROVE  \E T \in SUBSET Windows, b \in BOOLEAN :
                 /\ b => T = Listed(p)
                 /\ r.kind = "refine" /\ r.auth = b
                 /\ r.mini \in [T -> Observed] /\ \A w \in T : r.mini[w] \in {mini[w], "unknown"}
    <3>1. PICK m \in [S -> Observed] :
            /\ \A w \in S : m[w] \in {mini[w], "unknown"}
            /\ r = [kind |-> "refine", auth |-> auth, mini |-> m]
      BY <2>3
    <3>2. r.kind = "refine" /\ r.auth = auth /\ r.mini = m
      BY <3>1
    <3> QED BY <2>3, <3>1, <3>2
  <2> HIDE DEF Read, Main
  <2>4. CASE r \in Read(Listed(p), TRUE)
    BY <2>2, <2>3, <2>4
  <2>5. CASE r \in Read({}, FALSE)
    BY <2>3, <2>5
  <2>6. CASE \E w \in Main : r \in Read({w}, FALSE)
    <3>1. PICK w \in Main : r \in Read({w}, FALSE)
      BY <2>6
    <3>2. {w} \in SUBSET Windows
      BY <2>2
    <3> QED BY <2>3, <3>1, <3>2
  <2> QED BY <2>1, <2>4, <2>5, <2>6
<1>2. DOMAIN r.mini = S
  BY <1>1
<1>3. ASSUME NEW w \in S PROVE w \in Windows /\ Held(w, r.mini[w])
  BY <1>1 DEF Held, Witnessed
<1>4. ASSUME r.auth, NEW w \in Windows \ S, Owner[w] = p PROVE Out(w)
  BY <1>1, <1>4 DEF Listed, Out, Witnessed
<1> QED BY <1>2, <1>3, <1>4 DEF FreshAnswer
LEMMA ReachTimely ==
  ASSUME Timely, Orderly', NEW p \in Apps, NEW job \in thr[p], Reach(p, job)
  PROVE  Timely'
<1>1. /\ UNCHANGED <<present, away, mini, loop, sw, snap, ax, since>>
      /\ job.did = None /\ DOMAIN thr = Apps
  BY DEF Reach, world, Timely, Orderly, Numbers
<1>2. Worlds' /\ Witnessed' /\ Made'
  BY <1>1 DEF Timely, Worlds, Named, Witnessed, Made, FreshShot, Held, Out
<1>3. \A r : FreshAnswer(p, r) => FreshAnswer(p, r)'
  BY <1>1 DEF FreshAnswer, Held, Out
<1>4. ASSUME loop.at = "snapshot" /\ snap.at = "wait", NEW q \in snap.wait PROVE FreshFrom(q)'
  <2>1. FreshFrom(q) /\ q \in Apps
    BY <1>4 DEF Timely, Waiting, Worlds
  <2>2. ax'[q] = ax[q] /\ \A r : FreshAnswer(q, r) => FreshAnswer(q, r)'
    BY <1>1 DEF FreshAnswer, Held, Out
  <2>3. ASSUME NEW j \in thr'[q], j.did # None PROVE FreshAnswer(q, j.did)'
    <3>1. CASE q # p
      <4>1. thr'[q] = thr[q]
        BY <1>1, <2>1, <3>1 DEF Reach
      <4> QED BY <2>1, <2>2, <2>3, <4>1 DEF FreshFrom
    <3>2. CASE q = p /\ job.kind = "refine"
      <4>1. PICK r \in Readings(p) :
              thr' = [thr EXCEPT ![p] = (@ \ {job}) \cup {[job EXCEPT !.did = r]}]
        BY <3>2 DEF Reach
      <4>2. j \in thr[p] \/ j = [job EXCEPT !.did = r]
        BY <1>1, <2>3, <3>2, <4>1
      <4>3. CASE j \in thr[p]
        BY <2>1, <2>2, <2>3, <3>2, <4>3 DEF FreshFrom
      <4>4. CASE j = [job EXCEPT !.did = r]
        <5>1. job = [kind |-> job.kind, n |-> job.n, did |-> job.did]
          BY DEF Timely, Orderly, Alone, IsJob
        <5>2. j.did = r
          BY <4>4, <5>1
        <5>3. FreshAnswer(p, r)
          BY <1>4, <4>1, ReadingFresh DEF Timely
        <5> QED BY <1>3, <3>2, <5>2, <5>3
      <4> QED BY <4>2, <4>3, <4>4
    <3>3. CASE q = p /\ job.kind = "move"
      <4>1. PICK done \in BOOLEAN :
              thr' = [thr EXCEPT ![p] = (@ \ {job}) \cup
                        {[job EXCEPT !.did = [kind |-> "move", ok |-> done]]}]
        BY <3>3 DEF Reach
      <4>2. j \in thr[p] \/ j = [job EXCEPT !.did = [kind |-> "move", ok |-> done]]
        BY <1>1, <2>3, <3>3, <4>1
      <4>3. CASE j \in thr[p]
        BY <2>1, <2>2, <2>3, <3>3, <4>3 DEF FreshFrom
      <4>4. CASE j = [job EXCEPT !.did = [kind |-> "move", ok |-> done]]
        <5>1. job = [kind |-> job.kind, n |-> job.n, did |-> job.did]
          BY DEF Timely, Orderly, Alone, IsJob
        <5>2. j.did = [kind |-> "move", ok |-> done]
          BY <4>4, <5>1
        <5>3. j.did.kind # "refine"
          BY <5>2
        <5> QED BY <5>3 DEF FreshAnswer
      <4> QED BY <4>2, <4>3, <4>4
    <3> QED BY <3>1, <3>2, <3>3 DEF Reach
  <2>4. ax'[q].res # None => FreshAnswer(q, ax[q].res)'
    BY <2>1, <2>2 DEF FreshFrom
  <2> QED BY <2>3, <2>4 DEF FreshFrom
<1>5. Waiting'
  BY <1>1, <1>4 DEF Waiting
<1> QED BY <1>2, <1>5 DEF Timely

LEMMA ReturnTimely ==
  ASSUME Timely, Orderly', NEW p \in Apps, NEW job \in thr[p], Return(p, job)
  PROVE  Timely'
<1>1. /\ UNCHANGED <<present, away, mini, loop, sw, snap, since>>
      /\ job.did # None /\ DOMAIN thr = Apps /\ DOMAIN ax = Apps
      /\ thr' = [thr EXCEPT ![p] = @ \ {job}]
      /\ ax' = IF ax[p] = None THEN ax ELSE [ax EXCEPT ![p].res = job.did]
  BY DEF Return, world, Timely, Orderly, Numbers
<1>2. Worlds' /\ Witnessed' /\ Made'
  BY <1>1 DEF Timely, Worlds, Named, Witnessed, Made, FreshShot, Held, Out
<1>3. ASSUME loop.at = "snapshot" /\ snap.at = "wait", NEW q \in snap.wait PROVE FreshFrom(q)'
  <2>1. FreshFrom(q) /\ q \in Apps
    BY <1>3 DEF Timely, Waiting, Worlds
  <2>2. \A r : FreshAnswer(q, r) => FreshAnswer(q, r)'
    BY <1>1 DEF FreshAnswer, Held, Out
  <2>3. thr'[q] \subseteq thr[q]
    BY <1>1, <2>1
  <2>4. ax'[q] = ax[q] \/ (q = p /\ ax'[q].res = job.did)
    <3>1. ax[p] = Started
      BY DEF Timely, Orderly, Alone
    <3> QED BY <1>1, <2>1, <3>1 DEF Started
  <2>5. ax'[q].res # None => FreshAnswer(q, ax[q].res)'
    <3>1. CASE ax'[q] = ax[q]
      BY <2>1, <2>2, <3>1 DEF FreshFrom
    <3>2. CASE q = p /\ ax'[q].res = job.did
      BY <1>1, <2>1, <2>2, <3>2 DEF FreshFrom
    <3> QED BY <2>4, <3>1, <3>2
  <2> QED BY <2>1, <2>2, <2>3, <2>5 DEF FreshFrom
<1>4. Waiting'
  BY <1>1, <1>3 DEF Waiting
<1> QED BY <1>2, <1>4 DEF Timely

LEMMA ObserveTimely == ASSUME Timely, Orderly', Observe PROVE Timely'
<1>1. /\ sw' = Started /\ snap' = [at |-> "enumerate", cands |-> {}, wait |-> {}]
      /\ since' = [w \in Windows |-> {mini[w]} \cup
                      IF w \in present \ away THEN {} ELSE {"hidden"}]
      /\ UNCHANGED <<present, away, mini>>
  BY DEF Observe, Nothing, world
<1>0. Named'
  <2>1. loop' = [at |-> "snapshot", app |-> None, n |-> 0]
    BY DEF Observe, Resting
  <2> QED BY <2>1 DEF Named
<1>2. Worlds' /\ Witnessed'
  BY <1>0, <1>1 DEF Timely, Worlds, Witnessed
<1>3. Waiting' /\ Made'
  BY <1>1 DEF Waiting, Made, Started
<1> QED BY <1>2, <1>3 DEF Timely

\* The applications are asked: nothing is on its way from those that take it.
LEMMA EnumerateTimely == ASSUME Timely, Orderly', Enumerate PROVE Timely'
<1>1. PICK asked \in SUBSET {Owner[w] : w \in present} :
        /\ snap' = [snap EXCEPT !.at = "wait", !.cands = present, !.wait = Takers(asked)]
        /\ ax' = [p \in Apps |-> IF p \in Takers(asked) THEN Restarted(ax[p])
                                 ELSE IF p \in Retained(asked) THEN ax[p] ELSE None]
        /\ thr' = [p \in Apps |-> IF p \in Takers(asked) THEN thr[p] \cup {Job("refine", 0)}
                                  ELSE thr[p]]
  BY DEF Enumerate
<1>2. /\ UNCHANGED <<present, away, mini, loop, sw, since>> /\ snap.at = "enumerate"
  BY DEF Enumerate, world
<1>3. Takers(asked) \subseteq Apps
  BY ObservationAssumption DEF Takers, Timely, Worlds
<1>4. /\ snap'.at = "wait" /\ snap'.wait = Takers(asked)
      /\ snap' \in [at : {"none", "enumerate", "wait", "ping"},
                    cands : SUBSET Windows, wait : SUBSET Apps]
  BY <1>1, <1>3 DEF Timely, Worlds, Named
<1>5. Worlds' /\ Witnessed' /\ Made'
  BY <1>2, <1>4 DEF Timely, Worlds, Named, Witnessed, Made, Orderly, Bridge, Started
<1>6. ASSUME NEW p \in Takers(asked) PROVE FreshFrom(p)'
  <2>1. ax[p] = None \/ Accepts(ax[p])
    BY <1>3 DEF Takers, Retained
  <2>2. thr[p] = {}
    BY <1>3, <2>1, Free DEF Timely, Orderly
  <2>3. thr'[p] = {Job("refine", 0)} /\ ax'[p] = Started
    BY <1>1, <1>3, <2>2 DEF Restarted
  <2> QED BY <2>3 DEF FreshFrom, Job, Started
<1>7. Waiting'
  BY <1>4, <1>6 DEF Waiting
<1> QED BY <1>5, <1>7 DEF Timely

\* What the closure makes of fresh answers is fresh.
LEMMA AssembledFresh ==
  ASSUME Timely, loop.at = "snapshot", snap.at = "wait", NEW gone \in SUBSET snap.wait,
         \A p \in snap.wait \ gone : ax[p].res # None
  PROVE  FreshShot(Assembled(gone))
<1> DEFINE heard(w) == Owner[w] \in snap.wait \ gone
           refined(w) == heard(w) /\ w \in DOMAIN Reading(Owner[w]).mini
           shot == [wins   |-> snap.cands,
                    heard  |-> {w \in snap.cands : refined(w)},
                    silent |-> {w \in snap.cands : ~heard(w)},
                    mini   |-> [w \in Windows |-> IF w \in snap.cands /\ refined(w)
                                                  THEN Reading(Owner[w]).mini[w] ELSE "unknown"],
                    no     |-> {}]
<1>1. Assembled(gone) = [shot EXCEPT !.no = Demoted(shot)]
  BY DEF Assembled
<1>2. PICK made : made = Assembled(gone)
  OBVIOUS
<1>3. /\ made.heard = {w \in snap.cands : refined(w)}
      /\ made.silent = {w \in snap.cands : ~heard(w)}
      /\ made.mini = [w \in Windows |-> IF w \in snap.cands /\ refined(w)
                                        THEN Reading(Owner[w]).mini[w] ELSE "unknown"]
      /\ made.no = {w \in snap.cands \ (made.heard \cup made.silent) : Reading(Owner[w]).auth}
  BY <1>1, <1>2 DEF Demoted
<1>4. snap.cands \subseteq Windows
  BY DEF Timely, Worlds
<1>5. ASSUME NEW w \in Windows, heard(w), Reading(Owner[w]).auth \/ refined(w)
      PROVE  /\ ax[Owner[w]].res.kind = "refine"
             /\ Reading(Owner[w]) = ax[Owner[w]].res
             /\ FreshAnswer(Owner[w], Reading(Owner[w]))
  <2>1. FreshAnswer(Owner[w], ax[Owner[w]].res)
    BY <1>5 DEF Timely, Waiting, FreshFrom
  <2>2. ax[Owner[w]].res.kind = "refine"
    <3>1. ASSUME ax[Owner[w]].res.kind # "refine"
          PROVE  /\ Reading(Owner[w]).auth = FALSE
                 /\ DOMAIN Reading(Owner[w]).mini = {}
      BY <3>1 DEF Reading
    <3> QED BY <1>5, <3>1
  <2>3. Reading(Owner[w]) = ax[Owner[w]].res
    BY <2>2 DEF Reading
  <2> QED BY <2>1, <2>2, <2>3
<1>6. ASSUME NEW w \in made.heard PROVE w \in Windows /\ Held(w, made.mini[w])
  <2>1. w \in Windows /\ heard(w) /\ refined(w) /\ made.mini[w] = Reading(Owner[w]).mini[w]
    BY <1>3, <1>4
  <2>2. ax[Owner[w]].res.kind = "refine" /\ Reading(Owner[w]) = ax[Owner[w]].res
        /\ FreshAnswer(Owner[w], Reading(Owner[w]))
    BY <1>5, <2>1
  <2> QED BY <2>1, <2>2 DEF FreshAnswer
<1>7. made.no \cap made.silent = {}
  BY <1>3
<1>8. ASSUME NEW w \in made.no PROVE w \in Windows /\ Out(w)
  <2>1. w \in Windows /\ heard(w) /\ ~refined(w) /\ Reading(Owner[w]).auth
    BY <1>3, <1>4
  <2>2. ax[Owner[w]].res.kind = "refine" /\ Reading(Owner[w]) = ax[Owner[w]].res
        /\ FreshAnswer(Owner[w], Reading(Owner[w]))
    BY <1>5, <2>1
  <2> QED BY <2>1, <2>2 DEF FreshAnswer
<1> QED BY <1>2, <1>6, <1>7, <1>8 DEF FreshShot

LEMMA CollectTimely == ASSUME Timely, Orderly', Collect PROVE Timely'
<1>1. /\ snap.at = "wait" /\ snap' = [at |-> "none", cands |-> {}, wait |-> {}]
      /\ UNCHANGED <<present, away, mini, loop, since>>
  BY DEF Collect, Nothing, world
<1>2. PICK gone \in SUBSET snap.wait :
        /\ \A p \in snap.wait \ gone : ax[p].res # None
        /\ \/ sw' = [sw EXCEPT !.res = [kind |-> "shot", shot |-> Assembled(gone)]]
           \/ sw' = [sw EXCEPT !.res = [kind |-> "error"]]
  BY DEF Collect, SnapshotResults
<1>3. sw = [busy |-> TRUE, res |-> None]
  BY <1>1 DEF Timely, Orderly, Bridge, Started
<1>4. Worlds' /\ Witnessed' /\ Waiting'
  BY <1>1 DEF Timely, Worlds, Named, Witnessed, Waiting
<1>5. Made'
  <2> SUFFICES ASSUME loop.at = "snapshot", sw'.res.kind = "shot"
               PROVE  FreshShot(sw.res.shot)'
    BY <1>1 DEF Made
  <2>1. PICK shot : shot = Assembled(gone)
    OBVIOUS
  <2>2. sw'.res.shot = shot
    BY <1>2, <1>3, <2>1
  <2>3. FreshShot(shot)
    BY <1>1, <1>2, <2>1, AssembledFresh
  <2> QED BY <1>1, <2>2, <2>3 DEF FreshShot, Held, Out
<1> QED BY <1>4, <1>5 DEF Timely

LEMMA TimelyNext == ASSUME Timely, [Next]_vars PROVE Timely'
<1>1. Orderly'
  BY OrderlyNext DEF Timely
<1>2. CASE \/ FailSnapshot \/ Ping \/ TakeSnapshot \/ SnapshotTimeout
           \/ PingAnswered \/ PingTimeout \/ MoveAnswered \/ MoveTimeout
           \/ (\E p \in Moved : Execute(p))
  <2>0. Named'
    <3>1. \/ loop' = loop \/ loop' = [loop EXCEPT !.at = "move"]
          \/ loop' = [at |-> "rest", app |-> None, n |-> 0]
          \/ \E p \in Moved : loop' = [at |-> "ping", app |-> p, n |-> moves + 1]
      BY <1>2 DEF FailSnapshot, Ping, TakeSnapshot, SnapshotTimeout, PingAnswered, PingTimeout,
        MoveAnswered, MoveTimeout, Execute, Resting
    <3>2. loop = [at |-> loop.at, app |-> loop.app, n |-> loop.n]
      BY DEF Timely, Worlds, Named
    <3>3. CASE loop' = [loop EXCEPT !.at = "move"]
      <4>1. loop' = [at |-> "move", app |-> loop.app, n |-> loop.n]
        BY <3>2, <3>3
      <4> QED BY <4>1 DEF Named
    <3> QED BY <3>1, <3>2, <3>3 DEF Named
  <2>1. Worlds'
    BY <1>2, <2>0 DEF FailSnapshot, Ping, TakeSnapshot, SnapshotTimeout, PingAnswered, PingTimeout,
      MoveAnswered, MoveTimeout, Execute, Nothing, world, Timely, Worlds
  <2>2. CASE loop'.at # "snapshot"
    BY <1>1, <2>1, <2>2 DEF Timely, Witnessed, Waiting, Made
  <2>3. CASE loop'.at = "snapshot"
    <3>1. FailSnapshot \/ Ping
      BY <1>2, <2>3 DEF TakeSnapshot, SnapshotTimeout, PingAnswered, PingTimeout,
        MoveAnswered, MoveTimeout, Execute, Resting, Timely, Worlds, Named
    <3>2. /\ UNCHANGED <<present, away, mini, loop, since>> /\ snap'.at = "none"
          /\ sw = Started
      BY <3>1 DEF FailSnapshot, Ping, Nothing, world, Timely, Orderly, Bridge
    <3>3. sw'.res.kind # "shot"
      BY <3>1, <3>2 DEF FailSnapshot, Ping, Started
    <3> QED BY <1>1, <2>1, <3>2, <3>3 DEF Timely, Witnessed, Waiting, Made
  <2> QED BY <2>2, <2>3
<1>3. CASE UNCHANGED vars
  BY <1>1, <1>3 DEF vars, world, pool, Timely, Worlds, Named, Witnessed, Waiting, FreshFrom,
    FreshAnswer, Made, FreshShot, Held, Out
<1> QED
  BY <1>1, <1>2, <1>3, WorldTimely, ReachTimely, ReturnTimely, ObserveTimely,
     EnumerateTimely, CollectTimely DEF Next

\* What the engine is told of a window its application answered for was so at
\* some moment since the loop asked: no late answer of an abandoned question, to
\* the same application or for an earlier snapshot, reaches it (observe, refine).
THEOREM FreshWhenHeardHolds == Spec => FreshWhenHeard
<1> DEFINE Fresh == Told => \A w \in sw.res.shot.heard :
             sw.res.shot.mini[w] = "unknown" \/ sw.res.shot.mini[w] \in since[w]
<1>1. Timely /\ [Next]_vars => Fresh
  BY DEF Timely, Made, Told, FreshShot, Held
<1> HIDE DEF Fresh
<1>2. Spec => [][Fresh]_sw
  BY <1>1, TimelyInit, TimelyNext, PTL DEF Spec
<1> QED BY <1>2 DEF FreshWhenHeard, Fresh

\* Only an application that answered makes the engine take a window of its for a
\* surface, and never one that stayed open in sight since the loop asked
\* (demote_ax_absent_candidates).
THEOREM SilenceIsNotAbsenceHolds == Spec => SilenceIsNotAbsence
<1> DEFINE Heeded == Told =>
             /\ sw.res.shot.no \cap sw.res.shot.silent = {}
             /\ \A w \in sw.res.shot.no : w \in Surfaces \/ "hidden" \in since[w]
<1>1. Timely /\ [Next]_vars => Heeded
  BY DEF Timely, Made, Told, FreshShot, Out
<1> HIDE DEF Heeded
<1>2. Spec => [][Heeded]_sw
  BY <1>1, TimelyInit, TimelyNext, PTL DEF Spec
<1> QED BY <1>2 DEF SilenceIsNotAbsence, Heeded
=============================================================================
