------------------------- MODULE WorkspacesProofs -------------------------
(***************************************************************************)
(* Theorems about Workspaces, for any workspaces, Spaces, configurations   *)
(* and bounds.  Every method of the engine that an observation or a        *)
(* command runs keeps the topology reservations apart, so each has a lemma *)
(* of its own.                                                             *)
(***************************************************************************)
EXTENDS Workspaces, FiniteSetTheorems, SequenceTheorems, TLAPS

Fields == {"obs", "ws", "capable", "synced", "initialized", "pendingCreations", "awaited",
           "pendingDestroy", "topologyDestroy", "placement", "external", "grace",
           "pendingFocus", "pendingMove", "pendingNewSpace", "lastSpace", "out"}

\* At most one creation, destruction or repair is reserved.
Apart(e) ==
  /\ DOMAIN e = Fields
  /\ e.awaited # None => e.pendingDestroy = {} /\ e.topologyDestroy = None
  /\ e.topologyDestroy # None => e.pendingDestroy = {}
  /\ \A c, d \in e.pendingDestroy : c = d

\* The inductive invariant.
Serialized == Apart(engine)

LEMMA InitApart == ASSUME Init PROVE Apart(engine)
  BY DEF Init, NewEngine, Apart, Fields

LEMMA RemoveApart ==
  ASSUME NEW e, NEW S, Apart(e)
  PROVE  Apart(RemoveWorkspaces(e, S))
  BY DEF Apart, RemoveWorkspaces, Fields

LEMMA ClearStaleApart ==
  ASSUME NEW e, NEW n, Apart(e)
  PROVE  Apart(ClearStaleBacking(e, n))
  BY DEF Apart, ClearStaleBacking, Fields

LEMMA EmitApart == ASSUME NEW e, NEW a, Apart(e) PROVE Apart(Emit(e, a))
  BY DEF Apart, Emit, Fields

LEMMA ReserveApart == ASSUME NEW e, Apart(e) PROVE Apart(ReserveLogicalOrder(e))
  BY DEF Apart, ReserveLogicalOrder, Fields

LEMMA TryStartApart == ASSUME NEW e, Apart(e) PROVE Apart(TryStartNextPendingCreation(e))
  BY EmitApart DEF Apart, TryStartNextPendingCreation, Reserved, Fields

LEMMA HealApart == ASSUME NEW e, Apart(e) PROVE Apart(Heal(e))
  BY EmitApart DEF Apart, Heal, NextTopologyHealAction, Reserved, Fields

LEMMA NoteBatchFailedApart ==
  ASSUME NEW e, NEW U, Apart(e)
  PROVE  Apart(NoteBatchFailed(e, U))
  BY DEF Apart, NoteBatchFailed, NoteCreateSpaceFailed, Fields

LEMMA RequestApart ==
  ASSUME NEW e, NEW n, Apart(e)
  PROVE  Apart(RequestWorkspaceCreation(e, n))
<1>1. Apart(EnsureDynamicWorkspace(e, n))
  BY DEF Apart, EnsureDynamicWorkspace, Fields
<1>2. \A f : Apart(f) => Apart(QueueCreation(f, n))
  BY DEF Apart, QueueCreation, Fields
<1> QED
  BY <1>1, <1>2, TryStartApart DEF RequestWorkspaceCreation

LEMMA ReleaseApart ==
  ASSUME NEW e, Apart(e)
  PROVE  Apart(ReleaseAwaited(e))
<1>1. Apart([e EXCEPT !.awaited = None])
  BY DEF Apart, Fields
<1> QED BY <1>1, RemoveApart DEF ReleaseAwaited

LEMMA BindApart ==
  ASSUME NEW e, NEW late, Apart(e)
  PROVE  Apart(BindAwaitedDynamicSpaces(e, late))
  BY ReleaseApart, ReserveApart DEF Apart, BindAwaitedDynamicSpaces, Fields

LEMMA PlacementApart ==
  ASSUME NEW e, NEW late, Apart(e)
  PROVE  Apart(ReconcilePlacement(e, late))
<1>1. Apart([e EXCEPT !.placement = None])
  BY DEF Apart, Fields
<1>2. Apart([e EXCEPT !.placement.asked = TRUE])
  BY DEF Apart, Fields
<1>3. \A a : Apart(Emit([e EXCEPT !.placement.asked = TRUE], a))
  BY <1>2, EmitApart
<1>4. \/ ReconcilePlacement(e, late) \in {e, [e EXCEPT !.placement = None]}
      \/ \E a : ReconcilePlacement(e, late) = Emit([e EXCEPT !.placement.asked = TRUE], a)
  BY Zenon DEF ReconcilePlacement
<1> QED BY <1>1, <1>3, <1>4

LEMMA FullscreenApart ==
  ASSUME NEW e, NEW was, Apart(e)
  PROVE  Apart(ReconcileFullscreen(e, was))
  BY ReserveApart DEF Apart, ReconcileFullscreen, Fields

LEMMA NoteApart == ASSUME NEW e, Apart(e) PROVE Apart(NoteWindowSpaces(e))
  BY DEF Apart, NoteWindowSpaces, Fields

LEMMA RemapApart == ASSUME NEW e, Apart(e) PROVE Apart(RemapSlots(e))
  BY DEF Apart, RemapSlots, Fields

LEMMA GraceApart == ASSUME NEW e, Apart(e) PROVE Apart(GraceUnclaimed(e))
  BY DEF Apart, GraceUnclaimed, Fields

LEMMA AdoptApart == ASSUME NEW e, Apart(e) PROVE Apart(AdoptSpaces(e))
  BY DEF Apart, AdoptSpaces, Fields

LEMMA ExternalApart == ASSUME NEW e, Apart(e) PROVE Apart(ObserveExternalSpaces(e))
  BY GraceApart, AdoptApart DEF Apart, ObserveExternalSpaces, Fields

LEMMA DestroyEmptyApart ==
  ASSUME NEW e, NEW moved, Apart(e)
  PROVE  Apart(DestroyEmptyDynamicWorkspaces(e, moved))
<1> DEFINE reserve(f, d) == [f EXCEPT !.pendingDestroy = @ \cup {d}]
<1>1. \/ DestroyEmptyDynamicWorkspaces(e, moved) = e
      \/ \E S : DestroyEmptyDynamicWorkspaces(e, moved) = RemoveWorkspaces(e, S)
      \/ /\ ~Reserved(e)
         /\ \E S, d, a : DestroyEmptyDynamicWorkspaces(e, moved) =
                          Emit(reserve(RemoveWorkspaces(e, S), d), a)
  BY Zenon DEF DestroyEmptyDynamicWorkspaces
<1>2. ASSUME NEW S, NEW d, ~Reserved(e) PROVE Apart(reserve(RemoveWorkspaces(e, S), d))
  <2>1. Apart(RemoveWorkspaces(e, S))
    BY RemoveApart
  <2>2. /\ RemoveWorkspaces(e, S).awaited = None
        /\ RemoveWorkspaces(e, S).topologyDestroy = None
        /\ RemoveWorkspaces(e, S).pendingDestroy = {}
    BY <1>2 DEF Apart, RemoveWorkspaces, Reserved, Fields
  <2> QED BY <2>1, <2>2 DEF Apart, Fields
<1> HIDE DEF reserve
<1> QED BY <1>1, <1>2, RemoveApart, EmitApart

LEMMA IntentsApart ==
  ASSUME NEW e, Apart(e)
  PROVE  Apart(FulfillPendingWorkspaceActions(e))
<1>1. ASSUME NEW f, Apart(f) PROVE Apart(FulfillPendingFocus(f))
  <2> DEFINE n == Head(f.pendingFocus)
             popped == [f EXCEPT !.pendingFocus = Tail(@)]
             kept == [popped EXCEPT !.grace = @ \cup {n}]
  <2>1. Apart(popped)
    BY <1>1 DEF Apart, Fields
  <2>2. Apart(kept)
    BY <2>1 DEF Apart, Fields
  <2>3. FulfillPendingFocus(f) \in {f, popped, Emit(kept, Focus(BackingFor(f.ws, n)))}
    BY DEF FulfillPendingFocus
  <2> HIDE DEF popped, kept
  <2> QED BY <1>1, <2>1, <2>2, <2>3, EmitApart
<1>2. ASSUME NEW f, Apart(f) PROVE Apart(FulfillPendingMove(f))
  <2> DEFINE m == Head(f.pendingMove)
             popped == [f EXCEPT !.pendingMove = Tail(@)]
             kept == [popped EXCEPT !.grace = @ \cup {m.name}]
             sent == Emit(kept, MoveWindow(m.window, BackingFor(f.ws, m.name)))
  <2>1. Apart(popped)
    BY <1>2 DEF Apart, Fields
  <2>2. Apart(kept)
    BY <2>1 DEF Apart, Fields
  <2>3. FulfillPendingMove(f) \in {f, popped, kept, sent}
    BY DEF FulfillPendingMove
  <2> HIDE DEF popped, kept
  <2> QED BY <1>2, <2>1, <2>2, <2>3, EmitApart
<1> QED BY <1>1, <1>2 DEF FulfillPendingWorkspaceActions

LEMMA NewSpaceApart ==
  ASSUME NEW e, NEW late, Apart(e)
  PROVE  Apart(FulfillPendingNewSpaceMoves(e, late))
  BY DEF Apart, FulfillPendingNewSpaceMoves, Fields

LEMMA MissingApart == ASSUME NEW e, Apart(e) PROVE Apart(RequestMissing(e))
  BY DEF Apart, RequestMissing, Fields

LEMMA RequeueApart == ASSUME NEW e, Apart(e) PROVE Apart(RequeueAwaited(e))
  BY DEF Apart, RequeueAwaited, Fields

LEMMA ConfirmApart == ASSUME NEW e, Apart(e) PROVE Apart(ConfirmDestroys(e))
  BY RemoveApart DEF Apart, ConfirmDestroys, Fields

LEMMA RetireApart ==
  ASSUME NEW e, NEW reset, Apart(e)
  PROVE  Apart(RetireVanished(e, reset))
  BY RemoveApart DEF Apart, RetireVanished, RemoveWorkspaces, Fields

LEMMA ExpireApart == ASSUME NEW e, NEW late, Apart(e) PROVE Apart(Expire(e, late))
  BY DEF Apart, Expire, Fields

-----------------------------------------------------------------------------
\* One observation, step by step in the order of apply_event.
LEMMA SnapshotApart ==
  ASSUME NEW e, NEW seen, NEW capable, NEW c, NEW late, Apart(e)
  PROVE  Apart(ApplySnapshot(e, seen, capable, c, late))
<1> DEFINE reset == IsReset(e, seen)
           was == e.obs.at
           void == [RequeueAwaited(e) EXCEPT !.initialized = FALSE, !.external = <<>>]
           e1 == [Expire(IF reset THEN void ELSE e, late) EXCEPT
                    !.obs = seen, !.capable = capable, !.synced = TRUE, !.out = <<>>,
                    !.ws = IF e.synced THEN @ ELSE SyncConfig(@, c, FALSE)]
           e2 == NoteWindowSpaces(ReconcileFullscreen(e1, was))
           e3 == RetireVanished(ConfirmDestroys(e2), reset)
           e4 == ObserveExternalSpaces(BindAwaitedDynamicSpaces(e3, late))
           e5 == ReconcilePlacement(e4, late)
           e6 == RemapSlots(e5)
           e7 == DestroyEmptyDynamicWorkspaces(GraceUnclaimed(e6), Moved(e5.ws, e6.ws))
           e8 == RequestMissing(
                   FulfillPendingNewSpaceMoves(FulfillPendingWorkspaceActions(e7), late))
<1>1. Apart(e1)
  <2>1. Apart(void)
    BY RequeueApart DEF Apart, Fields
  <2>2. Apart(Expire(IF reset THEN void ELSE e, late))
    BY <2>1, ExpireApart
  <2> HIDE DEF void
  <2> QED BY <2>2 DEF Apart, Fields
<1> HIDE DEF e1
<1>2. Apart(e2) BY <1>1, FullscreenApart, NoteApart
<1> HIDE DEF e2
<1>3. Apart(e3) BY <1>2, ConfirmApart, RetireApart
<1> HIDE DEF e3
<1>4. Apart(e4) BY <1>3, BindApart, ExternalApart
<1> HIDE DEF e4
<1>5. Apart(e5) BY <1>4, PlacementApart
<1> HIDE DEF e5
<1>6. Apart(e6) BY <1>5, RemapApart
<1> HIDE DEF e6
<1>7. Apart(e7) BY <1>6, GraceApart, DestroyEmptyApart
<1> HIDE DEF e7
<1>8. Apart(e8) BY <1>7, IntentsApart, NewSpaceApart, MissingApart
<1> HIDE DEF e8
<1>9. ApplySnapshot(e, seen, capable, c, late) = Heal(TryStartNextPendingCreation(e8))
  BY DEF ApplySnapshot, e8, e7, e6, e5, e4, e3, e2, e1
<1> QED BY <1>8, <1>9, TryStartApart, HealApart

\* Commands.
LEMMA CommandsApart ==
  ASSUME NEW e, NEW w, NEW n, Apart(e)
  PROVE  /\ Apart(FocusWorkspace(e, n)) /\ Apart(MoveWindowToWorkspace(e, w, n))
         /\ Apart(MoveWindowToNewSpace(e, w))
<1>1. Apart(FocusWorkspace(e, n))
  <2> DEFINE queue(x) == IF Contains(x.pendingFocus, n) THEN x
                         ELSE [x EXCEPT !.pendingFocus = Append(@, n)]
  <2>1. \A x : Apart(x) => Apart(queue(x))
    BY DEF Apart, Fields
  <2>2. FocusWorkspace(e, n) \in
          {RequestWorkspaceCreation(queue(ClearStaleBacking(e, n)), n), queue(e),
           Emit(e, Focus(Active(e.ws[n])))}
    BY DEF FocusWorkspace
  <2> HIDE DEF queue
  <2> QED BY <2>1, <2>2, RequestApart, ClearStaleApart, EmitApart
<1>2. Apart(MoveWindowToWorkspace(e, w, n))
  <2> DEFINE m == [window |-> w, name |-> n]
             queue(x) == IF Contains(x.pendingMove, m) THEN x
                         ELSE [x EXCEPT !.pendingMove = Append(@, m)]
             kept == [e EXCEPT !.grace = @ \cup {n}]
  <2>1. Apart(kept) /\ \A x : Apart(x) => Apart(queue(x))
    BY DEF Apart, Fields
  <2>2. MoveWindowToWorkspace(e, w, n) \in
          {RequestWorkspaceCreation(queue(ClearStaleBacking(e, n)), n), queue(e),
           Emit(kept, MoveWindow(w, Active(e.ws[n])))}
    BY DEF MoveWindowToWorkspace
  <2> HIDE DEF queue, kept
  <2> QED BY <2>1, <2>2, RequestApart, ClearStaleApart, EmitApart
<1>3. Apart(MoveWindowToNewSpace(e, w))
  BY EmitApart DEF Apart, MoveWindowToNewSpace, Fields
<1> QED BY <1>1, <1>2, <1>3

LEMMA ReloadApart ==
  ASSUME NEW e, NEW c, Apart(e)
  PROVE  Apart(ReloadConfig(e, c))
<1>1. Apart([e EXCEPT !.ws = SyncConfig(@, c, TRUE)])
  BY DEF Apart, Fields
<1> QED BY <1>1, RemapApart, RemoveApart DEF ReloadConfig

\* What a batch leaves of an engine, wherever it failed.
LEMMA ExecuteApart ==
  ASSUME NEW e, Apart(e), ExecuteTracked(e)
  PROVE  Apart(engine')
<1>1. PICK k \in 0 .. Len(e.out) :
        engine' = [(IF k = Len(e.out) THEN e
                    ELSE NoteBatchFailed(e, ToSet(SubSeq(e.out, k + 1, Len(e.out)))))
                   EXCEPT !.out = <<>>]
  BY DEF ExecuteTracked
<1>2. Apart(IF k = Len(e.out) THEN e
            ELSE NoteBatchFailed(e, ToSet(SubSeq(e.out, k + 1, Len(e.out)))))
  BY NoteBatchFailedApart
<1> QED BY <1>1, <1>2 DEF Apart, Fields

LEMMA NextApart == ASSUME Apart(engine), [Next]_vars PROVE Apart(engine')
<1>1. CASE Refresh
  <2>1. PICK late : ExecuteTracked(Observation(late))
    BY <1>1 DEF Refresh, Observe
  <2>2. Apart(Observation(late))
    BY SnapshotApart DEF Observation
  <2> QED BY <2>1, <2>2, ExecuteApart
<1>2. ASSUME NEW n, FocusCommand(n) PROVE Apart(engine')
  BY <1>2, CommandsApart, ExecuteApart DEF FocusCommand
<1>3. ASSUME NEW w, NEW n, MoveCommand(w, n) PROVE Apart(engine')
  BY <1>3, CommandsApart, ExecuteApart DEF MoveCommand
<1>4. ASSUME NEW w, NewSpaceCommand(w) PROVE Apart(engine')
  BY <1>4, CommandsApart, ExecuteApart DEF NewSpaceCommand
<1>5. ASSUME NEW a, SpaceCommand(a) PROVE Apart(engine')
  BY <1>5, EmitApart, ExecuteApart DEF SpaceCommand
<1>6. ASSUME NEW c, Reload(c) PROVE Apart(engine')
  BY <1>6, ReloadApart DEF Reload
<1>7. CASE MacOS
  BY <1>7 DEF MacOS, Land, Drop, UserCreatesSpace, DockRebuilds, SaChanges, UserRemovesSpace,
    UserFocuses, UserReordersSpaces, WindowGoes, EntersFullscreen, LeavesFullscreen, ByUser
<1>8. CASE UNCHANGED vars
  BY <1>8 DEF vars
<1> QED
  BY <1>1, <1>2, <1>3, <1>4, <1>5, <1>6, <1>7, <1>8 DEF Next, Daemon

\* Creations and destructions are serialized (try_start_next_pending_creation,
\* destroy_empty_dynamic_workspaces, next_topology_heal_action): the creation in
\* flight, the destruction of an empty workspace and the repair of an orphan
\* exclude one another, for any windows, Spaces, configurations and failures.
THEOREM TopologyMutexHolds == Spec => []TopologyMutex
<1>1. Init => Serialized
  BY InitApart DEF Serialized
<1>2. Serialized /\ [Next]_vars => Serialized'
  BY NextApart DEF Serialized
<1>3. Serialized => TopologyMutex
  <2> SUFFICES ASSUME Apart(engine) PROVE TopologyMutex
    BY DEF Serialized
  <2>1. CASE engine.pendingDestroy = {}
    <3>1. Cardinality(engine.pendingDestroy) = 0
      BY <2>1, FS_EmptySet
    <3> QED BY <3>1 DEF TopologyMutex, Apart
  <2>2. CASE engine.pendingDestroy # {}
    <3>1. PICK d : engine.pendingDestroy = {d}
      BY <2>2 DEF Apart
    <3>2. Cardinality(engine.pendingDestroy) = 1
      BY <3>1, FS_Singleton
    <3> QED BY <2>2, <3>2 DEF TopologyMutex, Apart
  <2> QED BY <2>1, <2>2
<1> QED BY <1>1, <1>2, <1>3, PTL DEF Spec

-----------------------------------------------------------------------------
\* Sequences, of whatever they are.
IsSeq(s) == \E T : s \in Seq(T)

LEMMA SeqIs ==
  ASSUME NEW s, IsSeq(s)
  PROVE  /\ Len(s) \in Nat /\ DOMAIN s = 1 .. Len(s) /\ IsFiniteSet(DOMAIN s)
         /\ DOMAIN s \subseteq Nat
<1>1. PICK T : s \in Seq(T)
  BY DEF IsSeq
<1>2. Len(s) \in Nat /\ DOMAIN s = 1 .. Len(s)
  BY <1>1, LenProperties
<1> QED BY <1>2, FS_Interval

LEMMA AppendIs ==
  ASSUME NEW s, IsSeq(s), NEW a
  PROVE  /\ IsSeq(Append(s, a)) /\ Len(Append(s, a)) = Len(s) + 1
         /\ Append(s, a)[Len(s) + 1] = a
         /\ \A i \in 1 .. Len(s) : Append(s, a)[i] = s[i]
<1>1. PICK T : s \in Seq(T)
  BY DEF IsSeq
<1>2. s \in Seq(T \cup {a}) /\ a \in T \cup {a}
  BY <1>1, SeqMonotonic
<1>3. Append(s, a) \in Seq(T \cup {a})
  BY <1>2, AppendProperties
<1> QED BY <1>2, <1>3, AppendProperties DEF IsSeq

LEMMA ConcatIs ==
  ASSUME NEW s, IsSeq(s), NEW t, IsSeq(t)
  PROVE  /\ IsSeq(s \o t) /\ Len(s \o t) = Len(s) + Len(t)
         /\ \A i \in 1 .. Len(s) : (s \o t)[i] = s[i]
         /\ \A i \in 1 .. Len(t) : (s \o t)[Len(s) + i] = t[i]
<1>1. PICK T : s \in Seq(T)
  BY DEF IsSeq
<1>2. PICK U : t \in Seq(U)
  BY DEF IsSeq
<1>3. s \in Seq(T \cup U) /\ t \in Seq(T \cup U)
  BY <1>1, <1>2, SeqMonotonic
<1>4. /\ s \o t \in Seq(T \cup U) /\ Len(s \o t) = Len(s) + Len(t)
      /\ \A i \in 1 .. Len(s) + Len(t) :
           (s \o t)[i] = IF i <= Len(s) THEN s[i] ELSE t[i - Len(s)]
  BY <1>3, ConcatProperties
<1>5. Len(s) \in Nat /\ Len(t) \in Nat
  BY SeqIs
<1>6. IsSeq(s \o t)
  BY <1>4 DEF IsSeq
<1>7. ASSUME NEW i \in 1 .. Len(s) PROVE (s \o t)[i] = s[i]
  BY <1>4, <1>5
<1>8. ASSUME NEW i \in 1 .. Len(t) PROVE (s \o t)[Len(s) + i] = t[i]
  <2>1. Len(s) + i \in 1 .. Len(s) + Len(t) /\ ~(Len(s) + i <= Len(s))
        /\ Len(s) + i - Len(s) = i
    BY <1>5
  <2> QED BY <1>4, <2>1
<1> QED BY <1>4, <1>6, <1>7, <1>8

LEMMA ConcatSet ==
  ASSUME NEW s, IsSeq(s), NEW t, IsSeq(t)
  PROVE  ToSet(s \o t) \subseteq ToSet(s) \cup ToSet(t)
<1>1. /\ IsSeq(s \o t) /\ Len(s \o t) = Len(s) + Len(t)
      /\ \A i \in 1 .. Len(s) : (s \o t)[i] = s[i]
      /\ \A i \in 1 .. Len(t) : (s \o t)[Len(s) + i] = t[i]
  BY ConcatIs
<1>2. PICK u : u = s \o t
  OBVIOUS
<1>3. /\ DOMAIN u = 1 .. Len(s) + Len(t) /\ DOMAIN s = 1 .. Len(s) /\ DOMAIN t = 1 .. Len(t)
      /\ Len(s) \in Nat /\ Len(t) \in Nat
  BY <1>1, <1>2, SeqIs
<1>4. ASSUME NEW i \in DOMAIN u PROVE u[i] \in ToSet(s) \cup ToSet(t)
  <2>1. CASE i <= Len(s)
    <3>1. i \in 1 .. Len(s)
      BY <1>3, <2>1
    <3> QED BY <1>1, <1>2, <1>3, <3>1 DEF ToSet
  <2>2. CASE ~(i <= Len(s))
    <3>1. i - Len(s) \in 1 .. Len(t) /\ Len(s) + (i - Len(s)) = i
      BY <1>3, <2>2
    <3>2. u[Len(s) + (i - Len(s))] = t[i - Len(s)]
      BY <1>1, <1>2, <3>1
    <3> QED BY <1>3, <3>1, <3>2 DEF ToSet
  <2> QED BY <2>1, <2>2
<1>5. ToSet(u) \subseteq ToSet(s) \cup ToSet(t)
  BY <1>4 DEF ToSet
<1> QED BY <1>2, <1>5

LEMMA PartIs ==
  ASSUME NEW s, IsSeq(s), NEW a \in Nat, NEW b \in Nat, 1 <= a, b <= Len(s)
  PROVE  /\ IsSeq(SubSeq(s, a, b))
         /\ Len(SubSeq(s, a, b)) = IF a <= b THEN b - a + 1 ELSE 0
         /\ \A i \in 1 .. b - a + 1 : SubSeq(s, a, b)[i] = s[a + i - 1]
<1>1. PICK T : s \in Seq(T)
  BY DEF IsSeq
<1>2. Len(s) \in Nat
  BY SeqIs
<1>3. \A i \in a .. b : s[i] \in T
  BY <1>1, <1>2, ElementOfSeq
<1>4. a \in Int /\ b \in Int
  OBVIOUS
<1>5. /\ SubSeq(s, a, b) \in Seq(T)
      /\ Len(SubSeq(s, a, b)) = IF a <= b THEN b - a + 1 ELSE 0
      /\ \A i \in 1 .. b - a + 1 : SubSeq(s, a, b)[i] = s[a + i - 1]
  BY <1>3, <1>4, SubSeqProperties
<1> QED BY <1>5 DEF IsSeq

LEMMA TailIs == ASSUME NEW s, IsSeq(s), s # <<>> PROVE IsSeq(Tail(s))
  BY HeadTailProperties DEF IsSeq

\* The first i elements, and the others.
LEMMA PrefixIs ==
  ASSUME NEW s, IsSeq(s), NEW i \in 0 .. Len(s)
  PROVE  /\ IsSeq(SubSeq(s, 1, i)) /\ Len(SubSeq(s, 1, i)) = i
         /\ \A j \in 1 .. i : SubSeq(s, 1, i)[j] = s[j]
<1> DEFINE a == SubSeq(s, 1, i)
<1>1. Len(s) \in Nat /\ i \in Nat /\ i <= Len(s)
  BY SeqIs
<1>2. /\ IsSeq(a) /\ Len(a) = IF 1 <= i THEN i - 1 + 1 ELSE 0
      /\ \A j \in 1 .. i - 1 + 1 : a[j] = s[1 + j - 1]
  BY <1>1, PartIs
<1> HIDE DEF a
<1>3. Len(a) = i
  BY <1>1, <1>2
<1>4. ASSUME NEW j \in 1 .. i PROVE a[j] = s[j]
  <2>1. j \in 1 .. i - 1 + 1 /\ 1 + j - 1 = j
    BY <1>1
  <2> QED BY <1>2, <2>1
<1> QED BY <1>2, <1>3, <1>4 DEF a

LEMMA SuffixIs ==
  ASSUME NEW s, IsSeq(s), NEW i \in 0 .. Len(s)
  PROVE  /\ IsSeq(SubSeq(s, i + 1, Len(s))) /\ Len(SubSeq(s, i + 1, Len(s))) = Len(s) - i
         /\ \A j \in 1 .. Len(s) - i : SubSeq(s, i + 1, Len(s))[j] = s[j + i]
<1> DEFINE b == SubSeq(s, i + 1, Len(s))
<1>1. Len(s) \in Nat /\ i \in Nat /\ i <= Len(s)
  BY SeqIs
<1>2. i + 1 \in Nat /\ 1 <= i + 1 /\ Len(s) - (i + 1) + 1 = Len(s) - i
  BY <1>1
<1>3. /\ IsSeq(b) /\ Len(b) = IF i + 1 <= Len(s) THEN Len(s) - (i + 1) + 1 ELSE 0
      /\ \A j \in 1 .. Len(s) - (i + 1) + 1 : b[j] = s[i + 1 + j - 1]
  BY <1>1, <1>2, PartIs
<1> HIDE DEF b
<1>4. Len(b) = Len(s) - i
  <2>1. CASE i + 1 <= Len(s)
    BY <1>2, <1>3, <2>1
  <2>2. CASE ~(i + 1 <= Len(s))
    BY <1>1, <1>3, <2>2
  <2> QED BY <2>1, <2>2
<1>5. ASSUME NEW j \in 1 .. Len(s) - i PROVE b[j] = s[j + i]
  <2>1. j \in 1 .. Len(s) - (i + 1) + 1 /\ i + 1 + j - 1 = j + i
    BY <1>1, <1>2
  <2> QED BY <1>3, <2>1
<1> QED BY <1>3, <1>4, <1>5 DEF b

\* What is left when one element is taken out.
LEMMA RemoveAtIs ==
  ASSUME NEW s, IsSeq(s), NEW i \in DOMAIN s
  PROVE  /\ IsSeq(RemoveAt(s, i)) /\ Len(RemoveAt(s, i)) = Len(s) - 1
         /\ \A j \in 1 .. Len(s) - 1 :
              RemoveAt(s, i)[j] = s[IF j < i THEN j ELSE j + 1]
<1> DEFINE a == SubSeq(s, 1, i - 1)
           b == SubSeq(s, i + 1, Len(s))
           rest == RemoveAt(s, i)
<1>1. Len(s) \in Nat /\ i \in Nat /\ 1 <= i /\ i <= Len(s)
  BY SeqIs
<1>2. /\ IsSeq(a) /\ Len(a) = i - 1 /\ \A j \in 1 .. i - 1 : a[j] = s[j]
  <2>1. i - 1 \in 0 .. Len(s)
    BY <1>1
  <2> QED BY <2>1, PrefixIs
<1>3. /\ IsSeq(b) /\ Len(b) = Len(s) - i /\ \A j \in 1 .. Len(s) - i : b[j] = s[j + i]
  <2>1. i \in 0 .. Len(s)
    BY <1>1
  <2> QED BY <2>1, SuffixIs
<1>4. rest = a \o b
  BY DEF RemoveAt
<1> HIDE DEF a, b, rest
<1>5. /\ IsSeq(rest) /\ Len(rest) = Len(a) + Len(b)
      /\ \A j \in 1 .. Len(a) : rest[j] = a[j]
      /\ \A j \in 1 .. Len(b) : rest[Len(a) + j] = b[j]
  BY <1>2, <1>3, <1>4, ConcatIs
<1>6. ASSUME NEW j \in 1 .. Len(s) - 1
      PROVE  rest[j] = s[IF j < i THEN j ELSE j + 1]
  <2>1. CASE j < i
    <3>1. j \in 1 .. i - 1
      BY <1>1, <2>1
    <3> QED BY <1>2, <1>5, <2>1, <3>1
  <2>2. CASE ~(j < i)
    <3>1. /\ j - (i - 1) \in 1 .. Len(s) - i /\ (i - 1) + (j - (i - 1)) = j
          /\ (j - (i - 1)) + i = j + 1
      BY <1>1, <2>2
    <3>2. rest[(i - 1) + (j - (i - 1))] = b[j - (i - 1)]
      BY <1>2, <1>3, <1>5, <3>1
    <3>3. b[j - (i - 1)] = s[j + 1]
      BY <1>3, <3>1
    <3> QED BY <2>2, <3>1, <3>2, <3>3
  <2> QED BY <2>1, <2>2
<1>7. Len(rest) = Len(s) - 1
  BY <1>1, <1>2, <1>3, <1>5
<1> QED BY <1>5, <1>6, <1>7 DEF rest

\* The places of numbers in their set are different, and there are no others.
LEMMA RankIs ==
  ASSUME NEW S \in SUBSET Nat, IsFiniteSet(S)
  PROVE  /\ Cardinality(S) \in Nat
         /\ \A x, y \in S : Rank(S, x) = Rank(S, y) => x = y
         /\ \A k \in 1 .. Cardinality(S) : \E x \in S : Rank(S, x) = k
<1> DEFINE below(z) == {e \in S : e <= z}
           n == Cardinality(S)
           place == [x \in S |-> Rank(S, x)]
<1>1. n \in Nat
  BY FS_CardinalityType
<1>2. ASSUME NEW x \in S PROVE IsFiniteSet(below(x)) /\ Rank(S, x) \in 1 .. n
  <2>1. below(x) \subseteq S /\ x \in below(x)
    OBVIOUS
  <2>2. Rank(S, x) = Cardinality(below(x))
    BY DEF Rank
  <2> HIDE DEF below
  <2>3. IsFiniteSet(below(x)) /\ Cardinality(below(x)) \in Nat /\ Cardinality(below(x)) <= n
    BY <2>1, FS_Subset, FS_CardinalityType
  <2>4. Cardinality(below(x)) # 0
    BY <2>1, <2>3, FS_EmptySet
  <2> QED BY <1>1, <2>2, <2>3, <2>4
<1>3. ASSUME NEW u \in S, NEW v \in S, u < v, Rank(S, u) = Rank(S, v) PROVE FALSE
  <2>0. S \subseteq Nat /\ u \in Nat /\ v \in Nat
    OBVIOUS
  <2>1. below(u) \subseteq below(v) /\ v \in below(v) /\ v \notin below(u)
    <3>1. ASSUME NEW e \in below(u) PROVE e \in below(v)
      <4>1. e \in S /\ e \in Nat /\ e <= u
        BY <2>0
      <4> QED BY <1>3, <2>0, <4>1
    <3>2. v \in below(v) /\ v \notin below(u)
      BY <1>3, <2>0
    <3> HIDE DEF below
    <3> QED BY <3>1, <3>2
  <2>2. Cardinality(below(u)) = Cardinality(below(v))
    BY <1>3 DEF Rank
  <2> HIDE DEF below
  <2> QED BY <1>2, <2>1, <2>2, FS_Subset
<1>4. ASSUME NEW x \in S, NEW y \in S, Rank(S, x) = Rank(S, y) PROVE x = y
  <2>1. x \in Nat /\ y \in Nat
    OBVIOUS
  <2> QED BY <1>3, <1>4, <2>1
<1>5. place \in Injection(S, 1 .. n)
  BY <1>2, <1>4 DEF Injection, IsInjective
<1>6. IsFiniteSet(1 .. n) /\ Cardinality(1 .. n) = n
  BY <1>1, FS_Interval
<1>7. place \in Surjection(S, 1 .. n)
  <2> HIDE DEF place, n
  <2>1. n = Cardinality(S)
    BY DEF n
  <2> QED BY <1>5, <1>6, <2>1, FS_Injection
<1>8. ASSUME NEW k \in 1 .. n PROVE \E x \in S : Rank(S, x) = k
  BY <1>7 DEF Surjection
<1> QED BY <1>1, <1>4, <1>8

LEMMA MinMaxIs ==
  ASSUME NEW S \in SUBSET Nat, IsFiniteSet(S), S # {}
  PROVE  /\ Min(S) \in S /\ \A y \in S : Min(S) <= y
         /\ Max(S) \in S /\ \A y \in S : y <= Max(S)
<1> DEFINE below(z) == {e \in S : e <= z}
<1>0. S \subseteq Nat
  OBVIOUS
<1>1. Cardinality(S) \in Nat /\ Cardinality(S) # 0
  BY FS_CardinalityType, FS_EmptySet
<1>2. PICK low \in S, high \in S : Rank(S, low) = 1 /\ Rank(S, high) = Cardinality(S)
  BY <1>1, RankIs
<1>3. \A z : Rank(S, z) = Cardinality(below(z)) /\ below(z) \subseteq S
  BY DEF Rank
<1>4. low \in below(low)
  BY <1>0
<1>5. \A z, y : y \in below(z) <=> y \in S /\ y <= z
  OBVIOUS
<1> HIDE DEF below
<1>6. below(high) = S
  BY <1>2, <1>3, FS_Subset
<1>7. below(low) = {low}
  <2>1. IsFiniteSet(below(low)) /\ Cardinality(below(low)) = 1
    BY <1>2, <1>3, FS_Subset
  <2> QED BY <1>4, <2>1, FS_Singleton
<1>8. \A y \in S : y <= high
  BY <1>5, <1>6
<1>9. ASSUME NEW y \in S PROVE low <= y
  <2>1. y \in Nat /\ low \in Nat
    BY <1>0
  <2>2. y <= low => y = low
    BY <1>5, <1>7
  <2> QED BY <2>1, <2>2
<1> QED BY <1>8, <1>9 DEF Min, Max

\* The first place of some.
LEMMA LowestIs ==
  ASSUME NEW n \in Nat, NEW I, I \subseteq 1 .. n
  PROVE  (IF I # {} THEN Min(I) ELSE 0) \in 0 .. n
<1>1. IsFiniteSet(I) /\ I \in SUBSET Nat
  <2>1. IsFiniteSet(1 .. n) /\ 1 .. n \subseteq Nat
    BY FS_Interval
  <2> QED BY <2>1, FS_Subset
<1>2. CASE I # {}
  <2>1. Min(I) \in 1 .. n
    BY <1>1, <1>2, MinMaxIs
  <2> QED BY <1>2, <2>1
<1>3. CASE I = {}
  BY <1>3
<1> QED BY <1>2, <1>3

LEMMA OrderedIs ==
  ASSUME NEW S \in SUBSET Nat, IsFiniteSet(S)
  PROVE  IsSeq(Ordered(S)) /\ ToSet(Ordered(S)) \subseteq S
<1> DEFINE n == Cardinality(S)
           o == Ordered(S)
           at(k) == CHOOSE x \in S : Rank(S, x) = k
<1>1. n \in Nat /\ \A k \in 1 .. n : \E x \in S : Rank(S, x) = k
  BY RankIs
<1>2. \A k \in 1 .. n : at(k) \in S
  BY <1>1
<1>3. o = [k \in 1 .. n |-> at(k)]
  BY DEF Ordered
<1> HIDE DEF at, n, o
<1>4. o \in [1 .. n -> S]
  BY <1>2, <1>3
<1>5. o \in Seq(S) /\ \A k \in DOMAIN o : o[k] \in S
  BY <1>1, <1>4
<1> QED BY <1>5 DEF IsSeq, ToSet, o

LEMMA NamesIs == ASSUME NEW S, S \subseteq Names PROVE S \in SUBSET Nat /\ IsFiniteSet(S)
<1>1. MaxName \in Nat
  BY WorkspacesAssumption
<1>2. IsFiniteSet(Names) /\ Names \subseteq Nat
  BY <1>1, FS_Interval DEF Names
<1> QED BY <1>2, FS_Subset

LEMMA ChosenIs ==
  ASSUME NEW s, IsSeq(s), NEW I, I \subseteq DOMAIN s
  PROVE  /\ IsSeq(Chosen(s, I)) /\ Len(Chosen(s, I)) = Cardinality(I)
         /\ Cardinality(I) \in Nat
         /\ \A k \in 1 .. Cardinality(I) :
              \E i \in I : Chosen(s, I)[k] = s[i] /\ Rank(I, i) = k
<1> DEFINE n == Cardinality(I)
           c == Chosen(s, I)
           at(k) == CHOOSE i \in I : Rank(I, i) = k
<1>1. IsFiniteSet(I) /\ I \in SUBSET Nat
  BY SeqIs, FS_Subset
<1>2. n \in Nat /\ \A k \in 1 .. n : \E x \in I : Rank(I, x) = k
  BY <1>1, RankIs
<1>3. ASSUME NEW k \in 1 .. n PROVE at(k) \in I /\ Rank(I, at(k)) = k
  BY <1>2
<1>4. c = [k \in 1 .. n |-> s[at(k)]]
  BY DEF Chosen
<1> HIDE DEF at, n, c
<1>5. c \in [1 .. n -> {s[i] : i \in I}]
  BY <1>3, <1>4
<1>6. c \in Seq({s[i] : i \in I}) /\ Len(c) = n
  BY <1>2, <1>5
<1>7. \A k \in 1 .. n : c[k] = s[at(k)]
  BY <1>4
<1> QED BY <1>2, <1>3, <1>6, <1>7 DEF IsSeq, n, c

-----------------------------------------------------------------------------
\* The names of a registry, and what its states have.
Registry(ws) == DOMAIN ws \subseteq Names /\ \A n \in DOMAIN ws : "backing" \in DOMAIN ws[n]

LEMMA RegistryIs ==
  ASSUME NEW ws, Registry(ws)
  PROVE  /\ \A S : Registry(Without(ws, S))
         /\ \A over : Registry(over) => Registry(Over(over, ws))
         /\ \A n, b : Registry([ws EXCEPT ![n].backing = b])
         /\ \A prune : \A c \in Configs : Registry(SyncConfig(ws, c, prune))
<1>1. \A S : Registry(Without(ws, S))
  BY DEF Registry, Without
<1>2. \A over : Registry(over) => Registry(Over(over, ws))
  BY DEF Registry, Over
<1>3. \A n, b : Registry([ws EXCEPT ![n].backing = b])
  BY DEF Registry
<1>4. ASSUME NEW prune, NEW c \in Configs PROVE Registry(SyncConfig(ws, c, prune))
  <2> DEFINE new == SyncConfig(ws, c, prune)
  <2>1. DOMAIN c \subseteq Names
    BY WorkspacesAssumption
  <2>2. DOMAIN new \subseteq DOMAIN c \cup DOMAIN ws
    BY DEF SyncConfig
  <2>3. ASSUME NEW n \in DOMAIN new PROVE "backing" \in DOMAIN new[n]
    BY <2>3 DEF SyncConfig, Registry, NewState
  <2> HIDE DEF new
  <2> QED BY <2>1, <2>2, <2>3 DEF Registry, new
<1> QED BY <1>1, <1>2, <1>3, <1>4

\* A remap changes backings.
LEMMA RemapRegistry ==
  ASSUME NEW ws, Registry(ws), NEW order, NEW spaces
  PROVE  Registry(RemapAfterSnapshot(ws, order, spaces))
<1>1. ASSUME NEW moving, NEW slots PROVE Registry(Seated(ws, order, moving, slots))
  <2> DEFINE new == Seated(ws, order, moving, slots)
  <2>1. DOMAIN new = DOMAIN ws
    BY DEF Seated
  <2>2. ASSUME NEW n \in DOMAIN ws PROVE "backing" \in DOMAIN new[n]
    BY <2>2 DEF Seated, Registry
  <2> HIDE DEF new
  <2> QED BY <2>1, <2>2 DEF Registry, new
<1> QED BY <1>1 DEF RemapAfterSnapshot

\* The creation that is awaited is a workspace's.
Named(e) == e.awaited # None => "name" \in DOMAIN e.awaited

\* What a method does to the batch: it only appends, nothing it appends is a
\* destruction, and the reservations of destructions stay as they are.
Shaped(e) ==
  /\ DOMAIN e = Fields /\ IsSeq(e.out) /\ IsSeq(e.pendingNewSpace)
  /\ IsSeq(e.pendingCreations) /\ Named(e)
  /\ IsSeq(e.obs.order) /\ Registry(e.ws)

Kept(e, f) ==
  /\ Shaped(f) /\ f.obs = e.obs
  /\ f.pendingDestroy = e.pendingDestroy /\ f.topologyDestroy = e.topologyDestroy
  /\ Len(e.out) <= Len(f.out)
  /\ \A i \in 1 .. Len(e.out) : f.out[i] = e.out[i]
  /\ \A i \in Len(e.out) + 1 .. Len(f.out) : f.out[i].op # "destroy"

\* The fields that count are the same.
Same(e, f) ==
  /\ DOMAIN f = Fields /\ f.obs = e.obs /\ f.out = e.out
  /\ f.pendingNewSpace = e.pendingNewSpace /\ Registry(f.ws)
  /\ IsSeq(f.pendingCreations) /\ Named(f)
  /\ f.pendingDestroy = e.pendingDestroy /\ f.topologyDestroy = e.topologyDestroy

LEMMA SameKept == ASSUME NEW e, NEW f, Shaped(e), Same(e, f) PROVE Kept(e, f)
<1>1. Len(e.out) \in Nat
  BY SeqIs DEF Shaped
<1> QED BY <1>1 DEF Same, Kept, Shaped

LEMMA KeptTwice ==
  ASSUME NEW e, NEW f, NEW g, Shaped(e), Kept(e, f), Kept(f, g)
  PROVE  Kept(e, g)
<1>1. Len(e.out) \in Nat /\ Len(f.out) \in Nat /\ Len(g.out) \in Nat
  BY SeqIs DEF Shaped, Kept
<1>2. ASSUME NEW i \in 1 .. Len(e.out) PROVE g.out[i] = e.out[i]
  BY <1>1 DEF Kept
<1>3. ASSUME NEW i \in Len(e.out) + 1 .. Len(g.out) PROVE g.out[i].op # "destroy"
  <2>1. CASE i <= Len(f.out)
    <3>1. i \in 1 .. Len(f.out) /\ i \in Len(e.out) + 1 .. Len(f.out)
      BY <1>1, <2>1
    <3> QED BY <3>1 DEF Kept
  <2>2. CASE ~(i <= Len(f.out))
    <3>1. i \in Len(f.out) + 1 .. Len(g.out)
      BY <1>1, <2>2
    <3> QED BY <3>1 DEF Kept
  <2> QED BY <2>1, <2>2
<1>4. Len(e.out) <= Len(g.out)
  BY <1>1 DEF Kept
<1> QED BY <1>2, <1>3, <1>4 DEF Kept

LEMMA EmitKept ==
  ASSUME NEW e, NEW f, Shaped(e), Same(e, f), NEW a, a.op # "destroy"
  PROVE  Kept(e, Emit(f, a))
<1>1. IsSeq(e.out) /\ Len(e.out) \in Nat
  BY SeqIs DEF Shaped
<1>2. /\ IsSeq(Append(e.out, a)) /\ Len(Append(e.out, a)) = Len(e.out) + 1
      /\ Append(e.out, a)[Len(e.out) + 1] = a
      /\ \A i \in 1 .. Len(e.out) : Append(e.out, a)[i] = e.out[i]
  BY <1>1, AppendIs
<1>3. /\ DOMAIN Emit(f, a) = Fields /\ Emit(f, a).out = Append(e.out, a)
      /\ Emit(f, a).obs = e.obs /\ Emit(f, a).pendingNewSpace = e.pendingNewSpace
      /\ Emit(f, a).pendingDestroy = e.pendingDestroy
      /\ Emit(f, a).topologyDestroy = e.topologyDestroy
      /\ Registry(Emit(f, a).ws) /\ IsSeq(Emit(f, a).pendingCreations)
      /\ Named(Emit(f, a))
  BY DEF Emit, Same, Named, Fields
<1>4. ASSUME NEW i \in Len(e.out) + 1 .. Len(e.out) + 1
      PROVE  Append(e.out, a)[i].op # "destroy"
  <2>1. i = Len(e.out) + 1
    BY <1>1
  <2> QED BY <1>2, <2>1
<1>5. Len(e.out) <= Len(e.out) + 1
  BY <1>1
<1> QED BY <1>2, <1>3, <1>4, <1>5 DEF Kept, Shaped

LEMMA RemoveSame == ASSUME NEW e, NEW S, Shaped(e) PROVE Same(e, RemoveWorkspaces(e, S))
  BY RegistryIs DEF Shaped, Same, Named, RemoveWorkspaces, Fields

LEMMA ClearStaleSame == ASSUME NEW e, NEW n, Shaped(e) PROVE Same(e, ClearStaleBacking(e, n))
  BY RegistryIs DEF Shaped, Same, Named, ClearStaleBacking, Fields

LEMMA ReserveSame == ASSUME NEW e, Shaped(e) PROVE Same(e, ReserveLogicalOrder(e))
  BY DEF Shaped, Same, Named, ReserveLogicalOrder, Fields

LEMMA TryStartKept == ASSUME NEW e, Shaped(e) PROVE Kept(e, TryStartNextPendingCreation(e))
<1> DEFINE q == e.pendingCreations
           rest(k) == [e EXCEPT !.pendingCreations = SubSeq(q, k, Len(q))]
           wait(k, n) == [rest(k) EXCEPT !.awaited =
                            [name |-> n, before |-> Observed(e), uncertain |-> FALSE]]
           lives(n) == n \in DOMAIN e.ws /\ Active(e.ws[n]) = None
           gated(n) == ~e.capable /\ n \in DOMAIN e.ws /\ e.ws[n].persistent
           I == {j \in 1 .. Len(q) : lives(q[j]) \/ gated(q[j])}
           i == IF I # {} THEN Min(I) ELSE 0
<1>1. Len(q) \in Nat /\ IsSeq(q)
  BY SeqIs DEF Shaped
<1>2. \/ TryStartNextPendingCreation(e) \in {e, rest(Len(q) + 1)}
      \/ i # 0 /\ TryStartNextPendingCreation(e) = rest(i)
      \/ i # 0 /\ \E n : TryStartNextPendingCreation(e) = Emit(wait(i + 1, n), Create(n))
  BY Zenon DEF TryStartNextPendingCreation, SelectInSeq
<1>3. i \in 0 .. Len(q)
  <2>1. I \subseteq 1 .. Len(q)
    OBVIOUS
  <2> HIDE DEF I
  <2> QED BY <1>1, <2>1, LowestIs
<1> HIDE DEF i
<1>4. \A k \in 1 .. Len(q) + 1 : IsSeq(SubSeq(q, k, Len(q)))
  <2> HIDE DEF q
  <2>1. ASSUME NEW k \in 1 .. Len(q) + 1 PROVE IsSeq(SubSeq(q, k, Len(q)))
    <3>1. k \in Nat /\ 1 <= k
      BY <1>1
    <3> QED BY <1>1, <3>1, PartIs
  <2> QED BY <2>1
<1>5. \A k \in 1 .. Len(q) + 1 : \A n : Same(e, rest(k)) /\ Same(e, wait(k, n))
  BY <1>4 DEF Shaped, Same, Named, Fields
<1>6. Same(e, e)
  BY DEF Shaped, Same
<1>7. /\ Len(q) + 1 \in 1 .. Len(q) + 1
      /\ i # 0 => i \in 1 .. Len(q) + 1 /\ i + 1 \in 1 .. Len(q) + 1
  BY <1>1, <1>3
<1>8. \A n : Create(n).op # "destroy"
  BY DEF Create
<1> HIDE DEF rest, wait, q
<1> QED BY <1>2, <1>5, <1>6, <1>7, <1>8, SameKept, EmitKept

LEMMA BindKept ==
  ASSUME NEW e, NEW late, Shaped(e)
  PROVE  Kept(e, BindAwaitedDynamicSpaces(e, late))
<1>1. Same(e, ReleaseAwaited(e))
  <2> DEFINE released == [e EXCEPT !.awaited = None]
  <2>1. Shaped(released) /\ Same(e, released)
    BY DEF Shaped, Same, Named, Fields
  <2>2. ReleaseAwaited(e) \in {released, RemoveWorkspaces(released, {e.awaited.name})}
    BY DEF ReleaseAwaited
  <2> HIDE DEF released
  <2> QED BY <2>1, <2>2, RemoveSame DEF Same
<1> DEFINE freed == [e EXCEPT !.awaited = None]
           unsure == [e EXCEPT !.awaited.uncertain = @ \/ "creation" \in late]
           bound(n, s) == [e EXCEPT !.awaited = None,
                                    !.ws[n].backing = Normal(s),
                                    !.external = Without(@, {s}),
                                    !.grace = @ \cup {n}]
<1>2. \/ BindAwaitedDynamicSpaces(e, late) \in {e, ReleaseAwaited(e), freed}
      \/ e.awaited # None /\ BindAwaitedDynamicSpaces(e, late) = unsure
      \/ \E n, s : BindAwaitedDynamicSpaces(e, late) = ReserveLogicalOrder(bound(n, s))
  BY Zenon DEF BindAwaitedDynamicSpaces
<1>3. Same(e, e) /\ Same(e, freed) /\ (e.awaited # None => Same(e, unsure))
  BY DEF Shaped, Same, Named, Fields
<1>4. \A n, s : Shaped(bound(n, s)) /\ Same(e, bound(n, s))
  BY RegistryIs DEF Shaped, Same, Named, Fields
<1> HIDE DEF freed, unsure, bound
<1>5. \A n, s : Same(e, ReserveLogicalOrder(bound(n, s)))
  BY <1>4, ReserveSame DEF Same
<1> QED BY <1>1, <1>2, <1>3, <1>5, SameKept

LEMMA PlacementKept ==
  ASSUME NEW e, NEW late, Shaped(e)
  PROVE  Kept(e, ReconcilePlacement(e, late))
<1> DEFINE freed == [e EXCEPT !.placement = None]
           asked == [e EXCEPT !.placement.asked = TRUE]
<1>1. Same(e, e) /\ Same(e, freed) /\ Same(e, asked)
  BY DEF Shaped, Same, Named, Fields
<1>2. \/ ReconcilePlacement(e, late) \in {e, freed}
      \/ \E s, t : ReconcilePlacement(e, late) = Emit(asked, MoveAfter(s, t))
  BY Zenon DEF ReconcilePlacement
<1>3. \A s, t : MoveAfter(s, t).op # "destroy"
  BY DEF MoveAfter
<1> HIDE DEF freed, asked
<1> QED BY <1>1, <1>2, <1>3, SameKept, EmitKept

LEMMA FullscreenKept ==
  ASSUME NEW e, NEW was, Shaped(e)
  PROVE  Kept(e, ReconcileFullscreen(e, was))
<1>1. ASSUME NEW ws, NEW grace, Registry(ws)
      PROVE  LET f == [e EXCEPT !.ws = ws, !.grace = grace]
             IN  Shaped(f) /\ Same(e, f) /\ Same(e, ReserveLogicalOrder(f))
  <2> DEFINE f == [e EXCEPT !.ws = ws, !.grace = grace]
  <2>1. Shaped(f) /\ Same(e, f)
    BY <1>1 DEF Shaped, Same, Named, Fields
  <2> HIDE DEF f
  <2>2. Same(e, ReserveLogicalOrder(f))
    BY <2>1, ReserveSame DEF Same
  <2> QED BY <2>1, <2>2 DEF f
<1>2. \E ws, grace : /\ Registry(ws)
                     /\ ReconcileFullscreen(e, was) \in
                          {[e EXCEPT !.ws = ws, !.grace = grace],
                           ReserveLogicalOrder([e EXCEPT !.ws = ws, !.grace = grace])}
  BY DEF ReconcileFullscreen, Shaped, Registry, Fields
<1>3. Same(e, ReconcileFullscreen(e, was))
  <2> DEFINE f(ws, grace) == [e EXCEPT !.ws = ws, !.grace = grace]
  <2>1. PICK ws, grace : /\ Registry(ws)
                         /\ ReconcileFullscreen(e, was) \in
                              {f(ws, grace), ReserveLogicalOrder(f(ws, grace))}
    BY <1>2
  <2>2. Same(e, f(ws, grace)) /\ Same(e, ReserveLogicalOrder(f(ws, grace)))
    BY <1>1, <2>1
  <2> HIDE DEF f
  <2> QED BY <2>1, <2>2
<1> QED BY <1>3, SameKept

LEMMA NoteKept == ASSUME NEW e, Shaped(e) PROVE Kept(e, NoteWindowSpaces(e))
<1>1. Same(e, NoteWindowSpaces(e))
  BY DEF NoteWindowSpaces, Shaped, Same, Named, Fields
<1> QED BY <1>1, SameKept

LEMMA RemapSame == ASSUME NEW e, Shaped(e) PROVE Same(e, RemapSlots(e))
<1> DEFINE new(W, slots) ==
             Over(RemapAfterSnapshot(Without(e.ws, W), e.obs.order, slots), e.ws)
           f(ws) == [e EXCEPT !.ws = ws]
<1>1. \A W, slots : Registry(new(W, slots))
  BY RegistryIs, RemapRegistry DEF Shaped
<1>2. \A ws : Registry(ws) => Same(e, f(ws))
  BY DEF Shaped, Same, Named, Fields
<1>3. RemapSlots(e) = e \/ \E W, slots : RemapSlots(e) = f(new(W, slots))
  BY DEF RemapSlots
<1>4. Same(e, e)
  BY DEF Shaped, Same
<1> HIDE DEF new, f
<1> QED BY <1>1, <1>2, <1>3, <1>4

LEMMA RemapKept == ASSUME NEW e, Shaped(e) PROVE Kept(e, RemapSlots(e))
  BY RemapSame, SameKept

LEMMA GraceKept == ASSUME NEW e, Shaped(e) PROVE Kept(e, GraceUnclaimed(e))
<1>1. Same(e, GraceUnclaimed(e))
  BY DEF GraceUnclaimed, Shaped, Same, Named, Fields
<1> QED BY <1>1, SameKept

LEMMA AdoptSame == ASSUME NEW e, Shaped(e) PROVE Same(e, AdoptSpaces(e))
<1> DEFINE order == e.obs.order
           used(s) == s \in DOMAIN e.external /\ (s = e.obs.focus \/ s \in Occupied(e))
           places == {i \in DOMAIN order : used(order[i])}
           adopt == Chosen(order, places)
           last == IF DOMAIN e.ws = {} THEN 0 ELSE Max(DOMAIN e.ws)
           fit == {i \in DOMAIN adopt : last + i <= MaxName}
           names == {last + i : i \in fit}
<1>1. MaxName \in Nat
  BY WorkspacesAssumption
<1>2. last \in Nat
  <2>1. DOMAIN e.ws \in SUBSET Nat /\ IsFiniteSet(DOMAIN e.ws)
    <3>1. DOMAIN e.ws \subseteq 1 .. MaxName
      BY DEF Shaped, Registry, Names
    <3>2. IsFiniteSet(1 .. MaxName) /\ 1 .. MaxName \subseteq Nat
      BY <1>1, FS_Interval
    <3> QED BY <3>1, <3>2, FS_Subset
  <2> QED BY <2>1, MinMaxIs
<1>3. DOMAIN adopt \subseteq Nat \ {0}
  <2>1. places \subseteq DOMAIN order
    OBVIOUS
  <2>2. IsSeq(order)
    BY DEF Shaped
  <2> HIDE DEF places, order
  <2> QED BY <2>1, <2>2, ChosenIs, SeqIs
<1> HIDE DEF last, adopt
<1>4. names \subseteq Names
  BY <1>1, <1>2, <1>3 DEF Names
<1>5. /\ DOMAIN AdoptSpaces(e).ws = names \cup DOMAIN e.ws
      /\ DOMAIN AdoptSpaces(e) = Fields
  BY DEF AdoptSpaces, Over, Shaped, Fields, last, adopt
<1>6. /\ AdoptSpaces(e).obs = e.obs /\ AdoptSpaces(e).out = e.out
      /\ AdoptSpaces(e).pendingNewSpace = e.pendingNewSpace
      /\ AdoptSpaces(e).pendingDestroy = e.pendingDestroy
      /\ AdoptSpaces(e).topologyDestroy = e.topologyDestroy
      /\ AdoptSpaces(e).pendingCreations = e.pendingCreations
      /\ Named(AdoptSpaces(e))
  BY DEF AdoptSpaces, Shaped, Named, Fields
<1>7. ASSUME NEW n \in names \cup DOMAIN e.ws PROVE "backing" \in DOMAIN AdoptSpaces(e).ws[n]
  BY <1>7 DEF AdoptSpaces, Over, NewState, Shaped, Registry, Fields, last, adopt
<1>8. Registry(AdoptSpaces(e).ws)
  BY <1>4, <1>5, <1>7 DEF Registry, Shaped
<1> QED BY <1>5, <1>6, <1>8 DEF Same, Shaped

LEMMA ExternalKept == ASSUME NEW e, Shaped(e) PROVE Kept(e, ObserveExternalSpaces(e))
<1>1. \A f : Shaped(f) => Same(f, GraceUnclaimed(f)) /\ Same(f, AdoptSpaces(f))
  <2>1. \A f : Shaped(f) => Same(f, GraceUnclaimed(f))
    BY DEF GraceUnclaimed, Shaped, Same, Named, Fields
  <2> QED BY <2>1, AdoptSame
<1> DEFINE first == [e EXCEPT !.external = Without(@, DOMAIN @ \ (Observed(e) \ Claimed(e.ws)))]
           begun == [first EXCEPT !.initialized = TRUE]
<1>2. /\ Same(e, begun) /\ Same(e, first) /\ Shaped(first)
  BY DEF Shaped, Same, Named, Fields
<1>3. ObserveExternalSpaces(e) \in
        {begun, GraceUnclaimed(first), AdoptSpaces(GraceUnclaimed(first))}
  BY DEF ObserveExternalSpaces
<1> HIDE DEF first, begun
<1>4. Kept(e, begun) /\ Kept(e, first)
  BY <1>2, SameKept
<1>5. Kept(first, GraceUnclaimed(first)) /\ Shaped(GraceUnclaimed(first))
  BY <1>1, <1>2, SameKept DEF Kept
<1>6. Kept(GraceUnclaimed(first), AdoptSpaces(GraceUnclaimed(first)))
  BY <1>1, <1>5, SameKept
<1> QED BY <1>3, <1>4, <1>5, <1>6, KeptTwice

LEMMA RetireKept ==
  ASSUME NEW e, NEW reset, Shaped(e)
  PROVE  Kept(e, RetireVanished(e, reset))
<1> DEFINE vanished == {n \in DOMAIN e.ws : Active(e.ws[n]) \notin Observed(e) \cup {None}}
           lost == {n \in vanished : e.ws[n].persistent}
           queue == Ordered(lost \ ToSet(e.pendingCreations))
           e1 == RemoveWorkspaces(e, vanished \ lost)
           cleared == [e1 EXCEPT !.ws = [n \in DOMAIN @ |->
                         IF n \in lost THEN [@[n] EXCEPT !.backing = None] ELSE @[n]]]
           f == [cleared EXCEPT !.pendingCreations = @ \o queue]
<1>2. RetireVanished(e, reset) \in {e, f}
  BY DEF RetireVanished
<1>3. IsSeq(e.pendingCreations \o queue)
  <2>1. lost \ ToSet(e.pendingCreations) \subseteq Names
    BY DEF Shaped, Registry
  <2> HIDE DEF lost
  <2>2. IsSeq(queue)
    BY <2>1, NamesIs, OrderedIs
  <2> HIDE DEF queue
  <2> QED BY <2>2, ConcatIs DEF Shaped
<1>4. Same(e, e1) /\ e1.pendingCreations = e.pendingCreations
  <2> DEFINE gone == vanished \ lost
  <2> HIDE DEF gone
  <2>1. Same(e, RemoveWorkspaces(e, gone))
    BY RemoveSame
  <2>2. RemoveWorkspaces(e, gone).pendingCreations = e.pendingCreations
    BY DEF RemoveWorkspaces, Shaped, Fields
  <2> QED BY <2>1, <2>2 DEF gone
<1> HIDE DEF e1, lost, queue
<1>5. Same(e, cleared) /\ cleared.pendingCreations = e.pendingCreations
  BY <1>4 DEF Same, Registry, Named, Fields
<1> HIDE DEF cleared
<1>6. Same(e, f)
  BY <1>3, <1>5 DEF Same, Named, Fields
<1> HIDE DEF f
<1>1. Same(e, RetireVanished(e, reset))
  BY <1>2, <1>6 DEF Same, Shaped
<1> QED BY <1>1, SameKept

LEMMA MissingKept == ASSUME NEW e, Shaped(e) PROVE Kept(e, RequestMissing(e))
<1> DEFINE missing == EnsurePersistent(e.ws) \ Waiting(e)
<1>1. Same(e, RequestMissing(e))
  <2>1. missing \subseteq Names
    BY DEF Shaped, Registry, EnsurePersistent
  <2>2. IsSeq(Ordered(missing))
    <3> HIDE DEF missing
    <3> QED BY <2>1, NamesIs, OrderedIs
  <2>3. IsSeq(e.pendingCreations \o Ordered(missing))
    <3> DEFINE more == Ordered(missing)
    <3> HIDE DEF more
    <3> QED BY <2>2, ConcatIs DEF Shaped, more
  <2> QED BY <2>3 DEF RequestMissing, Shaped, Same, Named, Fields
<1> QED BY <1>1, SameKept

LEMMA IntentsKept ==
  ASSUME NEW e, Shaped(e)
  PROVE  Kept(e, FulfillPendingWorkspaceActions(e))
<1>1. ASSUME NEW f, Shaped(f) PROVE Kept(f, FulfillPendingFocus(f))
  <2> DEFINE n == Head(f.pendingFocus)
             popped == [f EXCEPT !.pendingFocus = Tail(@)]
             kept == [popped EXCEPT !.grace = @ \cup {n}]
  <2>1. Same(f, f) /\ Same(f, popped) /\ Same(f, kept)
    BY <1>1 DEF Shaped, Same, Named, Fields
  <2>2. FulfillPendingFocus(f) \in {f, popped, Emit(kept, Focus(BackingFor(f.ws, n)))}
    BY DEF FulfillPendingFocus
  <2>3. Focus(BackingFor(f.ws, n)).op # "destroy"
    BY DEF Focus
  <2> HIDE DEF popped, kept
  <2> QED BY <1>1, <2>1, <2>2, <2>3, SameKept, EmitKept
<1>2. ASSUME NEW f, Shaped(f) PROVE Kept(f, FulfillPendingMove(f))
  <2> DEFINE m == Head(f.pendingMove)
             popped == [f EXCEPT !.pendingMove = Tail(@)]
             kept == [popped EXCEPT !.grace = @ \cup {m.name}]
             sent == MoveWindow(m.window, BackingFor(f.ws, m.name))
  <2>1. Same(f, f) /\ Same(f, popped) /\ Same(f, kept)
    BY <1>2 DEF Shaped, Same, Named, Fields
  <2>2. FulfillPendingMove(f) \in {f, popped, kept, Emit(kept, sent)}
    BY DEF FulfillPendingMove
  <2>3. sent.op # "destroy"
    BY DEF MoveWindow
  <2> HIDE DEF popped, kept, sent
  <2> QED BY <1>2, <2>1, <2>2, <2>3, SameKept, EmitKept
<1>3. Same(e, e)
  BY DEF Same, Shaped
<1>4. Kept(e, FulfillPendingFocus(e)) /\ Shaped(FulfillPendingFocus(e))
  BY <1>1 DEF Kept
<1>5. Kept(e, FulfillPendingMove(FulfillPendingFocus(e)))
  BY <1>2, <1>4, KeptTwice
<1> QED BY <1>3, <1>5, SameKept DEF FulfillPendingWorkspaceActions

\* The windows that asked for a new Space get it, with the focus.
LEMMA NewSpaceKept ==
  ASSUME NEW e, NEW late, Shaped(e)
  PROVE  Kept(e, FulfillPendingNewSpaceMoves(e, late))
<1> DEFINE timely == IF "newspace" \in late THEN Tail(e.pendingNewSpace)
                     ELSE e.pendingNewSpace
           sends == Sends(timely, GivenSpaces(e, timely))
           sent == {i \in DOMAIN sends : sends[i].space # None}
           waits == {j \in DOMAIN timely :
                       e.obs.at[timely[j].window] # None /\ GivenSpaces(e, timely)[j] = None}
           batch == Chosen(sends, sent)
           f == [e EXCEPT !.out = @ \o batch, !.pendingNewSpace = Chosen(timely, waits)]
<1>1. /\ FulfillPendingNewSpaceMoves(e, late) \in {e, f}
      /\ FulfillPendingNewSpaceMoves(e, late) # e => e.pendingNewSpace # <<>>
  BY DEF FulfillPendingNewSpaceMoves
<1>2. Same(e, e)
  BY DEF Same, Shaped
<1>3. ASSUME e.pendingNewSpace # <<>> PROVE Kept(e, f)
  <2>1. IsSeq(timely)
    BY <1>3, TailIs DEF Shaped
  <2>2. Len(timely) \in Nat
    BY <2>1, SeqIs
  <2>3. /\ IsSeq(sends) /\ DOMAIN sends = 1 .. 2 * Len(timely)
        /\ \A i \in DOMAIN sends : sends[i].op # "destroy"
    <3> DEFINE n == 2 * Len(timely)
    <3>0. n \in Nat
      BY <2>2
    <3> HIDE DEF timely, n
    <3>1. DOMAIN sends = 1 .. n
      BY DEF Sends, n
    <3>2. ASSUME NEW i \in 1 .. n PROVE sends[i].op # "destroy"
      BY <3>2 DEF Sends, n, MoveWindow, Focus
    <3>3. sends = [i \in 1 .. n |-> sends[i]]
      BY DEF Sends, n
    <3> HIDE DEF sends
    <3>4. sends \in Seq({sends[i] : i \in 1 .. n})
      BY <3>0, <3>3
    <3> QED BY <3>1, <3>2, <3>4 DEF IsSeq, n
  <2> HIDE DEF timely, sends
  <2>4. /\ IsSeq(batch) /\ Len(batch) = Cardinality(sent)
        /\ \A k \in 1 .. Cardinality(sent) : \E i \in sent : batch[k] = sends[i]
    <3>1. sent \subseteq DOMAIN sends
      OBVIOUS
    <3> HIDE DEF sent
    <3> QED BY <2>3, <3>1, ChosenIs
  <2>5. IsSeq(Chosen(timely, waits))
    <3>1. waits \subseteq DOMAIN timely
      OBVIOUS
    <3> HIDE DEF waits
    <3> QED BY <2>1, <3>1, ChosenIs
  <2>6. \A k \in 1 .. Len(batch) : batch[k].op # "destroy"
    BY <2>3, <2>4
  <2> HIDE DEF batch, waits, sent
  <2>7. /\ f.out = e.out \o batch /\ DOMAIN f = Fields /\ f.obs = e.obs
        /\ f.pendingNewSpace = Chosen(timely, waits)
        /\ f.pendingDestroy = e.pendingDestroy /\ f.topologyDestroy = e.topologyDestroy
        /\ f.ws = e.ws /\ f.pendingCreations = e.pendingCreations /\ Named(f)
    BY DEF Shaped, Named, Fields
  <2>8. /\ IsSeq(e.out) /\ Len(e.out) \in Nat /\ Len(batch) \in Nat
    BY <2>4, SeqIs DEF Shaped
  <2> HIDE DEF f
  <2>9. /\ IsSeq(f.out) /\ Len(f.out) = Len(e.out) + Len(batch)
        /\ \A i \in 1 .. Len(e.out) : f.out[i] = e.out[i]
        /\ \A i \in 1 .. Len(batch) : f.out[Len(e.out) + i] = batch[i]
    <3>1. PICK s, t : s = e.out /\ t = batch
      OBVIOUS
    <3>2. IsSeq(s) /\ IsSeq(t)
      BY <2>4, <2>8, <3>1
    <3>3. /\ IsSeq(s \o t) /\ Len(s \o t) = Len(s) + Len(t)
          /\ \A i \in 1 .. Len(s) : (s \o t)[i] = s[i]
          /\ \A i \in 1 .. Len(t) : (s \o t)[Len(s) + i] = t[i]
      BY <3>2, ConcatIs
    <3>4. f.out = s \o t
      BY <2>7, <3>1
    <3> QED BY <3>1, <3>3, <3>4
  <2>10. ASSUME NEW i \in Len(e.out) + 1 .. Len(f.out) PROVE f.out[i].op # "destroy"
    <3>1. i - Len(e.out) \in 1 .. Len(batch) /\ Len(e.out) + (i - Len(e.out)) = i
      BY <2>8, <2>9
    <3>2. f.out[Len(e.out) + (i - Len(e.out))] = batch[i - Len(e.out)]
      BY <2>9, <3>1
    <3> QED BY <2>6, <3>1, <3>2
  <2>11. Len(e.out) <= Len(f.out)
    BY <2>8, <2>9
  <2> QED BY <2>5, <2>7, <2>9, <2>10, <2>11 DEF Kept, Shaped
<1> HIDE DEF f
<1> QED BY <1>1, <1>2, <1>3, SameKept

-----------------------------------------------------------------------------
\* The two destructions, which only an unreserved engine decides.

\* A Space nobody is on, and not the last.
Spare(e, s) ==
  /\ s \in Ordinary(e) /\ s # e.obs.focus /\ s \notin Occupied(e) /\ Ordinary(e) # {s}

\* The Spaces with a destruction reserved.
Reserving(e) == {d.space : d \in e.pendingDestroy} \cup ({e.topologyDestroy} \ {None})

\* The batch has one destruction, the one that is reserved.
Destroying(e) ==
  /\ Shaped(e)
  /\ \E d \in DOMAIN e.out :
       /\ e.out[d].op = "destroy" /\ e.out[d].arg = None
       /\ Reserving(e) = {e.out[d].space} /\ Spare(e, e.out[d].space)
       /\ \A i \in DOMAIN e.out : e.out[i].op = "destroy" => i = d

\* The batch has none.
Plain(e) == Shaped(e) /\ \A i \in DOMAIN e.out : e.out[i].op # "destroy"

\* A destruction the engine decided.
Own(a) == a.op = "destroy" /\ a.arg = None

\* Why: no workspace claims the Space, or a volatile one dies with it.
Reason(e, s) ==
  \/ s \notin Claimed(e.ws)
  \/ \E n \in DOMAIN e.ws :
       /\ IsNormal(e.ws[n]) /\ Active(e.ws[n]) = s /\ ~e.ws[n].persistent
       /\ [space |-> s, name |-> n] \in e.pendingDestroy

Reasoned(e) == \A d \in DOMAIN e.out : Own(e.out[d]) => Reason(e, e.out[d].space)

LEMMA PlainReasoned == ASSUME NEW e, Plain(e) PROVE Reasoned(e)
  BY DEF Plain, Reasoned, Own

LEMMA DestroyingReasoned ==
  ASSUME NEW e, Destroying(e), NEW s, Reserving(e) = {s}, Reason(e, s)
  PROVE  Reasoned(e)
<1>1. PICK d \in DOMAIN e.out :
       /\ Reserving(e) = {e.out[d].space}
       /\ \A i \in DOMAIN e.out : e.out[i].op = "destroy" => i = d
  BY DEF Destroying
<1>2. e.out[d].space = s
  BY <1>1
<1> QED BY <1>1, <1>2 DEF Reasoned, Own

LEMMA KeptReasoned ==
  ASSUME NEW e, NEW f, Shaped(e), Reasoned(e), Kept(e, f), f.ws = e.ws
  PROVE  Reasoned(f)
<1>1. /\ Len(e.out) \in Nat /\ DOMAIN e.out = 1 .. Len(e.out)
      /\ Len(f.out) \in Nat /\ DOMAIN f.out = 1 .. Len(f.out) /\ Len(e.out) <= Len(f.out)
  BY SeqIs DEF Shaped, Kept
<1>2. ASSUME NEW d \in DOMAIN f.out, Own(f.out[d]) PROVE d \in DOMAIN e.out /\ f.out[d] = e.out[d]
  <2>1. d \in 1 .. Len(e.out) \/ d \in Len(e.out) + 1 .. Len(f.out)
    BY <1>1
  <2> QED BY <1>1, <1>2, <2>1 DEF Kept, Own
<1>3. \A s : Reason(e, s) => Reason(f, s)
  BY DEF Reason, Kept
<1> QED BY <1>2, <1>3 DEF Reasoned

LEMMA KeptPlain == ASSUME NEW e, NEW f, Plain(e), Kept(e, f) PROVE Plain(f) /\ Reserving(f) = Reserving(e)
<1>1. /\ Len(e.out) \in Nat /\ DOMAIN e.out = 1 .. Len(e.out)
      /\ Len(f.out) \in Nat /\ DOMAIN f.out = 1 .. Len(f.out)
  BY SeqIs DEF Plain, Shaped, Kept
<1>2. ASSUME NEW i \in DOMAIN f.out PROVE f.out[i].op # "destroy"
  <2>1. i \in 1 .. Len(e.out) \/ i \in Len(e.out) + 1 .. Len(f.out)
    BY <1>1
  <2> QED BY <1>1, <2>1 DEF Kept, Plain
<1> QED BY <1>2 DEF Plain, Kept, Reserving

LEMMA KeptDestroying ==
  ASSUME NEW e, NEW f, Destroying(e), Kept(e, f)
  PROVE  Destroying(f)
<1>1. PICK d \in DOMAIN e.out :
       /\ e.out[d].op = "destroy" /\ e.out[d].arg = None
       /\ Reserving(e) = {e.out[d].space} /\ Spare(e, e.out[d].space)
       /\ \A i \in DOMAIN e.out : e.out[i].op = "destroy" => i = d
  BY DEF Destroying
<1>2. /\ Len(e.out) \in Nat /\ DOMAIN e.out = 1 .. Len(e.out)
      /\ Len(f.out) \in Nat /\ DOMAIN f.out = 1 .. Len(f.out) /\ Len(e.out) <= Len(f.out)
  BY SeqIs DEF Destroying, Shaped, Kept
<1>3. d \in DOMAIN f.out /\ f.out[d] = e.out[d]
  BY <1>2 DEF Kept
<1>4. ASSUME NEW i \in DOMAIN f.out, f.out[i].op = "destroy" PROVE i = d
  <2>1. i \in 1 .. Len(e.out) \/ i \in Len(e.out) + 1 .. Len(f.out)
    BY <1>2
  <2> QED BY <1>1, <1>2, <1>4, <2>1 DEF Kept
<1>5. Reserving(f) = Reserving(e) /\ \A s : Spare(e, s) => Spare(f, s)
  BY DEF Kept, Reserving, Spare, Ordinary, Observed, Occupied
<1> QED BY <1>1, <1>3, <1>4, <1>5 DEF Destroying, Kept
\* e decides nothing, or its first destruction.
Decides(e, f) ==
  /\ f.obs = e.obs /\ Reasoned(f)
  /\ \/ Plain(f) /\ Reserving(f) = Reserving(e)
     \/ Reserving(e) = {} /\ Destroying(f)

LEMMA EmitDestroying ==
  ASSUME NEW e, NEW f, NEW s, Plain(e), DOMAIN f = Fields, f.out = e.out, f.obs = e.obs,
         f.pendingNewSpace = e.pendingNewSpace, Registry(f.ws),
         IsSeq(f.pendingCreations), Named(f),
         Reserving(f) = {s}, Spare(e, s), Reason(f, s)
  PROVE  /\ Destroying(Emit(f, Destroy(s))) /\ Emit(f, Destroy(s)).obs = e.obs
         /\ Reasoned(Emit(f, Destroy(s)))
<1> DEFINE g == Emit(f, Destroy(s))
           a == Destroy(s)
<1>1. /\ DOMAIN g = Fields /\ g.out = Append(e.out, a) /\ g.obs = e.obs
      /\ g.pendingNewSpace = e.pendingNewSpace /\ g.ws = f.ws
      /\ g.pendingCreations = f.pendingCreations
      /\ g.pendingDestroy = f.pendingDestroy /\ g.topologyDestroy = f.topologyDestroy
      /\ g.awaited = f.awaited
  BY DEF Emit, Fields
<1>2. a.op = "destroy" /\ a.arg = None /\ a.space = s
  BY DEF Destroy
<1> HIDE DEF g, a
<1>3. IsSeq(e.out) /\ Len(e.out) \in Nat
  BY SeqIs DEF Plain, Shaped
<1>4. /\ IsSeq(g.out) /\ Len(g.out) = Len(e.out) + 1 /\ g.out[Len(e.out) + 1] = a
      /\ \A i \in 1 .. Len(e.out) : g.out[i] = e.out[i]
  BY <1>1, <1>3, AppendIs
<1>5. DOMAIN g.out = 1 .. Len(e.out) + 1 /\ DOMAIN e.out = 1 .. Len(e.out)
  BY <1>3, <1>4, SeqIs
<1>6. ASSUME NEW i \in DOMAIN g.out, g.out[i].op = "destroy" PROVE i = Len(e.out) + 1
  <2>1. i \in 1 .. Len(e.out) \/ i = Len(e.out) + 1
    BY <1>3, <1>5
  <2> QED BY <1>4, <1>5, <1>6, <2>1 DEF Plain
<1>7. Len(e.out) + 1 \in DOMAIN g.out
  BY <1>3, <1>5
<1>8. Reserving(g) = {s} /\ Spare(g, s) /\ Shaped(g)
  <2>1. Reserving(g) = {s} /\ Spare(g, s)
    BY <1>1 DEF Reserving, Spare, Ordinary, Observed, Occupied
  <2> QED BY <1>1, <1>4, <2>1 DEF Named, Shaped, Plain
<1>9. Destroying(g) /\ g.obs = e.obs
  <2>1. g.out[Len(e.out) + 1] = a
    BY <1>4
  <2> QED BY <1>1, <1>2, <1>6, <1>7, <1>8, <2>1 DEF Destroying
<1>10. Reason(g, s)
  BY <1>1 DEF Reason
<1>11. Reasoned(g)
  BY <1>8, <1>9, <1>10, DestroyingReasoned
<1> QED BY <1>9, <1>11 DEF g, a

\* Nothing is reserved, so the engine may decide a destruction.
LEMMA UnreservedIs == ASSUME NEW e, ~Reserved(e) PROVE Reserving(e) = {}
  BY DEF Reserved, Reserving

LEMMA AloneIs ==
  ASSUME NEW e, NEW s, ~(Cardinality(Ordinary(e)) <= 1)
  PROVE  Ordinary(e) # {s}
<1>1. Cardinality({s}) = 1
  BY FS_Singleton
<1> QED BY <1>1

LEMMA DestroyEmptyDecides ==
  ASSUME NEW e, NEW moved, Plain(e)
  PROVE  Decides(e, DestroyEmptyDynamicWorkspaces(e, moved))
<1> DEFINE idle == {n \in DOMAIN e.ws : Idle(e, n, moved)}
           empty == {n \in idle : Empty(e, Active(e.ws[n]))}
           only == Cardinality(Ordinary(e)) <= 1
           stale == {n \in idle : e.ws[n].dynamic /\ Active(e.ws[n]) \notin Observed(e)}
                    \cup (IF only THEN empty ELSE {})
           n == Min(empty)
           s == Active(e.ws[n])
           f == DestroyEmptyDynamicWorkspaces(e, moved)
           reserve(g) == [g EXCEPT !.pendingDestroy = @ \cup {[space |-> s, name |-> n]}]
<1>1. \/ f = e
      \/ \E S : f = RemoveWorkspaces(e, S)
      \/ /\ ~Reserved(e) /\ empty # {} /\ ~only
         /\ f = Emit(reserve(RemoveWorkspaces(e, stale)), Destroy(s))
  BY Zenon DEF DestroyEmptyDynamicWorkspaces
<1>2. Shaped(e) /\ Same(e, e)
  BY DEF Plain, Shaped, Same
<1>3. CASE f = e \/ \E S : f = RemoveWorkspaces(e, S)
  <2>1. Same(e, f)
    BY <1>2, <1>3, RemoveSame
  <2>2. Kept(e, f)
    BY <1>2, <2>1, SameKept
  <2> HIDE DEF f
  <2>3. Plain(f) /\ Reserving(f) = Reserving(e) /\ f.obs = e.obs
    BY <2>2, KeptPlain DEF Kept
  <2> QED BY <2>3, PlainReasoned DEF Decides, f
<1>4. CASE /\ ~Reserved(e) /\ empty # {} /\ ~only
           /\ f = Emit(reserve(RemoveWorkspaces(e, stale)), Destroy(s))
  <2>1. n \in empty
    <3>1. empty \in SUBSET Nat /\ IsFiniteSet(empty)
      <4>1. empty \subseteq 1 .. MaxName
        BY <1>2 DEF Shaped, Registry, Names
      <4>2. IsFiniteSet(1 .. MaxName) /\ 1 .. MaxName \subseteq Nat
        <5>1. MaxName \in Nat
          BY WorkspacesAssumption
        <5> QED BY <5>1, FS_Interval
      <4> HIDE DEF empty
      <4> QED BY <4>1, <4>2, FS_Subset
    <3>2. empty # {}
      BY <1>4
    <3> HIDE DEF empty
    <3> QED BY <3>1, <3>2, MinMaxIs
  <2>2. Empty(e, s)
    BY <2>1
  <2>3. Spare(e, s)
    BY <1>4, <2>2, AloneIs DEF Spare, Empty
  <2>4. f = Emit(reserve(RemoveWorkspaces(e, stale)), Destroy(s))
    BY <1>4
  <2>10. n \in DOMAIN e.ws \ stale /\ IsNormal(e.ws[n]) /\ ~e.ws[n].persistent
    <3>1. n \in idle /\ s \in Observed(e)
      BY <2>1, <2>2 DEF Empty, Ordinary
    <3>2. n \notin stale
      BY <1>4, <3>1
    <3>3. Idle(e, n, moved)
      BY <3>1
    <3> HIDE DEF n, stale, idle
    <3> QED BY <3>1, <3>2, <3>3 DEF Idle, idle
  <2>5. Same(e, RemoveWorkspaces(e, stale)) /\ Reserving(e) = {}
    BY <1>2, <1>4, RemoveSame, UnreservedIs
  <2>11. s = Active(e.ws[n])
    OBVIOUS
  <2> HIDE DEF n, s, f, stale
  <2>6. PICK r : r = RemoveWorkspaces(e, stale)
    OBVIOUS
  <2>12. r.ws = Without(e.ws, stale)
    BY <1>2, <2>6 DEF RemoveWorkspaces, Shaped, Fields
  <2>7. /\ DOMAIN reserve(r) = Fields /\ reserve(r).out = e.out /\ reserve(r).obs = e.obs
        /\ reserve(r).pendingNewSpace = e.pendingNewSpace /\ Registry(reserve(r).ws)
        /\ reserve(r).topologyDestroy = e.topologyDestroy
        /\ reserve(r).pendingDestroy = e.pendingDestroy \cup {[space |-> s, name |-> n]}
        /\ IsSeq(reserve(r).pendingCreations) /\ Named(reserve(r))
    BY <2>5, <2>6 DEF Same, Named, Fields
  <2>8. Reserving(reserve(r)) = {s}
    <3>1. e.pendingDestroy = {} /\ e.topologyDestroy = None
      BY <1>4 DEF Reserved
    <3> HIDE DEF reserve
    <3>2. {d.space : d \in reserve(r).pendingDestroy} = {s}
      BY <2>7, <3>1
    <3>3. {reserve(r).topologyDestroy} \ {None} = {}
      BY <2>7, <3>1
    <3> QED BY <3>2, <3>3 DEF Reserving
  <2>13. Reason(reserve(r), s)
    <3>1. reserve(r).ws = Without(e.ws, stale)
      BY <2>5, <2>6, <2>12 DEF Same, Fields
    <3> HIDE DEF reserve
    <3>2. n \in DOMAIN reserve(r).ws /\ reserve(r).ws[n] = e.ws[n]
      BY <2>10, <3>1 DEF Without
    <3>3. [space |-> s, name |-> n] \in reserve(r).pendingDestroy
      BY <2>7
    <3> QED BY <2>10, <2>11, <3>2, <3>3 DEF Reason
  <2> HIDE DEF reserve
  <2>9. Destroying(f) /\ f.obs = e.obs /\ Reasoned(f)
    BY <2>3, <2>4, <2>6, <2>7, <2>8, <2>13, EmitDestroying
  <2> QED BY <2>5, <2>9 DEF Decides, f
<1> QED BY <1>1, <1>3, <1>4

LEMMA HealDecides == ASSUME NEW e, Plain(e) PROVE Decides(e, Heal(e))
<1> DEFINE s == NextTopologyHealAction(e)
           order == e.obs.order
           orphan(t) == /\ t \notin FsSpaces /\ t # e.obs.focus
                        /\ ~(t \in DOMAIN e.external /\ e.external[t])
                        /\ t \notin Claimed(e.ws) \cup Occupied(e)
           orphans == {i \in DOMAIN order : orphan(order[i])}
<1>1. CASE Heal(e) = e
  BY <1>1, PlainReasoned DEF Decides
<1>2. CASE Heal(e) # e
  <2>1. s # None /\ Heal(e) = Emit([e EXCEPT !.topologyDestroy = s], Destroy(s))
    BY <1>2, Zenon DEF Heal
  <2>2. /\ orphans # {} /\ ~Reserved(e) /\ ~(Cardinality(Ordinary(e)) <= 1)
        /\ s = order[Max(orphans)]
    BY <2>1, Zenon DEF NextTopologyHealAction
  <2>3. Max(orphans) \in orphans
    <3>1. orphans \subseteq DOMAIN order /\ IsSeq(order)
      BY DEF Plain, Shaped
    <3>2. orphans # {}
      BY <2>2
    <3> HIDE DEF orphans, order
    <3>3. orphans \in SUBSET Nat /\ IsFiniteSet(orphans)
      BY <3>1, SeqIs, FS_Subset
    <3> QED BY <3>2, <3>3, MinMaxIs
  <2>4. s \in Observed(e) /\ orphan(s)
    BY <2>2, <2>3 DEF Observed, ToSet
  <2>5. Spare(e, s)
    BY <2>2, <2>4, AloneIs DEF Spare, Ordinary
  <2> HIDE DEF s
  <2> DEFINE f == [e EXCEPT !.topologyDestroy = s]
  <2>6. /\ DOMAIN f = Fields /\ f.out = e.out /\ f.obs = e.obs
        /\ f.pendingNewSpace = e.pendingNewSpace /\ Registry(f.ws)
        /\ f.pendingDestroy = e.pendingDestroy /\ f.topologyDestroy = s /\ f.ws = e.ws
        /\ IsSeq(f.pendingCreations) /\ Named(f)
    BY DEF Plain, Shaped, Named, Fields
  <2> HIDE DEF f
  <2>7. Reserving(f) = {s}
    BY <2>1, <2>2, <2>6 DEF Reserved, Reserving
  <2>9. Reason(f, s)
    BY <2>4, <2>6 DEF Reason
  <2>8. /\ Destroying(Emit(f, Destroy(s))) /\ Emit(f, Destroy(s)).obs = e.obs
        /\ Reasoned(Emit(f, Destroy(s)))
    BY <2>5, <2>6, <2>7, <2>9, EmitDestroying
  <2> QED BY <2>1, <2>2, <2>8, UnreservedIs DEF Decides, f
<1> QED BY <1>1, <1>2

\* A reservation stands until its Space is no longer observed.
LEMMA ConfirmDestroysIs ==
  ASSUME NEW e, Plain(e)
  PROVE  /\ Plain(ConfirmDestroys(e)) /\ ConfirmDestroys(e).obs = e.obs
         /\ Reserving(ConfirmDestroys(e)) = Reserving(e) \cap Observed(e)
<1> DEFINE gone == {d \in e.pendingDestroy : d.space \notin Observed(e)}
           e1 == [e EXCEPT !.pendingDestroy = @ \ gone,
                           !.topologyDestroy = IF @ \in Observed(e) THEN @ ELSE None]
<1>1. /\ DOMAIN e1 = Fields /\ e1.out = e.out /\ e1.obs = e.obs
      /\ e1.pendingNewSpace = e.pendingNewSpace /\ e1.ws = e.ws
      /\ e1.pendingCreations = e.pendingCreations
      /\ e1.pendingDestroy = e.pendingDestroy \ gone
      /\ e1.topologyDestroy =
           IF e.topologyDestroy \in Observed(e) THEN e.topologyDestroy ELSE None
      /\ Named(e1)
  BY DEF Plain, Shaped, Named, Fields
<1>2. ConfirmDestroys(e) = RemoveWorkspaces(e1, {d.name : d \in gone})
  BY DEF ConfirmDestroys
<1> HIDE DEF e1
<1>3. Plain(e1)
  BY <1>1 DEF Plain, Shaped
<1>4. Reserving(e1) = Reserving(e) \cap Observed(e)
  BY <1>1 DEF Reserving
<1> HIDE DEF gone
<1>5. Kept(e1, RemoveWorkspaces(e1, {d.name : d \in gone}))
  BY <1>3, RemoveSame, SameKept DEF Plain
<1> DEFINE f == RemoveWorkspaces(e1, {d.name : d \in gone})
<1> HIDE DEF f
<1>6. Plain(f) /\ Reserving(f) = Reserving(e1) /\ f.obs = e1.obs
  BY <1>3, <1>5, KeptPlain DEF Kept, f
<1> QED BY <1>1, <1>2, <1>4, <1>6 DEF f
-----------------------------------------------------------------------------
\* One observation: the reservations whose Space is gone are released, and a
\* destruction is decided only when none is left.
DecidesOn(e, order, f) ==
  LET R == Reserving(e) \cap ToSet(order)
  IN  /\ Reasoned(f)
      /\ \/ Plain(f) /\ Reserving(f) = R
         \/ R = {} /\ Destroying(f)

LEMMA KeptDecides ==
  ASSUME NEW e, NEW order, NEW f, NEW g, DecidesOn(e, order, f), Kept(f, g), g.ws = f.ws
  PROVE  DecidesOn(e, order, g) /\ g.obs = f.obs
<1>1. g.obs = f.obs
  BY DEF Kept
<1>2. Reasoned(g)
  BY KeptReasoned DEF DecidesOn, Plain, Destroying
<1> QED BY <1>1, <1>2, KeptPlain, KeptDestroying DEF DecidesOn

\* What comes after the destructions changes no workspace.
LEMMA WorkspacesSame ==
  ASSUME NEW e, NEW late, Shaped(e)
  PROVE  /\ FulfillPendingWorkspaceActions(e).ws = e.ws
         /\ FulfillPendingNewSpaceMoves(e, late).ws = e.ws
         /\ RequestMissing(e).ws = e.ws
         /\ TryStartNextPendingCreation(e).ws = e.ws
<1>1. ASSUME NEW f, DOMAIN f = Fields
      PROVE  FulfillPendingFocus(f).ws = f.ws /\ DOMAIN FulfillPendingFocus(f) = Fields
  BY <1>1 DEF FulfillPendingFocus, Emit, Fields
<1>2. ASSUME NEW f, DOMAIN f = Fields PROVE FulfillPendingMove(f).ws = f.ws
  BY <1>2 DEF FulfillPendingMove, Emit, Fields
<1>3. DOMAIN e = Fields
  BY DEF Shaped
<1>4. FulfillPendingWorkspaceActions(e).ws = e.ws
  BY <1>1, <1>2, <1>3 DEF FulfillPendingWorkspaceActions
<1>5. FulfillPendingNewSpaceMoves(e, late).ws = e.ws /\ RequestMissing(e).ws = e.ws
  BY <1>3 DEF FulfillPendingNewSpaceMoves, RequestMissing, Fields
<1>6. TryStartNextPendingCreation(e).ws = e.ws
  BY <1>3 DEF TryStartNextPendingCreation, Emit, Fields
<1> QED BY <1>4, <1>5, <1>6

LEMMA DecidesShaped == ASSUME NEW e, NEW order, NEW f, DecidesOn(e, order, f) PROVE Shaped(f)
  BY DEF DecidesOn, Plain, Destroying

\* What is observed, before anything is derived from it.
Started(e, seen, capable, c, late) ==
  LET void == [RequeueAwaited(e) EXCEPT !.initialized = FALSE, !.external = <<>>]
  IN  [Expire(IF IsReset(e, seen) THEN void ELSE e, late) EXCEPT
         !.obs = seen, !.capable = capable, !.synced = TRUE, !.out = <<>>,
         !.ws = IF e.synced THEN @ ELSE SyncConfig(@, c, FALSE)]

LEMMA StartPlain ==
  ASSUME NEW e, NEW seen, NEW capable, NEW c \in Configs, NEW late, Shaped(e),
         IsSeq(seen.order)
  PROVE  LET e1 == Started(e, seen, capable, c, late)
         IN  Plain(e1) /\ e1.obs = seen /\ Reserving(e1) = Reserving(e)
<1> DEFINE e1 == Started(e, seen, capable, c, late)
           void == [RequeueAwaited(e) EXCEPT !.initialized = FALSE, !.external = <<>>]
           d == IF IsReset(e, seen) THEN void ELSE e
           x == Expire(d, late)
<1>1. Same(e, e) /\ Same(e, RequeueAwaited(e))
  <2> DEFINE queue == <<e.awaited.name>> \o e.pendingCreations
  <2>1. IsSeq(queue)
    <3> DEFINE n == e.awaited.name
    <3> HIDE DEF n
    <3>1. <<n>> \in Seq({n})
      OBVIOUS
    <3> QED BY <3>1, ConcatIs DEF IsSeq, Shaped, n
  <2>2. RequeueAwaited(e) \in {e, [e EXCEPT !.awaited = None],
                              [e EXCEPT !.awaited = None, !.pendingCreations = queue]}
    BY DEF RequeueAwaited, Shaped, Fields
  <2> HIDE DEF queue
  <2>3. /\ Same(e, e) /\ Same(e, [e EXCEPT !.awaited = None])
        /\ Same(e, [e EXCEPT !.awaited = None, !.pendingCreations = queue])
    BY <2>1 DEF Shaped, Same, Named, Fields
  <2> QED BY <2>2, <2>3
<1>2. Same(e, void)
  BY <1>1 DEF Same, Named, Fields
<1>3. Same(e, d)
  BY <1>1, <1>2
<1> HIDE DEF void, d
<1>4. Same(e, x)
  BY <1>3 DEF Expire, Same, Named, Fields
<1>5. e1 = [x EXCEPT !.obs = seen, !.capable = capable, !.synced = TRUE, !.out = <<>>,
                     !.ws = IF e.synced THEN @ ELSE SyncConfig(@, c, FALSE)]
  BY DEF x, d, void, Started
<1> HIDE DEF x, e1
<1>6. Registry(SyncConfig(x.ws, c, FALSE))
  BY <1>4, RegistryIs DEF Same
<1>7. /\ DOMAIN e1 = Fields /\ e1.obs = seen /\ e1.out = <<>>
      /\ e1.pendingNewSpace = e.pendingNewSpace /\ Registry(e1.ws)
      /\ e1.pendingDestroy = e.pendingDestroy /\ e1.topologyDestroy = e.topologyDestroy
      /\ IsSeq(e1.pendingCreations) /\ Named(e1)
  BY <1>4, <1>5, <1>6 DEF Same, Named, Fields
<1>8. IsSeq(<<>>) /\ DOMAIN <<>> = {}
  BY DEF IsSeq
<1>9. Plain(e1) /\ e1.obs = seen /\ Reserving(e1) = Reserving(e)
  BY <1>7, <1>8 DEF Plain, Shaped, Reserving
<1> QED BY <1>9 DEF e1

LEMMA SnapshotDecides ==
  ASSUME NEW e, NEW seen, NEW capable, NEW c \in Configs, NEW late, Shaped(e), IsSeq(seen.order)
  PROVE  /\ DecidesOn(e, seen.order, ApplySnapshot(e, seen, capable, c, late))
         /\ ApplySnapshot(e, seen, capable, c, late).obs = seen
<1> DEFINE reset == IsReset(e, seen)
           was == e.obs.at
           e1 == Started(e, seen, capable, c, late)
           a1 == ReconcileFullscreen(e1, was)
           e2 == NoteWindowSpaces(a1)
           a2 == ConfirmDestroys(e2)
           e3 == RetireVanished(a2, reset)
           a3 == BindAwaitedDynamicSpaces(e3, late)
           e4 == ObserveExternalSpaces(a3)
           e5 == ReconcilePlacement(e4, late)
           e6 == RemapSlots(e5)
           a6 == GraceUnclaimed(e6)
           e7 == DestroyEmptyDynamicWorkspaces(a6, Moved(e5.ws, e6.ws))
           a7 == FulfillPendingWorkspaceActions(e7)
           b7 == FulfillPendingNewSpaceMoves(a7, late)
           e8 == RequestMissing(b7)
           e9 == TryStartNextPendingCreation(e8)
           R == Reserving(e) \cap ToSet(seen.order)
           Settles(f) == Plain(f) /\ f.obs = seen /\ Reserving(f) = R
           Goes(f) == DecidesOn(e, seen.order, f) /\ f.obs = seen
<1>1. Plain(e1) /\ e1.obs = seen /\ Reserving(e1) = Reserving(e)
  BY StartPlain
<1>2. ApplySnapshot(e, seen, capable, c, late) = Heal(e9)
  BY DEF ApplySnapshot, Started
<1> HIDE DEF e1
<1>3. ASSUME NEW f, NEW g, Plain(f), f.obs = seen, Kept(f, g)
      PROVE  Plain(g) /\ g.obs = seen /\ Reserving(g) = Reserving(f)
  BY <1>3, KeptPlain DEF Kept
<1>4. Plain(a1) /\ a1.obs = seen /\ Reserving(a1) = Reserving(e)
  BY <1>1, <1>3, FullscreenKept DEF Plain
<1> HIDE DEF a1
<1>5. Plain(e2) /\ e2.obs = seen /\ Reserving(e2) = Reserving(e)
  BY <1>3, <1>4, NoteKept DEF Plain
<1> HIDE DEF e2
<1>6. Settles(a2)
  <2>1. Observed(e2) = ToSet(seen.order)
    BY <1>5 DEF Observed
  <2> QED BY <1>5, <2>1, ConfirmDestroysIs
<1> HIDE DEF a2
<1>7. ASSUME NEW f, NEW g, Settles(f), Kept(f, g) PROVE Settles(g)
  BY <1>3, <1>7
<1>8. ASSUME NEW f, Settles(f) PROVE Shaped(f)
  BY <1>8 DEF Plain
<1> HIDE DEF Settles
<1>9. Settles(e3) BY <1>6, <1>7, <1>8, RetireKept
<1> HIDE DEF e3
<1>10. Settles(a3) BY <1>9, <1>7, <1>8, BindKept
<1> HIDE DEF a3
<1>11. Settles(e4) BY <1>10, <1>7, <1>8, ExternalKept
<1> HIDE DEF e4
<1>12. Settles(e5) BY <1>11, <1>7, <1>8, PlacementKept
<1> HIDE DEF e5
<1>13. Settles(e6) BY <1>12, <1>7, <1>8, RemapKept
<1> HIDE DEF e6
<1>14. Settles(a6) BY <1>13, <1>7, <1>8, GraceKept
<1> HIDE DEF a6
<1>15. Goes(e7)
  <2>1. Decides(a6, e7)
    BY <1>14, DestroyEmptyDecides DEF Settles
  <2> HIDE DEF e7
  <2> QED BY <1>14, <2>1 DEF Decides, Settles, DecidesOn
<1> HIDE DEF e7
<1>16. ASSUME NEW f, NEW g, Goes(f), Kept(f, g), g.ws = f.ws PROVE Goes(g)
  BY <1>16, KeptDecides
<1>17. ASSUME NEW f, Goes(f) PROVE Shaped(f)
  BY <1>17, DecidesShaped
<1> HIDE DEF Goes
<1>18. Goes(a7) BY <1>15, <1>16, <1>17, IntentsKept, WorkspacesSame
<1> HIDE DEF a7
<1>19. Goes(b7) BY <1>18, <1>16, <1>17, NewSpaceKept, WorkspacesSame
<1> HIDE DEF b7
<1>20. Goes(e8) BY <1>19, <1>16, <1>17, MissingKept, WorkspacesSame
<1> HIDE DEF e8
<1>21. Goes(e9) BY <1>20, <1>16, <1>17, TryStartKept, WorkspacesSame
<1> HIDE DEF e9
<1>22. Goes(Heal(e9))
  <2>1. CASE Plain(e9) /\ Reserving(e9) = R
    <3>1. Decides(e9, Heal(e9))
      BY <2>1, HealDecides
    <3> QED BY <1>21, <2>1, <3>1 DEF Decides, Goes, DecidesOn
  <2>2. CASE R = {} /\ Destroying(e9)
    <3>1. e9.out # <<>>
      BY <2>2 DEF Destroying
    <3>2. Heal(e9) = e9
      BY <3>1 DEF Heal
    <3> QED BY <1>21, <3>2
  <2> QED BY <1>21, <2>1, <2>2 DEF Goes, DecidesOn
<1> QED BY <1>2, <1>22 DEF Goes
-----------------------------------------------------------------------------
\* Commands decide no destruction of the engine's.
LEMMA RequestKept ==
  ASSUME NEW e, NEW n \in Names, Shaped(e)
  PROVE  Kept(e, RequestWorkspaceCreation(e, n))
<1> DEFINE known == EnsureDynamicWorkspace(e, n)
           asked == IF n \in AwaitedName(e) THEN known ELSE QueueCreation(known, n)
<1>1. Same(e, known)
  <2> DEFINE new == [m \in {n} |-> NewState(FALSE, TRUE)]
             f(ws) == [e EXCEPT !.ws = ws]
  <2>1. Registry(new)
    BY DEF Registry, NewState
  <2>2. known \in {e, f(Over(new, e.ws))}
    BY DEF EnsureDynamicWorkspace
  <2> HIDE DEF new
  <2>3. Registry(Over(new, e.ws))
    BY <2>1, RegistryIs DEF Shaped
  <2>4. Same(e, e) /\ \A ws : Registry(ws) => Same(e, f(ws))
    BY DEF Shaped, Same, Named, Fields
  <2> HIDE DEF f
  <2> QED BY <2>2, <2>3, <2>4
<1> HIDE DEF known
<1>2. Same(e, asked)
  <2>1. IsSeq(Append(known.pendingCreations, n))
    BY <1>1, AppendIs DEF Same
  <2> QED BY <1>1, <2>1 DEF QueueCreation, Same, Named, Fields
<1>3. RequestWorkspaceCreation(e, n) = TryStartNextPendingCreation(asked)
  BY DEF RequestWorkspaceCreation, known
<1> HIDE DEF asked
<1>4. Kept(e, asked)
  BY <1>2, SameKept
<1>5. Kept(asked, TryStartNextPendingCreation(asked))
  BY <1>4, TryStartKept DEF Kept
<1> QED BY <1>3, <1>4, <1>5, KeptTwice

LEMMA FocusKept ==
  ASSUME NEW e, NEW n \in Names, Shaped(e)
  PROVE  Kept(e, FocusWorkspace(e, n))
<1> DEFINE queue(x) == IF Contains(x.pendingFocus, n) THEN x
                       ELSE [x EXCEPT !.pendingFocus = Append(@, n)]
           clear == ClearStaleBacking(e, n)
<1>1. ASSUME NEW x, Same(e, x) PROVE Same(e, queue(x))
  BY <1>1 DEF Same, Named, Fields
<1>2. FocusWorkspace(e, n) \in {RequestWorkspaceCreation(queue(clear), n), queue(e),
                                Emit(e, Focus(Active(e.ws[n])))}
  BY DEF FocusWorkspace
<1>3. Same(e, clear) /\ Same(e, e)
  BY ClearStaleSame DEF Same, Shaped
<1> HIDE DEF queue, clear
<1>4. Kept(e, queue(clear)) /\ Kept(e, queue(e))
  BY <1>1, <1>3, SameKept
<1>5. Kept(queue(clear), RequestWorkspaceCreation(queue(clear), n))
  BY <1>4, RequestKept DEF Kept
<1>6. Focus(Active(e.ws[n])).op # "destroy"
  BY DEF Focus
<1> QED BY <1>2, <1>3, <1>4, <1>5, <1>6, KeptTwice, EmitKept

LEMMA MoveKept ==
  ASSUME NEW e, NEW w, NEW n \in Names, Shaped(e)
  PROVE  Kept(e, MoveWindowToWorkspace(e, w, n))
<1> DEFINE m == [window |-> w, name |-> n]
           queue(x) == IF Contains(x.pendingMove, m) THEN x
                       ELSE [x EXCEPT !.pendingMove = Append(@, m)]
           clear == ClearStaleBacking(e, n)
           kept == [e EXCEPT !.grace = @ \cup {n}]
<1>1. ASSUME NEW x, Same(e, x) PROVE Same(e, queue(x))
  BY <1>1 DEF Same, Named, Fields
<1>2. MoveWindowToWorkspace(e, w, n) \in {RequestWorkspaceCreation(queue(clear), n), queue(e),
                                          Emit(kept, MoveWindow(w, Active(e.ws[n])))}
  BY DEF MoveWindowToWorkspace
<1>3. Same(e, clear) /\ Same(e, e) /\ Same(e, kept)
  BY ClearStaleSame DEF Same, Shaped, Named, Fields
<1> HIDE DEF queue, clear, kept
<1>4. Kept(e, queue(clear)) /\ Kept(e, queue(e))
  BY <1>1, <1>3, SameKept
<1>5. Kept(queue(clear), RequestWorkspaceCreation(queue(clear), n))
  BY <1>4, RequestKept DEF Kept
<1>6. MoveWindow(w, Active(e.ws[n])).op # "destroy"
  BY DEF MoveWindow
<1> QED BY <1>2, <1>3, <1>4, <1>5, <1>6, KeptTwice, EmitKept

LEMMA NewSpaceCommandKept ==
  ASSUME NEW e, NEW w, Shaped(e)
  PROVE  Kept(e, MoveWindowToNewSpace(e, w))
<1> DEFINE intents == e.pendingNewSpace
           places == {i \in DOMAIN intents : intents[i].window # w}
           others == Chosen(intents, places)
           m == [window |-> w, before |-> Observed(e)]
           f == [e EXCEPT !.pendingNewSpace = Append(others, m)]
<1>1. MoveWindowToNewSpace(e, w) = Emit(f, Create(ByCommand))
  BY DEF MoveWindowToNewSpace
<1>2. IsSeq(Append(others, m))
  <2>1. IsSeq(intents) /\ places \subseteq DOMAIN intents
    BY DEF Shaped
  <2> HIDE DEF intents, places, m
  <2> QED BY <2>1, ChosenIs, AppendIs
<1>3. /\ DOMAIN f = Fields /\ f.obs = e.obs /\ f.out = e.out /\ f.ws = e.ws
      /\ f.pendingNewSpace = Append(others, m) /\ f.pendingCreations = e.pendingCreations
      /\ f.pendingDestroy = e.pendingDestroy /\ f.topologyDestroy = e.topologyDestroy
      /\ Named(f)
  BY DEF Shaped, Named, Fields
<1> HIDE DEF f, others, m
<1>4. Shaped(f) /\ Same(f, f)
  BY <1>2, <1>3 DEF Shaped, Same
<1>5. Create(ByCommand).op # "destroy"
  BY DEF Create
<1>6. Kept(f, Emit(f, Create(ByCommand)))
  BY <1>4, <1>5, EmitKept
<1> QED BY <1>1, <1>3, <1>6 DEF Kept

LEMMA ReloadSame ==
  ASSUME NEW e, NEW c \in Configs, Shaped(e)
  PROVE  Same(e, ReloadConfig(e, c))
<1> DEFINE f == [e EXCEPT !.ws = SyncConfig(@, c, TRUE)]
           g == RemapSlots(f)
<1>1. Registry(SyncConfig(e.ws, c, TRUE))
  BY RegistryIs DEF Shaped
<1>2. Same(e, f) /\ Shaped(f)
  BY <1>1 DEF Same, Shaped, Named, Fields
<1> HIDE DEF f
<1>3. Same(f, g) /\ Shaped(g)
  BY <1>2, RemapSame DEF Same, Shaped
<1>4. ReloadConfig(e, c) = RemoveWorkspaces(g, DOMAIN e.ws \ DOMAIN g.ws)
  BY DEF ReloadConfig, f
<1> HIDE DEF g
<1> QED BY <1>2, <1>3, <1>4, RemoveSame DEF Same

-----------------------------------------------------------------------------
\* What a batch that got to its k-th action leaves of the engine.
Left(f, k) ==
  [(IF k = Len(f.out) THEN f
    ELSE NoteBatchFailed(f, ToSet(SubSeq(f.out, k + 1, Len(f.out))))) EXCEPT !.out = <<>>]

\* A batch, run to its end or to its first failure: what it adds to the landing
\* mutations are actions it ran, each once.
LEMMA BatchIs ==
  ASSUME NEW f, Shaped(f), IsSeq(landing), ExecuteTracked(f)
  PROVE  \E k \in 0 .. Len(f.out) : \E I :
           /\ IsSeq(landing') /\ Len(landing) <= Len(landing')
           /\ \A i \in 1 .. Len(landing) : landing'[i] = landing[i]
           /\ \A i \in Len(landing) + 1 .. Len(landing') :
                \E j \in 1 .. k : /\ landing'[i] = f.out[j]
                                  /\ Rank(I, j) = i - Len(landing)
           /\ native' = Effect(native, SubSeq(f.out, 1, k))
           /\ engine' = Left(f, k)
<1>1. PICK k \in 0 .. Len(f.out) :
           /\ native' = Effect(native, SubSeq(f.out, 1, k))
           /\ landing' = Acknowledged(SubSeq(f.out, 1, k))
           /\ engine' = Left(f, k)
  BY DEF ExecuteTracked, Left
<1> DEFINE done == SubSeq(f.out, 1, k)
           I == {i \in DOMAIN done : \/ done[i].op \in {"create", "destroy"}
                                     \/ done[i].op = "move" /\ done[i] \notin ToSet(landing)}
<1>2. IsSeq(f.out) /\ Len(f.out) \in Nat /\ k \in Nat /\ k <= Len(f.out)
  BY SeqIs DEF Shaped
<1>3. IsSeq(done) /\ DOMAIN done = 1 .. k /\ \A j \in 1 .. k : done[j] = f.out[j]
  <2>1. /\ IsSeq(done) /\ Len(done) = IF 1 <= k THEN k - 1 + 1 ELSE 0
        /\ \A j \in 1 .. k - 1 + 1 : done[j] = f.out[1 + j - 1]
    BY <1>2, PartIs
  <2> HIDE DEF done
  <2>2. k - 1 + 1 = k /\ \A j \in 1 .. k : 1 + j - 1 = j
    BY <1>2
  <2>3. Len(done) = k
    BY <1>2, <2>1
  <2>4. DOMAIN done = 1 .. k
    BY <2>1, <2>3, SeqIs
  <2> QED BY <2>1, <2>2, <2>4
<1>4. landing' = landing \o Chosen(done, I)
  BY <1>1 DEF Acknowledged
<1>5. I \subseteq DOMAIN done
  OBVIOUS
<1> HIDE DEF done, I
<1> DEFINE added == Chosen(done, I)
<1>6. /\ IsSeq(added) /\ Len(added) \in Nat
      /\ \A m \in 1 .. Len(added) : \E i \in I : added[m] = done[i] /\ Rank(I, i) = m
  BY <1>3, <1>5, ChosenIs
<1> HIDE DEF added
<1>7. Len(landing) \in Nat
  BY SeqIs
<1>8. /\ IsSeq(landing') /\ Len(landing') = Len(landing) + Len(added)
      /\ \A i \in 1 .. Len(landing) : landing'[i] = landing[i]
      /\ \A i \in 1 .. Len(added) : landing'[Len(landing) + i] = added[i]
  <2>1. PICK s, t, u : s = landing /\ t = added /\ u = landing'
    OBVIOUS
  <2>2. IsSeq(s) /\ IsSeq(t) /\ u = s \o t
    BY <1>4, <1>6, <2>1 DEF added
  <2>3. /\ IsSeq(u) /\ Len(u) = Len(s) + Len(t)
        /\ \A i \in 1 .. Len(s) : u[i] = s[i]
        /\ \A i \in 1 .. Len(t) : u[Len(s) + i] = t[i]
    BY <2>2, ConcatIs
  <2> QED BY <2>1, <2>3
<1>9. ASSUME NEW i \in Len(landing) + 1 .. Len(landing')
      PROVE  \E j \in 1 .. k : landing'[i] = f.out[j] /\ Rank(I, j) = i - Len(landing)
  <2>1. i - Len(landing) \in 1 .. Len(added) /\ Len(landing) + (i - Len(landing)) = i
    BY <1>6, <1>7, <1>8
  <2>2. landing'[Len(landing) + (i - Len(landing))] = added[i - Len(landing)]
    BY <1>8, <2>1
  <2>3. PICK j \in I : added[i - Len(landing)] = done[j] /\ Rank(I, j) = i - Len(landing)
    BY <1>6, <2>1
  <2>4. j \in 1 .. k /\ done[j] = f.out[j]
    BY <1>3, <1>5
  <2> QED BY <2>1, <2>2, <2>3, <2>4
<1>10. Len(landing) <= Len(landing')
  BY <1>6, <1>7, <1>8
<1> QED BY <1>1, <1>8, <1>9, <1>10

\* A batch that fails releases the destructions it did not come to.
LEMMA FailedIs ==
  ASSUME NEW f, Shaped(f), NEW k \in 0 .. Len(f.out), NEW g,
         g = Left(f, k)
  PROVE  /\ Shaped(g) /\ g.out = <<>> /\ g.ws = f.ws
         /\ g.obs = f.obs /\ g.placement = f.placement
         /\ Reserving(g) \subseteq Reserving(f)
         /\ (\A i \in k + 1 .. Len(f.out) : f.out[i].op # "destroy")
              => Reserving(g) = Reserving(f) /\ g.pendingDestroy = f.pendingDestroy
<1> DEFINE rest == SubSeq(f.out, k + 1, Len(f.out))
           h == IF k = Len(f.out) THEN f ELSE NoteBatchFailed(f, ToSet(rest))
           destroys == {a.space : a \in {b \in ToSet(rest) : b.op = "destroy"}}
<1>1. IsSeq(f.out) /\ Len(f.out) \in Nat /\ k \in Nat /\ k <= Len(f.out)
  BY SeqIs DEF Shaped
<1>2. \/ h = f
      \/ /\ k < Len(f.out) /\ DOMAIN h = Fields /\ h.ws = f.ws /\ h.obs = f.obs
         /\ h.pendingNewSpace = f.pendingNewSpace
         /\ h.pendingCreations = f.pendingCreations /\ h.placement = f.placement
         /\ h.awaited \in {None, f.awaited}
         /\ \/ /\ destroys = {}
               /\ h.pendingDestroy = f.pendingDestroy
               /\ h.topologyDestroy = f.topologyDestroy
            \/ /\ destroys # {}
               /\ h.pendingDestroy \subseteq f.pendingDestroy /\ h.topologyDestroy = None
  <2>1. CASE k = Len(f.out)
    BY <2>1
  <2>2. CASE k # Len(f.out)
    <3>1. k < Len(f.out)
      BY <1>1, <2>2
    <3>2. h = NoteBatchFailed(f, ToSet(rest))
      BY <2>2
    <3> HIDE DEF h, rest
    <3> QED BY <3>1, <3>2 DEF NoteBatchFailed, NoteCreateSpaceFailed, Shaped, Fields
  <2> QED BY <2>1, <2>2
<1>3. ASSUME k < Len(f.out), \A i \in k + 1 .. Len(f.out) : f.out[i].op # "destroy"
      PROVE  destroys = {}
  <2>1. k + 1 \in Nat /\ 1 <= k + 1 /\ k + 1 <= Len(f.out)
    BY <1>1, <1>3
  <2>2. /\ IsSeq(rest) /\ Len(rest) = Len(f.out) - (k + 1) + 1
        /\ \A i \in 1 .. Len(f.out) - (k + 1) + 1 : rest[i] = f.out[k + 1 + i - 1]
    BY <1>1, <2>1, PartIs
  <2> HIDE DEF rest
  <2>3. ASSUME NEW i \in DOMAIN rest PROVE rest[i].op # "destroy"
    <3>1. i \in 1 .. Len(f.out) - (k + 1) + 1
      BY <2>2, SeqIs
    <3>2. k + 1 + i - 1 \in k + 1 .. Len(f.out)
      BY <1>1, <2>1, <3>1
    <3> QED BY <1>3, <2>2, <3>1, <3>2
  <2> QED BY <2>3 DEF ToSet
<1>4. g = [h EXCEPT !.out = <<>>]
  BY DEF Left
<1> HIDE DEF rest, h, destroys
<1>5. IsSeq(<<>>)
  BY DEF IsSeq
<1>6. /\ DOMAIN h = Fields /\ h.ws = f.ws /\ h.obs = f.obs
      /\ h.pendingNewSpace = f.pendingNewSpace /\ h.placement = f.placement
      /\ h.pendingCreations = f.pendingCreations /\ Named(h)
  BY <1>2 DEF Shaped, Named
<1>7. /\ DOMAIN g = Fields /\ g.out = <<>> /\ g.ws = f.ws /\ g.obs = f.obs
      /\ g.pendingNewSpace = f.pendingNewSpace /\ g.placement = f.placement
      /\ g.pendingCreations = f.pendingCreations
      /\ g.pendingDestroy = h.pendingDestroy /\ g.topologyDestroy = h.topologyDestroy
      /\ Named(g)
  BY <1>4, <1>6 DEF Named, Fields
<1>8. Shaped(g)
  BY <1>5, <1>7 DEF Shaped
<1>9. Reserving(g) \subseteq Reserving(f)
  BY <1>2, <1>7 DEF Reserving
<1>10. ASSUME \A i \in k + 1 .. Len(f.out) : f.out[i].op # "destroy"
       PROVE  Reserving(g) = Reserving(f) /\ g.pendingDestroy = f.pendingDestroy
  BY <1>2, <1>3, <1>7, <1>10 DEF Reserving
<1> QED BY <1>7, <1>8, <1>9, <1>10
-----------------------------------------------------------------------------
\* A Space stands at one place of the strip.
Once(s) == \A i, j \in DOMAIN s : s[i] = s[j] => i = j

\* What the engine and macOS look like between two steps.
Formed ==
  /\ Shaped(engine) /\ engine.out = <<>> /\ config \in Configs
  /\ IsSeq(landing) /\ minted \in Nat
  /\ DOMAIN native = {"order", "focus", "at", "sa"} /\ IsSeq(native.order)
  /\ Spaces \subseteq 1 .. minted \cup FsSpaces /\ Once(native.order)

\* The ordinary Spaces that are gone, and stay so: no id comes back.
Gone == 1 .. minted \ (FsSpaces \cup Spaces)

\* The inductive invariant: a destruction of the engine's that is on its way
\* stands as a reservation until its Space is gone.
Standing ==
  /\ Formed
  /\ Reserving(engine) \subseteq 1 .. minted \ FsSpaces
  /\ \A i \in DOMAIN landing : Own(landing[i]) =>
       landing[i].space \in Reserving(engine) \cup Gone
  /\ NoDoubleDestroy

LEMMA EffectIs ==
  ASSUME NEW nat, NEW done, DOMAIN nat = {"order", "focus", "at", "sa"}
  PROVE  /\ DOMAIN Effect(nat, done) = DOMAIN nat
         /\ Effect(nat, done).order = nat.order
  BY DEF Effect

\* What one batch leaves.
LEMMA ExecuteFormed ==
  ASSUME Formed, NEW f, Shaped(f), ExecuteTracked(f), UNCHANGED minted, config' \in Configs
  PROVE  Formed'
<1>1. PICK k \in 0 .. Len(f.out) :
        /\ IsSeq(landing') /\ native' = Effect(native, SubSeq(f.out, 1, k))
        /\ engine' = Left(f, k)
  BY BatchIs DEF Formed
<1>2. Shaped(engine') /\ engine'.out = <<>>
  BY <1>1, FailedIs
<1>3. DOMAIN native' = DOMAIN native /\ native'.order = native.order
  BY <1>1, EffectIs DEF Formed
<1>4. Spaces' = Spaces
  BY <1>3 DEF Spaces
<1>5. Shaped(engine)' /\ (engine.out = <<>>)'
  BY <1>2 DEF Shaped
<1> QED BY <1>1, <1>3, <1>4, <1>5 DEF Formed

\* f is what the engine has become before its batch runs: it has decided
\* nothing, or it had nothing reserved for a Space that exists.
Careful(f) ==
  \/ /\ Plain(f) /\ Reserving(engine) \cap Spaces \subseteq Reserving(f)
     /\ Reserving(f) \subseteq Reserving(engine)
  \/ /\ Reserving(engine) \cap Spaces = {} /\ Destroying(f) /\ Ordinary(f) = Users

LEMMA ExecuteStanding ==
  ASSUME Standing, NEW f, Careful(f), ExecuteTracked(f), UNCHANGED minted, config' \in Configs
  PROVE  Standing'
<1>1. Shaped(f)
  BY DEF Careful, Plain, Destroying
<1>2. Formed'
  BY <1>1, ExecuteFormed DEF Standing
<1>0. PICK k \in 0 .. Len(f.out) : \E I :
           /\ IsSeq(landing') /\ Len(landing) <= Len(landing')
           /\ \A i \in 1 .. Len(landing) : landing'[i] = landing[i]
           /\ \A i \in Len(landing) + 1 .. Len(landing') :
                \E j \in 1 .. k : /\ landing'[i] = f.out[j]
                                  /\ Rank(I, j) = i - Len(landing)
           /\ native' = Effect(native, SubSeq(f.out, 1, k))
           /\ engine' = Left(f, k)
  BY <1>1, BatchIs DEF Standing, Formed
<1>3. PICK I :
           /\ IsSeq(landing') /\ Len(landing) <= Len(landing')
           /\ \A i \in 1 .. Len(landing) : landing'[i] = landing[i]
           /\ \A i \in Len(landing) + 1 .. Len(landing') :
                \E j \in 1 .. k : /\ landing'[i] = f.out[j]
                                  /\ Rank(I, j) = i - Len(landing)
           /\ native' = Effect(native, SubSeq(f.out, 1, k))
           /\ engine' = Left(f, k)
  BY <1>0
<1>4. native'.order = native.order
  BY <1>3, EffectIs DEF Standing, Formed
<1>5. Spaces' = Spaces /\ Gone' = Gone
  BY <1>4 DEF Spaces, Gone
<1>6. /\ Reserving(engine') \subseteq Reserving(f)
      /\ (\A i \in k + 1 .. Len(f.out) : f.out[i].op # "destroy")
           => Reserving(engine') = Reserving(f)
  BY <1>1, <1>3, FailedIs
<1>7. Reserving(engine)' = Reserving(engine')
  BY DEF Reserving
<1>8. /\ Len(landing) \in Nat /\ Len(landing') \in Nat /\ k \in Nat /\ k <= Len(f.out)
      /\ DOMAIN landing = 1 .. Len(landing) /\ DOMAIN landing' = 1 .. Len(landing')
      /\ Len(f.out) \in Nat /\ DOMAIN f.out = 1 .. Len(f.out)
  BY <1>1, <1>3, SeqIs DEF Standing, Formed, Shaped
<1>9. ASSUME NEW i \in DOMAIN landing'
      PROVE  \/ i \in DOMAIN landing
             \/ i \in Len(landing) + 1 .. Len(landing')
  BY <1>8
<1>10. CASE Plain(f) /\ Reserving(engine) \cap Spaces \subseteq Reserving(f)
            /\ Reserving(f) \subseteq Reserving(engine)
  <2>1. \A i \in k + 1 .. Len(f.out) : f.out[i].op # "destroy"
    <3>1. \A i \in k + 1 .. Len(f.out) : i \in DOMAIN f.out
      BY <1>8
    <3> QED BY <1>10, <3>1 DEF Plain
  <2>2. Reserving(engine') = Reserving(f)
    BY <1>6, <2>1
  <2>3. ASSUME NEW i \in DOMAIN landing', Own(landing'[i])
        PROVE  i \in DOMAIN landing /\ landing'[i] = landing[i]
    <3>1. ASSUME i \in Len(landing) + 1 .. Len(landing') PROVE FALSE
      <4>1. PICK j \in 1 .. k : landing'[i] = f.out[j]
        BY <1>3, <3>1
      <4>2. j \in DOMAIN f.out
        BY <1>8
      <4> QED BY <1>10, <2>3, <4>1, <4>2 DEF Plain, Own
    <3>2. i \in DOMAIN landing
      BY <1>9, <3>1
    <3> QED BY <1>3, <1>8, <3>2
  <2>4. ASSUME NEW i \in DOMAIN landing', Own(landing'[i])
        PROVE  landing'[i].space \in Reserving(engine') \cup Gone
    <3>1. landing'[i].space \in Reserving(engine) \cup Gone
      BY <2>3, <2>4 DEF Standing
    <3>2. Reserving(engine) \subseteq 1 .. minted \ FsSpaces
      BY DEF Standing
    <3> QED BY <1>10, <2>2, <3>1, <3>2 DEF Gone
  <2>5. NoDoubleDestroy'
    <3> SUFFICES ASSUME NEW i \in DOMAIN landing', NEW j \in DOMAIN landing',
                        Own(landing'[i]), landing'[j] = landing'[i]
                 PROVE  i = j
      BY DEF NoDoubleDestroy, Own
    <3>1. i \in DOMAIN landing /\ landing'[i] = landing[i]
      BY <2>3
    <3>2. j \in DOMAIN landing /\ landing'[j] = landing[j]
      BY <2>3
    <3> QED BY <3>1, <3>2 DEF Standing, NoDoubleDestroy, Own
  <2>6. Reserving(engine') \subseteq 1 .. minted \ FsSpaces
    BY <1>10, <2>2 DEF Standing
  <2>7. \A i \in DOMAIN landing' : Own(landing'[i]) =>
          landing'[i].space \in Reserving(engine') \cup Gone'
    BY <1>5, <2>4
  <2>8. (\A i \in DOMAIN landing : Own(landing[i]) =>
          landing[i].space \in Reserving(engine) \cup Gone)'
    BY <1>7, <2>7 DEF Own
  <2> QED BY <1>2, <1>7, <2>5, <2>6, <2>8 DEF Standing
<1>11. CASE Reserving(engine) \cap Spaces = {} /\ Destroying(f) /\ Ordinary(f) = Users
  <2>1. PICK d \in DOMAIN f.out :
          /\ f.out[d].op = "destroy" /\ f.out[d].arg = None
          /\ Reserving(f) = {f.out[d].space} /\ Spare(f, f.out[d].space)
          /\ \A i \in DOMAIN f.out : f.out[i].op = "destroy" => i = d
    BY <1>11 DEF Destroying
  <2> DEFINE s == f.out[d].space
  <2>2. s \in Users
    BY <1>11, <2>1 DEF Spare
  <2>3. s \in 1 .. minted \ FsSpaces /\ s \in Spaces
    BY <2>2 DEF Users, Standing, Formed
  \* Whatever was on its way is gone.
  <2>4. ASSUME NEW i \in DOMAIN landing, Own(landing[i])
        PROVE  landing[i].space \in Gone
    <3>1. landing[i].space \in Reserving(engine) \cup Gone
      BY <2>4 DEF Standing
    <3>2. Reserving(engine) \subseteq 1 .. minted \ FsSpaces
      BY DEF Standing
    <3> QED BY <1>11, <3>1, <3>2 DEF Gone
  <2>5. ASSUME NEW i \in Len(landing) + 1 .. Len(landing'), Own(landing'[i])
        PROVE  /\ landing'[i].space = s /\ Rank(I, d) = i - Len(landing)
               /\ d \in 1 .. k
    <3>1. PICK j \in 1 .. k : landing'[i] = f.out[j] /\ Rank(I, j) = i - Len(landing)
      BY <1>3
    <3>2. j \in DOMAIN f.out
      BY <1>8
    <3>3. j = d
      BY <2>1, <2>5, <3>1, <3>2 DEF Own
    <3> QED BY <3>1, <3>3
  <2>6. d \in 1 .. k => Reserving(engine') = {s}
    <3> SUFFICES ASSUME d \in 1 .. k PROVE Reserving(engine') = {s}
      OBVIOUS
    <3>1. ASSUME NEW i \in k + 1 .. Len(f.out) PROVE f.out[i].op # "destroy"
      <4>1. i \in DOMAIN f.out /\ i # d
        BY <1>8
      <4> QED BY <2>1, <4>1
    <3> QED BY <1>6, <2>1, <3>1
  <2> HIDE DEF s
  <2>7. \A i \in DOMAIN landing' : Own(landing'[i]) =>
          landing'[i].space \in Reserving(engine') \cup Gone'
    <3> SUFFICES ASSUME NEW i \in DOMAIN landing', Own(landing'[i])
                 PROVE  landing'[i].space \in Reserving(engine') \cup Gone
      BY <1>5
    <3>1. CASE i \in DOMAIN landing
      <4>1. landing'[i] = landing[i]
        BY <1>3, <1>8, <3>1
      <4> QED BY <2>4, <3>1, <4>1
    <3>2. CASE i \in Len(landing) + 1 .. Len(landing')
      BY <2>5, <2>6, <3>2
    <3> QED BY <1>9, <3>1, <3>2
  <2>8. NoDoubleDestroy'
    <3> SUFFICES ASSUME NEW i \in DOMAIN landing', NEW j \in DOMAIN landing',
                        Own(landing'[i]), landing'[j] = landing'[i]
                 PROVE  i = j
      BY DEF NoDoubleDestroy, Own
    <3>0. s \notin Gone /\ Own(landing'[j])
      BY <2>3 DEF Gone
    <3>1. CASE i \in DOMAIN landing
      <4>1. landing'[i] = landing[i]
        BY <1>3, <1>8, <3>1
      <4>2. landing'[i].space \in Gone
        BY <2>4, <3>1, <4>1
      <4>3. j \in DOMAIN landing
        BY <1>9, <2>5, <3>0, <4>2
      <4>4. landing'[j] = landing[j]
        BY <1>3, <1>8, <4>3
      <4> QED BY <3>1, <4>1, <4>3, <4>4 DEF Standing, NoDoubleDestroy, Own
    <3>2. CASE i \in Len(landing) + 1 .. Len(landing')
      <4>1. landing'[i].space = s
        BY <2>5, <3>2
      <4>2. j \notin DOMAIN landing
        <5> SUFFICES ASSUME j \in DOMAIN landing PROVE FALSE
          OBVIOUS
        <5>1. landing'[j] = landing[j]
          BY <1>3, <1>8
        <5> QED BY <2>4, <3>0, <4>1, <5>1
      <4>3. j \in Len(landing) + 1 .. Len(landing')
        BY <1>9, <4>2
      <4>4. i - Len(landing) = j - Len(landing)
        BY <2>5, <3>0, <3>2, <4>3
      <4> QED BY <1>8, <3>2, <4>3, <4>4
    <3> QED BY <1>9, <3>1, <3>2
  <2>9. Reserving(engine') \subseteq 1 .. minted \ FsSpaces
    BY <1>6, <2>1, <2>3 DEF s
  <2>10. (\A i \in DOMAIN landing : Own(landing[i]) =>
          landing[i].space \in Reserving(engine) \cup Gone)'
    BY <1>7, <2>7 DEF Own
  <2> QED BY <1>2, <1>7, <2>8, <2>9, <2>10 DEF Standing
<1> QED BY <1>10, <1>11 DEF Careful
-----------------------------------------------------------------------------
\* The daemon's steps.
LEMMA ObservationIs ==
  ASSUME Formed, NEW late
  PROVE  /\ DecidesOn(engine, native.order, Observation(late))
         /\ Observation(late).obs =
              [order |-> native.order, focus |-> native.focus, at |-> native.at]
<1> DEFINE seen == [order |-> native.order, focus |-> native.focus, at |-> native.at]
<1>1. seen.order = native.order
  OBVIOUS
<1> HIDE DEF seen
<1>2. IsSeq(seen.order) /\ Shaped(engine) /\ config \in Configs
  BY <1>1 DEF Formed
<1>3. Observation(late) = ApplySnapshot(engine, seen, native.sa, config, late)
  BY DEF Observation, seen
<1> QED BY <1>1, <1>2, <1>3, SnapshotDecides DEF seen

\* A space create or space destroy command is not the engine's.
LEMMA SpaceCommandIs ==
  ASSUME NEW e, Shaped(e), e.out = <<>>, NEW a
  PROVE  LET f == Emit(e, a)
         IN  /\ Shaped(f) /\ Reserving(f) = Reserving(e) /\ Len(f.out) = 1 /\ f.out[1] = a
<1> DEFINE f == Emit(e, a)
<1>1. /\ DOMAIN f = Fields /\ f.out = Append(e.out, a) /\ f.obs = e.obs /\ f.ws = e.ws
      /\ f.pendingNewSpace = e.pendingNewSpace /\ f.pendingCreations = e.pendingCreations
      /\ f.pendingDestroy = e.pendingDestroy /\ f.topologyDestroy = e.topologyDestroy
      /\ Named(f)
  BY DEF Emit, Shaped, Named, Fields
<1> HIDE DEF f
<1>2. IsSeq(e.out) /\ Len(e.out) = 0
  BY DEF IsSeq
<1>3. IsSeq(f.out) /\ Len(f.out) = Len(e.out) + 1 /\ f.out[Len(e.out) + 1] = a
  <2>1. PICK o : o = e.out
    OBVIOUS
  <2>2. IsSeq(Append(o, a)) /\ Len(Append(o, a)) = Len(o) + 1 /\ Append(o, a)[Len(o) + 1] = a
    BY <1>2, <2>1, AppendIs
  <2> QED BY <1>1, <2>1, <2>2
<1>4. Len(f.out) = 1 /\ f.out[1] = a
  BY <1>2, <1>3
<1>5. Shaped(f) /\ Reserving(f) = Reserving(e)
  BY <1>1, <1>3 DEF Shaped, Reserving
<1> QED BY <1>4, <1>5 DEF f

\* What the daemon's steps run: an observation, a command that decides nothing,
\* or a command on a Space.
LEMMA DaemonIs ==
  ASSUME Formed, Daemon
  PROVE  \/ \E late : ExecuteTracked(Observation(late)) /\ UNCHANGED <<config, minted>>
         \/ \E f : /\ Kept(engine, f) /\ ExecuteTracked(f) /\ UNCHANGED <<config, minted>>
         \/ /\ "space" \in Kinds /\ UNCHANGED <<config, minted>>
            /\ \E a : a.arg = ByCommand /\ ExecuteTracked(Emit(engine, a))
         \/ /\ Same(engine, engine') /\ config' \in Configs
            /\ UNCHANGED <<native, landing, minted>>
<1>1. CASE Refresh
  BY <1>1 DEF Refresh, Observe
<1>2. ASSUME NEW n \in Names, FocusCommand(n)
      PROVE  \E f : Kept(engine, f) /\ ExecuteTracked(f) /\ UNCHANGED <<config, minted>>
  BY <1>2, FocusKept DEF FocusCommand, Formed
<1>3. ASSUME NEW w, NEW n \in Names, MoveCommand(w, n)
      PROVE  \E f : Kept(engine, f) /\ ExecuteTracked(f) /\ UNCHANGED <<config, minted>>
  BY <1>3, MoveKept DEF MoveCommand, Formed
<1>4. ASSUME NEW w, NewSpaceCommand(w)
      PROVE  \E f : Kept(engine, f) /\ ExecuteTracked(f) /\ UNCHANGED <<config, minted>>
  BY <1>4, NewSpaceCommandKept DEF NewSpaceCommand, Formed
<1>5. ASSUME NEW a, a.arg = ByCommand, SpaceCommand(a)
      PROVE  /\ "space" \in Kinds /\ UNCHANGED <<config, minted>>
             /\ \E b : b.arg = ByCommand /\ ExecuteTracked(Emit(engine, b))
  BY <1>5 DEF SpaceCommand, Budget
<1>6. /\ Create(ByCommand).arg = ByCommand
      /\ \A s : UserDestroy(s).arg = ByCommand
  BY DEF Create, UserDestroy, Destroy
<1>7. ASSUME NEW new \in Configs, Reload(new)
      PROVE  /\ Same(engine, engine') /\ config' \in Configs
             /\ UNCHANGED <<native, landing, minted>>
  BY <1>7, ReloadSame DEF Reload, world, Formed
<1> QED BY <1>1, <1>2, <1>3, <1>4, <1>5, <1>6, <1>7 DEF Daemon

-----------------------------------------------------------------------------
\* The strip of macOS.  What is left of it when a Space goes.
LEMMA RestIs ==
  ASSUME NEW order, IsSeq(order), NEW s
  PROVE  /\ IsSeq(Rest(order, s)) /\ ToSet(Rest(order, s)) \subseteq ToSet(order) \ {s}
         /\ Once(order) => Once(Rest(order, s))
<1> DEFINE I == {i \in DOMAIN order : order[i] # s}
           rest == Chosen(order, I)
<1>1. Rest(order, s) = rest
  BY DEF Rest
<1>2. I \subseteq DOMAIN order
  OBVIOUS
<1> HIDE DEF I
<1>3. /\ IsSeq(rest) /\ Len(rest) = Cardinality(I)
      /\ \A k \in 1 .. Cardinality(I) : \E i \in I : rest[k] = order[i] /\ Rank(I, i) = k
  BY <1>2, ChosenIs
<1> HIDE DEF rest
<1>4. DOMAIN rest = 1 .. Cardinality(I)
  BY <1>3, SeqIs
<1>5. ToSet(rest) \subseteq ToSet(order) \ {s}
  BY <1>3, <1>4 DEF I, ToSet
<1>6. ASSUME Once(order), NEW k \in DOMAIN rest, NEW l \in DOMAIN rest, rest[k] = rest[l]
      PROVE  k = l
  <2>1. PICK i \in I, j \in I : /\ rest[k] = order[i] /\ Rank(I, i) = k
                                /\ rest[l] = order[j] /\ Rank(I, j) = l
    BY <1>3, <1>4
  <2>2. i = j
    BY <1>2, <1>6, <2>1 DEF Once
  <2> QED BY <2>1, <2>2
<1> QED BY <1>1, <1>3, <1>5, <1>6 DEF Once

LEMMA InsertedIs ==
  ASSUME NEW s, NEW j, NEW x
  PROVE  InsertAt(s, j, x) = (SubSeq(s, 1, j - 1) \o <<x>>) \o SubSeq(s, j, Len(s))
  BY DEF InsertAt

LEMMA InsertIs ==
  ASSUME NEW s, IsSeq(s), NEW i \in 0 .. Len(s), NEW x
  PROVE  /\ IsSeq(InsertAt(s, i + 1, x))
         /\ ToSet(InsertAt(s, i + 1, x)) \subseteq ToSet(s) \cup {x}
         /\ Once(s) /\ x \notin ToSet(s) => Once(InsertAt(s, i + 1, x))
<1>1. PICK T : s \in Seq(T)
  BY DEF IsSeq
<1> DEFINE E == {s[j] : j \in DOMAIN s} \cup {x}
<1>2. Len(s) \in Nat /\ DOMAIN s = 1 .. Len(s)
  BY SeqIs
<1>3. \A j \in 1 .. Len(s) : s[j] \in E
  BY <1>2
<1> HIDE DEF E
<1>4. SubSeq(s, 1, i + 1 - 1) \in Seq(E)
  <2>1. i + 1 - 1 \in Int /\ 1 \in Int /\ \A j \in 1 .. i + 1 - 1 : s[j] \in E
    BY <1>2, <1>3
  <2> QED BY <2>1, SubSeqProperties
<1>5. SubSeq(s, i + 1, Len(s)) \in Seq(E)
  <2>1. i + 1 \in Int /\ Len(s) \in Int /\ \A j \in i + 1 .. Len(s) : s[j] \in E
    BY <1>2, <1>3
  <2> QED BY <2>1, SubSeqProperties
<1>6. <<x>> \in Seq(E)
  BY DEF E
<1>7. InsertAt(s, i + 1, x) \in Seq(E)
  <2>1. PICK a, b, c : /\ a = SubSeq(s, 1, i + 1 - 1) /\ b = <<x>>
                       /\ c = SubSeq(s, i + 1, Len(s))
    OBVIOUS
  <2>2. (a \o b) \o c \in Seq(E)
    BY <1>4, <1>5, <1>6, <2>1, ConcatProperties
  <2> QED BY <2>1, <2>2 DEF InsertAt
<1>8. ASSUME NEW t, t \in Seq(E) PROVE IsSeq(t) /\ ToSet(t) \subseteq E
  <2>1. \A j \in DOMAIN t : t[j] \in E
    BY <1>8
  <2> QED BY <1>8, <2>1 DEF IsSeq, ToSet
<1>9. E \subseteq ToSet(s) \cup {x}
  BY DEF E, ToSet
<1>10. PICK a, c : a = SubSeq(s, 1, i) /\ c = SubSeq(s, i + 1, Len(s))
  OBVIOUS
<1>11. /\ IsSeq(a) /\ Len(a) = i /\ \A j \in 1 .. i : a[j] = s[j]
  BY <1>10, PrefixIs
<1>12. /\ IsSeq(c) /\ Len(c) = Len(s) - i /\ \A j \in 1 .. Len(s) - i : c[j] = s[j + i]
  BY <1>10, SuffixIs
<1>14. PICK t : t = InsertAt(s, i + 1, x)
  OBVIOUS
<1>15. /\ Len(t) = Len(s) + 1 /\ \A j \in 1 .. i : t[j] = s[j]
       /\ t[i + 1] = x /\ \A j \in 1 .. Len(s) - i : t[i + 1 + j] = s[j + i]
  <2>1. PICK ab : ab = Append(a, x)
    OBVIOUS
  <2>2. /\ IsSeq(ab) /\ Len(ab) = i + 1 /\ \A j \in 1 .. i : ab[j] = a[j]
        /\ ab[i + 1] = x
    BY <1>11, <2>1, AppendIs
  <2>3. t = ab \o c
    <3>1. i + 1 - 1 = i
      BY <1>2
    <3>2. Append(a, x) = a \o <<x>>
      BY <1>11, AppendIsConcat DEF IsSeq
    <3>3. InsertAt(s, i + 1, x) = (a \o <<x>>) \o c
      <4>1. PICK j : j = i + 1
        OBVIOUS
      <4>2. InsertAt(s, j, x) = (SubSeq(s, 1, j - 1) \o <<x>>) \o SubSeq(s, j, Len(s))
        BY InsertedIs
      <4>3. j - 1 = i
        BY <3>1, <4>1
      <4> QED BY <1>10, <4>1, <4>2, <4>3
    <3> QED BY <1>14, <2>1, <3>2, <3>3, Zenon
  <2>4. /\ Len(t) = Len(ab) + Len(c) /\ \A j \in 1 .. Len(ab) : t[j] = ab[j]
        /\ \A j \in 1 .. Len(c) : t[Len(ab) + j] = c[j]
    <3>1. IsSeq(ab) /\ IsSeq(c)
      BY <1>12, <2>2
    <3>2. /\ Len(ab \o c) = Len(ab) + Len(c) /\ \A j \in 1 .. Len(ab) : (ab \o c)[j] = ab[j]
          /\ \A j \in 1 .. Len(c) : (ab \o c)[Len(ab) + j] = c[j]
      BY <3>1, ConcatIs
    <3> QED BY <2>3, <3>2
  <2>5. Len(t) = Len(s) + 1
    BY <1>2, <1>12, <2>2, <2>4
  <2>6. \A j \in 1 .. i + 1 : t[j] = ab[j]
    BY <2>2, <2>4
  <2>7. ASSUME NEW j \in 1 .. i PROVE t[j] = s[j]
    <3>1. j \in 1 .. i + 1
      BY <1>2
    <3> QED BY <1>11, <2>2, <2>6, <3>1
  <2>8. i + 1 \in 1 .. i + 1
    BY <1>2
  <2>9. \A j \in 1 .. Len(s) - i : t[i + 1 + j] = s[j + i]
    BY <1>12, <2>2, <2>4
  <2> QED BY <2>2, <2>5, <2>6, <2>7, <2>8, <2>9
<1>16. IsSeq(t) /\ ToSet(t) \subseteq E
  BY <1>7, <1>8, <1>14
<1>17. DOMAIN t = 1 .. Len(s) + 1
  BY <1>15, <1>16, SeqIs
<1>18. ASSUME Once(s), x \notin ToSet(s), NEW j \in DOMAIN t, NEW k \in DOMAIN t, t[j] = t[k]
       PROVE  j = k
  <2> DEFINE old(l) == IF l < i + 1 THEN l ELSE l - 1
  <2>1. ASSUME NEW l \in DOMAIN t, l # i + 1 PROVE old(l) \in DOMAIN s /\ t[l] = s[old(l)]
    <3>1. CASE l < i + 1
      <4>1. l \in 1 .. i /\ l \in 1 .. Len(s)
        BY <1>2, <1>17, <2>1, <3>1
      <4> QED BY <1>2, <1>15, <3>1, <4>1
    <3>2. CASE ~(l < i + 1)
      <4>1. /\ l - i - 1 \in 1 .. Len(s) - i /\ i + 1 + (l - i - 1) = l
            /\ (l - i - 1) + i = l - 1 /\ l - 1 \in 1 .. Len(s)
        BY <1>2, <1>17, <2>1, <3>2
      <4>2. t[i + 1 + (l - i - 1)] = s[(l - i - 1) + i]
        BY <1>15, <4>1
      <4> QED BY <1>2, <3>2, <4>1, <4>2
    <3> QED BY <3>1, <3>2
  <2>2. ASSUME NEW l \in DOMAIN t, l # i + 1 PROVE t[l] # x
    BY <1>18, <2>1, <2>2 DEF ToSet
  <2>3. CASE j = i + 1 \/ k = i + 1
    BY <1>15, <1>18, <2>2, <2>3
  <2>4. CASE j # i + 1 /\ k # i + 1
    <3>1. old(j) = old(k)
      BY <1>18, <2>1, <2>4 DEF Once
    <3> QED BY <1>2, <1>17, <2>4, <3>1
  <2> QED BY <2>3, <2>4
<1>19. Once(s) /\ x \notin ToSet(s) => Once(t)
  BY <1>18 DEF Once
<1> QED BY <1>9, <1>14, <1>16, <1>19

\* A strip becomes another: its old Spaces, fullscreen Spaces and new ids.
Strip(nat, nat2, m, m2) ==
  /\ DOMAIN nat2 = {"order", "focus", "at", "sa"} /\ IsSeq(nat2.order) /\ Once(nat2.order)
  /\ m2 \in Nat /\ m <= m2
  /\ ToSet(nat2.order) \subseteq ToSet(nat.order) \cup FsSpaces \cup m + 1 .. m2

LEMMA RemovedStrip ==
  ASSUME Formed, NEW s
  PROVE  Strip(native, Removed(native, s), minted, minted)
<1>1. /\ DOMAIN Removed(native, s) = DOMAIN native
      /\ Removed(native, s).order = Rest(native.order, s)
  BY DEF Removed, Formed
<1>2. minted \in Nat /\ minted <= minted
  BY DEF Formed
<1> QED BY <1>1, <1>2, RestIs DEF Strip, Formed

LEMMA ReorderedStrip ==
  ASSUME Formed, NEW s, NEW t
  PROVE  Strip(native, Reordered(native, s, t), minted, minted)
<1> DEFINE rest == Rest(native.order, s)
           I == {j \in 1 .. Len(rest) : rest[j] = t}
           i == IF I # {} THEN Min(I) ELSE 0
           moved == [native EXCEPT !.order = InsertAt(rest, i + 1, s)]
<1>1. \/ Reordered(native, s, t) = native
      \/ s \in ToSet(native.order) /\ Reordered(native, s, t) = moved
  BY DEF Reordered, SelectInSeq
<1>2. IsSeq(rest) /\ ToSet(rest) \subseteq ToSet(native.order) \ {s} /\ Once(rest)
  BY RestIs DEF Formed
<1> HIDE DEF rest
<1>3. i \in 0 .. Len(rest)
  <2>1. Len(rest) \in Nat
    BY <1>2, SeqIs
  <2>2. I \subseteq 1 .. Len(rest)
    OBVIOUS
  <2> HIDE DEF I
  <2>3. I \in SUBSET Nat /\ IsFiniteSet(I)
    <3>1. IsFiniteSet(1 .. Len(rest))
      BY <2>1, FS_Interval
    <3>2. IsFiniteSet(I)
      BY <2>2, <3>1, FS_Subset
    <3> QED BY <2>1, <2>2, <3>2
  <2>4. CASE I # {}
    <3>1. Min(I) \in 1 .. Len(rest)
      BY <2>2, <2>3, <2>4, MinMaxIs
    <3> QED BY <2>1, <2>4, <3>1
  <2>5. CASE I = {}
    BY <2>1, <2>5
  <2> QED BY <2>4, <2>5
<1> HIDE DEF i
<1>4. DOMAIN moved = DOMAIN native /\ moved.order = InsertAt(rest, i + 1, s)
  BY DEF Formed
<1> HIDE DEF moved
<1>5. minted \in Nat /\ minted <= minted
  BY DEF Formed
<1>6. CASE Reordered(native, s, t) = native
  BY <1>5, <1>6 DEF Strip, Formed
<1>7. CASE s \in ToSet(native.order) /\ Reordered(native, s, t) = moved
  <2>1. /\ IsSeq(moved.order) /\ ToSet(moved.order) \subseteq ToSet(rest) \cup {s}
        /\ Once(moved.order)
    BY <1>2, <1>3, <1>4, InsertIs
  <2> QED BY <1>2, <1>4, <1>5, <1>7, <2>1 DEF Strip, Formed
<1> QED BY <1>1, <1>6, <1>7

LEMMA AppendStrip ==
  ASSUME Formed, NEW nat2, NEW x, NEW m \in Nat, minted <= m,
         x \in FsSpaces \cup minted + 1 .. m, x \notin Spaces,
         DOMAIN nat2 = DOMAIN native, nat2.order = Append(native.order, x)
  PROVE  Strip(native, nat2, minted, m)
<1>1. IsSeq(native.order) /\ Len(native.order) \in Nat
  BY SeqIs DEF Formed
<1>2. /\ IsSeq(nat2.order) /\ Len(nat2.order) = Len(native.order) + 1
      /\ nat2.order[Len(native.order) + 1] = x
      /\ \A i \in 1 .. Len(native.order) : nat2.order[i] = native.order[i]
  BY <1>1, AppendIs
<1>3. DOMAIN nat2.order = 1 .. Len(native.order) + 1 /\ DOMAIN native.order = 1 .. Len(native.order)
  BY <1>1, <1>2, SeqIs
<1>4. ASSUME NEW i \in DOMAIN nat2.order
      PROVE  nat2.order[i] \in ToSet(native.order) \cup {x}
  <2>1. i \in 1 .. Len(native.order) \/ i = Len(native.order) + 1
    BY <1>1, <1>3
  <2> QED BY <1>2, <1>3, <2>1 DEF ToSet
<1>5. ToSet(nat2.order) \subseteq ToSet(native.order) \cup {x}
  BY <1>4 DEF ToSet
<1>6. Once(nat2.order)
  <2> SUFFICES ASSUME NEW i \in DOMAIN nat2.order, NEW j \in DOMAIN nat2.order,
                      nat2.order[i] = nat2.order[j]
               PROVE  i = j
    BY DEF Once
  <2>1. \A k \in 1 .. Len(native.order) : nat2.order[k] # x
    BY <1>2, <1>3 DEF Spaces, ToSet
  <2>2. /\ i \in 1 .. Len(native.order) \/ i = Len(native.order) + 1
        /\ j \in 1 .. Len(native.order) \/ j = Len(native.order) + 1
    BY <1>1, <1>3
  <2>3. CASE i \in 1 .. Len(native.order) /\ j \in 1 .. Len(native.order)
    BY <1>2, <1>3, <2>3 DEF Formed, Once
  <2> QED BY <1>2, <2>1, <2>2, <2>3
<1> QED BY <1>2, <1>5, <1>6 DEF Strip, Formed

LEMMA RebuiltStrip ==
  ASSUME Formed, DockRebuilds
  PROVE  Strip(native, native', minted, minted') /\ UNCHANGED <<engine, config, landing>>
<1> DEFINE n == Cardinality(Users)
           new == [i \in 1 .. n |-> minted + i]
<1>1. n \in Nat /\ minted \in Nat
  <2>1. Users \subseteq 1 .. minted /\ minted \in Nat
    BY DEF Users, Formed
  <2>2. IsFiniteSet(1 .. minted)
    BY <2>1, FS_Interval
  <2>3. IsFiniteSet(Users)
    BY <2>1, <2>2, FS_Subset
  <2> QED BY <2>1, <2>3, FS_CardinalityType
<1>2. minted' = minted + n /\ UNCHANGED <<engine, config, landing>>
  BY DEF DockRebuilds, ByUser
<1>3. DOMAIN native' = DOMAIN native /\ native'.order = new
  BY DEF DockRebuilds, ByUser, Formed
<1> HIDE DEF n
<1>4. new \in Seq(minted + 1 .. minted + n)
  <2>1. \A i \in 1 .. n : minted + i \in minted + 1 .. minted + n
    BY <1>1
  <2> QED BY <1>1, <2>1
<1>7. Once(new)
  BY <1>1 DEF Once
<1> HIDE DEF new
<1>5. IsSeq(new) /\ ToSet(new) \subseteq minted + 1 .. minted + n
  <2>1. IsSeq(new)
    BY <1>4 DEF IsSeq
  <2>2. DOMAIN new = 1 .. Len(new)
    BY <2>1, SeqIs
  <2> DEFINE T == minted + 1 .. minted + n
  <2> HIDE DEF T
  <2>3. new \in Seq(T)
    BY <1>4 DEF T
  <2>4. \A i \in DOMAIN new : new[i] \in T
    BY <2>2, <2>3, ElementOfSeq
  <2> QED BY <2>1, <2>4 DEF ToSet, T
<1>6. minted' \in Nat /\ minted <= minted'
  BY <1>1, <1>2
<1> QED BY <1>2, <1>3, <1>5, <1>6, <1>7 DEF Strip, Formed

\* macOS: the engine stays as it is, an acknowledged mutation is taken off, and
\* no Space comes back.
LEMMA MacOSIs ==
  ASSUME Formed, MacOS
  PROVE  /\ UNCHANGED <<engine, config>> /\ Strip(native, native', minted, minted')
         /\ \/ landing' = landing
            \/ \E i \in DOMAIN landing : landing' = RemoveAt(landing, i)
<1> DEFINE Goes == /\ UNCHANGED <<engine, config>> /\ Strip(native, native', minted, minted')
                   /\ \/ landing' = landing
                      \/ \E i \in DOMAIN landing : landing' = RemoveAt(landing, i)
<1>1. Strip(native, native, minted, minted)
  BY DEF Strip, Formed
<1>2. ASSUME NEW nat, DOMAIN nat = DOMAIN native, nat.order = native.order
      PROVE  Strip(native, nat, minted, minted)
  BY <1>2 DEF Strip, Formed
<1>3. minted \in Nat /\ minted + 1 \in Nat /\ minted <= minted + 1
      /\ minted + 1 \in minted + 1 .. minted + 1
  BY DEF Formed
<1>4. ASSUME minted < MaxSpace
      PROVE  Strip(native, Appended(native, minted + 1), minted, minted + 1)
  <2>2. minted + 1 \notin Spaces
    <3>1. MaxSpace \in Nat /\ FsSpaces \cap 1 .. MaxSpace = {}
      BY WorkspacesAssumption
    <3>2. minted + 1 \in 1 .. MaxSpace /\ minted + 1 \notin 1 .. minted
      BY <1>3, <1>4, <3>1
    <3> QED BY <3>1, <3>2 DEF Formed
  <2>1. /\ DOMAIN Appended(native, minted + 1) = DOMAIN native
        /\ Appended(native, minted + 1).order = Append(native.order, minted + 1)
    BY DEF Appended, Formed
  <2> QED BY <1>3, <2>1, <2>2, AppendStrip
<1>5. ASSUME NEW i \in DOMAIN landing, Land(i) PROVE Goes
  <2>1. UNCHANGED <<engine, config>> /\ landing' = RemoveAt(landing, i)
    BY <1>5 DEF Land
  <2>2. Strip(native, native', minted, minted')
    <3>1. \/ minted < MaxSpace /\ minted' = minted + 1 /\ native' = Appended(native, minted')
          \/ minted' = minted /\ native' \in {native, Removed(native, landing[i].space)}
          \/ minted' = minted /\ native' = Reordered(native, landing[i].space, landing[i].arg)
      BY <1>5 DEF Land
    <3>2. CASE minted < MaxSpace /\ minted' = minted + 1 /\ native' = Appended(native, minted')
      BY <1>4, <3>2
    <3>3. CASE minted' = minted /\ native' \in {native, Removed(native, landing[i].space)}
      BY <1>1, <3>3, RemovedStrip
    <3>4. CASE minted' = minted /\ native' = Reordered(native, landing[i].space, landing[i].arg)
      BY <3>4, ReorderedStrip
    <3> QED BY <3>1, <3>2, <3>3, <3>4
  <2> QED BY <2>1, <2>2
<1>6. ASSUME NEW i \in DOMAIN landing, Drop(i) PROVE Goes
  BY <1>1, <1>6 DEF Drop
<1>7. ASSUME UserCreatesSpace PROVE Goes
  BY <1>4, <1>7 DEF UserCreatesSpace, ByUser
<1>8. ASSUME DockRebuilds PROVE Goes
  BY <1>8, RebuiltStrip
<1>9. ASSUME SaChanges PROVE Goes
  <2>1. DOMAIN native' = DOMAIN native /\ native'.order = native.order
    BY <1>9 DEF SaChanges, ByUser, Formed
  <2>2. UNCHANGED <<engine, config, landing, minted>>
    BY <1>9 DEF SaChanges, ByUser
  <2> QED BY <1>2, <2>1, <2>2
<1>10. ASSUME NEW s, UserRemovesSpace(s) PROVE Goes
  BY <1>10, RemovedStrip DEF UserRemovesSpace, ByUser
<1>11. ASSUME NEW s, UserFocuses(s) PROVE Goes
  <2>1. DOMAIN native' = DOMAIN native /\ native'.order = native.order
    BY <1>11 DEF UserFocuses, ByUser, Formed
  <2>2. UNCHANGED <<engine, config, landing, minted>>
    BY <1>11 DEF UserFocuses, ByUser
  <2> QED BY <1>2, <2>1, <2>2
<1>12. ASSUME NEW s, NEW t, UserReordersSpaces(s, t) PROVE Goes
  BY <1>12, ReorderedStrip DEF UserReordersSpaces, ByUser
<1>13. ASSUME NEW w, NEW s, WindowGoes(w, s) PROVE Goes
  <2>1. DOMAIN native' = DOMAIN native /\ native'.order = native.order
    BY <1>13 DEF WindowGoes, ByUser, Formed
  <2>2. UNCHANGED <<engine, config, landing, minted>>
    BY <1>13 DEF WindowGoes, ByUser
  <2> QED BY <1>2, <2>1, <2>2
<1>14. ASSUME NEW w, NEW f \in FsSpaces, EntersFullscreen(w, f) PROVE Goes
  <2>1. UNCHANGED <<engine, config, landing, minted>>
    BY <1>14 DEF EntersFullscreen, ByUser
  <2>2. /\ DOMAIN native' = DOMAIN native
        /\ \/ native'.order = native.order
           \/ f \notin Spaces /\ native'.order = Append(native.order, f)
    BY <1>14 DEF EntersFullscreen, ByUser, Formed
  <2>3. CASE native'.order = native.order
    BY <1>2, <2>1, <2>2, <2>3
  <2>4. CASE f \notin Spaces /\ native'.order = Append(native.order, f)
    <3>1. Strip(native, native', minted, minted)
      BY <1>3, <2>2, <2>4, AppendStrip
    <3> QED BY <2>1, <3>1
  <2> QED BY <2>2, <2>3, <2>4
<1>15. ASSUME NEW f, LeavesFullscreen(f) PROVE Goes
  BY <1>15, RemovedStrip DEF LeavesFullscreen, ByUser
<1> HIDE DEF Goes
<1>16. Goes
  <2>1. CASE \E i \in DOMAIN landing : Land(i) \/ Drop(i)
    BY <1>5, <1>6, <2>1
  <2>2. CASE UserCreatesSpace \/ DockRebuilds \/ SaChanges
    BY <1>7, <1>8, <1>9, <2>2
  <2>3. CASE \E s \in Spaces : UserRemovesSpace(s) \/ UserFocuses(s)
    BY <1>10, <1>11, <2>3
  <2>4. CASE \E s, t \in Spaces : UserReordersSpaces(s, t)
    BY <1>12, <2>4
  <2>5. CASE \E w \in Windows, s \in Spaces \cup {None, Elsewhere} : WindowGoes(w, s)
    BY <1>13, <2>5
  <2>6. CASE \E w \in Windows, f \in FsSpaces : EntersFullscreen(w, f)
    BY <1>14, <2>6
  <2>7. CASE \E f \in FsSpaces : LeavesFullscreen(f)
    BY <1>15, <2>7
  <2> QED BY <2>1, <2>2, <2>3, <2>4, <2>5, <2>6, <2>7 DEF MacOS
<1> QED BY <1>16 DEF Goes
LEMMA MacOSFormed == ASSUME Formed, MacOS PROVE Formed'
<1>1. /\ UNCHANGED <<engine, config>> /\ Strip(native, native', minted, minted')
      /\ \/ landing' = landing
         \/ \E i \in DOMAIN landing : landing' = RemoveAt(landing, i)
  BY MacOSIs
<1>2. IsSeq(landing')
  BY <1>1, RemoveAtIs DEF Formed
<1>3. Shaped(engine)'
  BY <1>1 DEF Formed, Shaped
<1>4. Spaces' \subseteq 1 .. minted' \cup FsSpaces
  <2>1. Spaces' \subseteq Spaces \cup FsSpaces \cup minted + 1 .. minted'
    BY <1>1 DEF Strip, Spaces
  <2>2. minted \in Nat /\ minted' \in Nat /\ minted <= minted'
    BY <1>1 DEF Strip, Formed
  <2>3. 1 .. minted \subseteq 1 .. minted' /\ minted + 1 .. minted' \subseteq 1 .. minted'
    BY <2>2
  <2> QED BY <2>1, <2>3 DEF Formed
<1> QED BY <1>1, <1>2, <1>3, <1>4 DEF Formed, Strip

LEMMA MacOSStanding == ASSUME Standing, MacOS PROVE Standing'
<1>1. Formed /\ Formed'
  BY MacOSFormed DEF Standing
<1>2. /\ UNCHANGED <<engine, config>> /\ Strip(native, native', minted, minted')
      /\ \/ landing' = landing
         \/ \E i \in DOMAIN landing : landing' = RemoveAt(landing, i)
  BY <1>1, MacOSIs
<1>3. Reserving(engine)' = Reserving(engine)
  BY <1>2 DEF Reserving
<1>4. minted \in Nat /\ minted' \in Nat /\ minted <= minted'
  BY <1>1, <1>2 DEF Strip, Formed
<1>5. 1 .. minted \subseteq 1 .. minted' /\ \A x \in minted + 1 .. minted' : x \notin 1 .. minted
  BY <1>4
<1>6. Gone \subseteq Gone'
  <2>1. Spaces' \subseteq Spaces \cup FsSpaces \cup minted + 1 .. minted'
    BY <1>2 DEF Strip, Spaces
  <2> QED BY <1>5, <2>1 DEF Gone
<1>7. Reserving(engine)' \subseteq 1 .. minted' \ FsSpaces
  BY <1>3, <1>5 DEF Standing
\* What is left was there, at places of its own.
<1>8. \/ landing' = landing
      \/ \E i \in DOMAIN landing :
           /\ \A j \in DOMAIN landing' :
                /\ (IF j < i THEN j ELSE j + 1) \in DOMAIN landing
                /\ landing'[j] = landing[IF j < i THEN j ELSE j + 1]
           /\ \A j, k \in DOMAIN landing' :
                (IF j < i THEN j ELSE j + 1) = (IF k < i THEN k ELSE k + 1) => j = k
  <2> SUFFICES ASSUME NEW i \in DOMAIN landing, landing' = RemoveAt(landing, i)
               PROVE  /\ \A j \in DOMAIN landing' :
                           /\ (IF j < i THEN j ELSE j + 1) \in DOMAIN landing
                           /\ landing'[j] = landing[IF j < i THEN j ELSE j + 1]
                      /\ \A j, k \in DOMAIN landing' :
                           (IF j < i THEN j ELSE j + 1) = (IF k < i THEN k ELSE k + 1)
                             => j = k
    BY <1>2
  <2>1. IsSeq(landing) /\ IsSeq(landing')
    BY <1>1 DEF Formed
  <2>2. /\ Len(landing') = Len(landing) - 1
        /\ \A j \in 1 .. Len(landing) - 1 :
             landing'[j] = landing[IF j < i THEN j ELSE j + 1]
    BY <2>1, RemoveAtIs
  <2>3. /\ Len(landing) \in Nat /\ DOMAIN landing = 1 .. Len(landing)
        /\ DOMAIN landing' = 1 .. Len(landing) - 1
    BY <2>1, <2>2, SeqIs
  <2>4. ASSUME NEW j \in DOMAIN landing'
        PROVE  (IF j < i THEN j ELSE j + 1) \in DOMAIN landing
    BY <2>3
  <2>5. ASSUME NEW j \in DOMAIN landing', NEW k \in DOMAIN landing',
               (IF j < i THEN j ELSE j + 1) = (IF k < i THEN k ELSE k + 1)
        PROVE  j = k
    BY <2>3, <2>5
  <2> QED BY <2>2, <2>3, <2>4, <2>5
<1>9. \A j \in DOMAIN landing' : \E k \in DOMAIN landing : landing'[j] = landing[k]
  BY <1>8
<1>10. \A j \in DOMAIN landing' : Own(landing'[j]) =>
         landing'[j].space \in Reserving(engine)' \cup Gone'
  BY <1>3, <1>6, <1>9 DEF Standing
<1>11. NoDoubleDestroy'
  <2> SUFFICES ASSUME NEW j \in DOMAIN landing', NEW k \in DOMAIN landing',
                      Own(landing'[j]), landing'[k] = landing'[j]
               PROVE  j = k
    BY DEF NoDoubleDestroy, Own
  <2>1. \A p, q \in DOMAIN landing : Own(landing[p]) /\ landing[q] = landing[p] => p = q
    BY DEF Standing, NoDoubleDestroy, Own
  <2>2. CASE landing' = landing
    BY <2>1, <2>2
  <2>3. CASE landing' # landing
    <3>1. PICK i \in DOMAIN landing :
           /\ \A m \in DOMAIN landing' :
                /\ (IF m < i THEN m ELSE m + 1) \in DOMAIN landing
                /\ landing'[m] = landing[IF m < i THEN m ELSE m + 1]
           /\ \A m, n \in DOMAIN landing' :
                (IF m < i THEN m ELSE m + 1) = (IF n < i THEN n ELSE n + 1) => m = n
      BY <1>8, <2>3
    <3>2. PICK p \in DOMAIN landing, q \in DOMAIN landing :
           /\ p = (IF j < i THEN j ELSE j + 1) /\ q = (IF k < i THEN k ELSE k + 1)
           /\ landing'[j] = landing[p] /\ landing'[k] = landing[q]
      BY <3>1
    <3>3. p = q
      BY <2>1, <3>2
    <3> QED BY <3>1, <3>2, <3>3
  <2> QED BY <2>2, <2>3
<1>12. (\A i \in DOMAIN landing : Own(landing[i]) =>
         landing[i].space \in Reserving(engine) \cup Gone)'
  BY <1>10 DEF Own
<1> QED BY <1>1, <1>7, <1>11, <1>12 DEF Standing

LEMMA DaemonFormed == ASSUME Formed, Daemon PROVE Formed'
<1>1. CASE \E late : ExecuteTracked(Observation(late)) /\ UNCHANGED <<config, minted>>
  <2>1. PICK late : ExecuteTracked(Observation(late))
    BY <1>1
  <2>2. Shaped(Observation(late))
    BY ObservationIs, DecidesShaped
  <2>3. UNCHANGED minted /\ config' \in Configs
    BY <1>1 DEF Formed
  <2> QED BY <2>1, <2>2, <2>3, ExecuteFormed
<1>2. CASE \E f : Kept(engine, f) /\ ExecuteTracked(f) /\ UNCHANGED <<config, minted>>
  <2>1. UNCHANGED minted /\ config' \in Configs
    BY <1>2 DEF Formed
  <2> QED BY <1>2, <2>1, ExecuteFormed DEF Kept
<1>3. CASE /\ UNCHANGED <<config, minted>>
           /\ \E a : a.arg = ByCommand /\ ExecuteTracked(Emit(engine, a))
  <2>1. PICK a : ExecuteTracked(Emit(engine, a))
    BY <1>3
  <2>2. Shaped(Emit(engine, a))
    BY SpaceCommandIs DEF Formed
  <2>3. UNCHANGED minted /\ config' \in Configs
    BY <1>3 DEF Formed
  <2> QED BY <2>1, <2>2, <2>3, ExecuteFormed
<1>4. CASE /\ Same(engine, engine') /\ config' \in Configs
           /\ UNCHANGED <<native, landing, minted>>
  <2>1. Shaped(engine)' /\ (engine.out = <<>>)'
    BY <1>4 DEF Formed, Same, Shaped
  <2>2. Spaces' = Spaces
    BY <1>4 DEF Spaces
  <2> QED BY <1>4, <2>1, <2>2 DEF Formed
<1> QED BY <1>1, <1>2, <1>3, <1>4, DaemonIs

\* The specification does not run a space destroy command.
LEMMA DaemonStanding ==
  ASSUME Standing, Daemon, "space" \notin Kinds
  PROVE  Standing'
<1>1. Formed /\ Plain(engine)
  BY DEF Standing, Formed, Plain
<1>2. CASE \E late : ExecuteTracked(Observation(late)) /\ UNCHANGED <<config, minted>>
  <2>1. PICK late : ExecuteTracked(Observation(late))
    BY <1>2
  <2> DEFINE f == Observation(late)
  <2>2. DecidesOn(engine, native.order, f) /\ f.obs.order = native.order
    BY <1>1, ObservationIs
  <2>3. Ordinary(f) = Users
    BY <2>2 DEF Ordinary, Observed, Users, Spaces
  <2>4. Careful(f)
    <3> HIDE DEF f
    <3> QED BY <2>2, <2>3 DEF Careful, DecidesOn, Spaces
  <2>5. UNCHANGED minted /\ config' \in Configs
    BY <1>1, <1>2 DEF Formed
  <2> QED BY <2>1, <2>4, <2>5, ExecuteStanding
<1>3. CASE \E f : Kept(engine, f) /\ ExecuteTracked(f) /\ UNCHANGED <<config, minted>>
  <2>1. PICK f : Kept(engine, f) /\ ExecuteTracked(f)
    BY <1>3
  <2>2. Careful(f)
    BY <1>1, <2>1, KeptPlain DEF Careful
  <2>3. UNCHANGED minted /\ config' \in Configs
    BY <1>1, <1>3 DEF Formed
  <2> QED BY <2>1, <2>2, <2>3, ExecuteStanding
<1>4. CASE /\ Same(engine, engine') /\ config' \in Configs
           /\ UNCHANGED <<native, landing, minted>>
  <2>1. Formed'
    BY <1>1, DaemonFormed
  <2>2. Reserving(engine)' = Reserving(engine) /\ Gone' = Gone
    BY <1>4 DEF Same, Reserving, Gone, Spaces
  <2>3. NoDoubleDestroy'
    BY <1>4 DEF Standing, NoDoubleDestroy
  <2> QED BY <1>4, <2>1, <2>2, <2>3 DEF Standing, Own
<1> QED BY <1>1, <1>2, <1>3, <1>4, DaemonIs

LEMMA InitFormed == ASSUME Init PROVE Formed /\ landing = <<>> /\ Reserving(engine) = {}
<1>1. IsSeq(<<>>) /\ IsSeq(<<1, 2>>) /\ ToSet(<<1, 2>>) = {1, 2}
  BY DEF IsSeq, ToSet
<1>2. Shaped(engine) /\ engine.out = <<>> /\ Reserving(engine) = {}
  BY <1>1 DEF Init, NewEngine, Shaped, Registry, Fields, Reserving, Named
<1>3. /\ DOMAIN native = {"order", "focus", "at", "sa"} /\ native.order = <<1, 2>>
      /\ Once(native.order)
  BY DEF Init, Once
<1>4. minted \in Nat /\ {1, 2} \subseteq 1 .. minted
  BY DEF Init
<1>5. Spaces \subseteq 1 .. minted
  BY <1>1, <1>3, <1>4 DEF Spaces
<1> QED BY <1>1, <1>2, <1>3, <1>4, <1>5 DEF Formed, Init

LEMMA NextFormed == ASSUME Formed, [Next]_vars PROVE Formed'
<1>1. CASE UNCHANGED vars
  BY <1>1 DEF vars, Formed, Shaped, Spaces
<1> QED BY <1>1, DaemonFormed, MacOSFormed DEF Next

LEMMA NextStanding ==
  ASSUME Standing, [Next]_vars, "space" \notin Kinds
  PROVE  Standing'
<1>1. CASE UNCHANGED vars
  <2>1. Formed'
    BY <1>1, NextFormed DEF Standing
  <2>2. /\ Reserving(engine)' = Reserving(engine) /\ Gone' = Gone /\ minted' = minted
        /\ landing' = landing
    BY <1>1 DEF vars, Reserving, Gone, Spaces
  <2>3. NoDoubleDestroy'
    BY <2>2 DEF Standing, NoDoubleDestroy
  <2> QED BY <2>1, <2>2, <2>3 DEF Standing, Own
<1> QED BY <1>1, DaemonStanding, MacOSStanding DEF Next

\* "successful destroys stand until the Space is proven gone (prevents double
\* destruction)" (engine.rs:642-644): where no space destroy command runs, whose
\* failure is the exception, the engine's destruction of a Space is on its way
\* only once, for any Spaces, windows, configurations, failures and delays.
THEOREM NoDoubleDestroyHolds ==
  ASSUME "space" \notin Kinds
  PROVE  Spec => []NoDoubleDestroy
<1>1. Init => Standing
  BY InitFormed DEF Standing, NoDoubleDestroy
<1>2. Standing /\ [Next]_vars => Standing'
  BY NextStanding
<1>3. Standing => NoDoubleDestroy
  BY DEF Standing
<1> QED BY <1>1, <1>2, <1>3, PTL DEF Spec
\* The engine decides to destroy a Space only when nobody is on it and it is
\* not the last one: the half of DestroysIdle that concerns macOS.
DestroysVacant == [][\A s \in Doomed : Vacant(s)]_vars

\* What a batch has had acknowledged are actions of the batch.
LEMMA DoomedIs ==
  ASSUME Formed, NEW f, Shaped(f), ExecuteTracked(f), NEW s \in Doomed
  PROVE  /\ engine'.ws = f.ws
         /\ \E j \in DOMAIN f.out :
              /\ Own(f.out[j]) /\ f.out[j].space = s
              /\ (\A i \in DOMAIN f.out : f.out[i].op = "destroy" => i = j)
                   => engine'.pendingDestroy = f.pendingDestroy
<1>1. PICK k \in 0 .. Len(f.out) :
        /\ IsSeq(landing') /\ Len(landing) <= Len(landing')
        /\ \A i \in Len(landing) + 1 .. Len(landing') :
             \E j \in 1 .. k : landing'[i] = f.out[j]
        /\ engine' = Left(f, k)
  BY BatchIs DEF Formed
<1>2. /\ Len(landing) \in Nat /\ Len(landing') \in Nat
      /\ Len(f.out) \in Nat /\ DOMAIN f.out = 1 .. Len(f.out)
  BY <1>1, SeqIs DEF Formed, Shaped
<1>3. PICK b \in ToSet(Issued) : b.op = "destroy" /\ b.arg = None /\ b.space = s
  BY DEF Doomed
<1>4. PICK p \in Len(landing) + 1 .. Len(landing') : b = landing'[p]
  <2>1. PICK l, a, z : l = landing' /\ a = Len(landing) + 1 /\ z = Len(landing')
    OBVIOUS
  <2>2. IsSeq(l) /\ a \in Nat /\ z \in Nat /\ 1 <= a /\ z <= Len(l)
    BY <1>1, <1>2, <2>1
  <2>3. /\ IsSeq(SubSeq(l, a, z))
        /\ Len(SubSeq(l, a, z)) = IF a <= z THEN z - a + 1 ELSE 0
        /\ \A m \in 1 .. z - a + 1 : SubSeq(l, a, z)[m] = l[a + m - 1]
    BY <2>2, PartIs
  <2>4. DOMAIN SubSeq(l, a, z) = 1 .. Len(SubSeq(l, a, z))
    BY <2>3, SeqIs
  <2>5. PICK m \in DOMAIN SubSeq(l, a, z) : b = SubSeq(l, a, z)[m]
    BY <1>3, <2>1 DEF Issued, ToSet
  <2>6. m \in 1 .. z - a + 1 /\ a + m - 1 \in a .. z
    <3>1. m \in 1 .. Len(SubSeq(l, a, z))
      BY <2>4, <2>5
    <3> QED BY <2>2, <2>3, <3>1
  <2>7. b = l[a + m - 1]
    BY <2>3, <2>5, <2>6
  <2> QED BY <2>1, <2>6, <2>7
<1>5. PICK j \in 1 .. k : landing'[p] = f.out[j]
  BY <1>1
<1>6. j \in DOMAIN f.out
  BY <1>2
<1>7. /\ engine'.ws = f.ws
      /\ (\A i \in k + 1 .. Len(f.out) : f.out[i].op # "destroy")
           => engine'.pendingDestroy = f.pendingDestroy
  BY <1>1, FailedIs
<1>8. ASSUME \A i \in DOMAIN f.out : f.out[i].op = "destroy" => i = j
      PROVE  engine'.pendingDestroy = f.pendingDestroy
  <2>1. ASSUME NEW i \in k + 1 .. Len(f.out) PROVE f.out[i].op # "destroy"
    <3>1. i \in DOMAIN f.out /\ i # j
      BY <1>2
    <3> QED BY <1>8, <3>1
  <2> QED BY <1>7, <2>1
<1> QED BY <1>3, <1>4, <1>5, <1>6, <1>7, <1>8 DEF Own

\* Nothing is acknowledged when the landing mutations do not grow.
LEMMA NotDoomed == ASSUME Formed, IsSeq(landing'), Len(landing') <= Len(landing) PROVE Doomed = {}
<1>1. Len(landing) \in Nat /\ Len(landing') \in Nat
  BY SeqIs DEF Formed
<1>2. PICK l, a, z : l = landing' /\ a = Len(landing) + 1 /\ z = Len(landing')
  OBVIOUS
<1>3. IsSeq(l) /\ a \in Nat /\ z \in Nat /\ 1 <= a /\ z <= Len(l) /\ ~(a <= z)
  BY <1>1, <1>2
<1>4. IsSeq(SubSeq(l, a, z)) /\ Len(SubSeq(l, a, z)) = 0
  BY <1>3, PartIs
<1>5. DOMAIN SubSeq(l, a, z) = {}
  <2>1. DOMAIN SubSeq(l, a, z) = 1 .. 0
    BY <1>4, SeqIs
  <2> QED BY <2>1
<1>6. ToSet(Issued) = {}
  BY <1>2, <1>5 DEF Issued, ToSet
<1> QED BY <1>6 DEF Doomed

LEMMA NextVacant ==
  ASSUME Formed, [Next]_vars, NEW s \in Doomed
  PROVE  Vacant(s) /\ s # None /\ Reason(engine', s)
<1>1. CASE Daemon
  <2>1. CASE \E late : ExecuteTracked(Observation(late)) /\ UNCHANGED <<config, minted>>
    <3>1. PICK late : ExecuteTracked(Observation(late))
      BY <2>1
    <3>2. PICK f : f = Observation(late)
      OBVIOUS
    <3>3. /\ DecidesOn(engine, native.order, f)
          /\ f.obs = [order |-> native.order, focus |-> native.focus, at |-> native.at]
      BY <3>2, ObservationIs
    <3>4. PICK j \in DOMAIN f.out : Own(f.out[j]) /\ f.out[j].space = s
      BY <3>1, <3>2, <3>3, DecidesShaped, DoomedIs
    <3>5. Spare(f, s)
      BY <3>3, <3>4 DEF DecidesOn, Plain, Own, Destroying
    <3>6. Ordinary(f) = Users /\ f.obs.focus = native.focus /\ f.obs.at = native.at
      BY <3>3 DEF Ordinary, Observed, Users, Spaces
    <3>7. s # None
      <4>1. s \in 1 .. minted /\ minted \in Nat
        BY <3>5, <3>6 DEF Spare, Users, Formed
      <4>2. s \in Nat
        BY <4>1
      <4> QED BY <4>2, WorkspacesAssumption
    <3>8. \A w \in Windows : native.at[w] # s
      BY <3>5, <3>6, <3>7 DEF Spare, Occupied
    <3>9. Reason(engine', s)
      <4>1. Destroying(f)
        BY <3>3, <3>4 DEF DecidesOn, Plain, Own
      <4>2. PICK i \in DOMAIN f.out :
              /\ Own(f.out[i]) /\ f.out[i].space = s
              /\ (\A m \in DOMAIN f.out : f.out[m].op = "destroy" => m = i)
                   => engine'.pendingDestroy = f.pendingDestroy
        BY <3>1, <3>2, <4>1, DoomedIs DEF Destroying
      <4>3. engine'.ws = f.ws
        BY <3>1, <3>2, <4>1, DoomedIs DEF Destroying
      <4>4. engine'.pendingDestroy = f.pendingDestroy
        <5>1. \A m \in DOMAIN f.out : f.out[m].op = "destroy" => m = i
          BY <4>1, <4>2 DEF Destroying, Own
        <5> QED BY <4>2, <5>1
      <4>5. Reason(f, s)
        BY <3>3, <4>2 DEF DecidesOn, Reasoned
      <4> QED BY <4>3, <4>4, <4>5 DEF Reason
    <3> QED BY <3>5, <3>6, <3>7, <3>8, <3>9 DEF Spare, Vacant
  <2>2. CASE \E f : Kept(engine, f) /\ ExecuteTracked(f) /\ UNCHANGED <<config, minted>>
    <3>1. PICK f : Kept(engine, f) /\ ExecuteTracked(f)
      BY <2>2
    <3>2. Plain(f)
      BY <3>1, KeptPlain DEF Formed, Plain
    <3>3. PICK j \in DOMAIN f.out : Own(f.out[j])
      BY <3>1, <3>2, DoomedIs DEF Plain
    <3> QED BY <3>2, <3>3 DEF Plain, Own
  <2>3. CASE \E a : a.arg = ByCommand /\ ExecuteTracked(Emit(engine, a))
    <3>1. PICK a : a.arg = ByCommand /\ ExecuteTracked(Emit(engine, a))
      BY <2>3
    <3>2. PICK f : f = Emit(engine, a)
      OBVIOUS
    <3>3. Shaped(f) /\ Len(f.out) = 1 /\ f.out[1] = a
      BY <3>2, SpaceCommandIs DEF Formed
    <3>4. PICK j \in DOMAIN f.out : Own(f.out[j])
      BY <3>1, <3>2, <3>3, DoomedIs
    <3>5. DOMAIN f.out = 1 .. 1
      BY <3>3, SeqIs DEF Shaped
    <3>6. f.out[j] = a
      BY <3>3, <3>4, <3>5
    <3>7. ByCommand \in Nat
      BY DEF ByCommand
    <3> QED BY <3>1, <3>4, <3>6, <3>7, WorkspacesAssumption DEF Own
  <2>4. CASE UNCHANGED <<native, landing, minted>>
    <3>1. IsSeq(landing') /\ Len(landing) \in Nat /\ landing' = landing
      BY <2>4, SeqIs DEF Formed
    <3>2. Len(landing') <= Len(landing)
      BY <3>1
    <3> QED BY <3>1, <3>2, NotDoomed
  <2> QED BY <1>1, <2>1, <2>2, <2>3, <2>4, DaemonIs
<1>2. CASE MacOS \/ UNCHANGED vars
  <2>1. \/ landing' = landing
        \/ \E i \in DOMAIN landing : landing' = RemoveAt(landing, i)
    BY <1>2, MacOSIs DEF vars
  <2>2. IsSeq(landing) /\ Len(landing) \in Nat
    BY SeqIs DEF Formed
  <2>3. CASE landing' = landing
    <3>1. IsSeq(landing') /\ Len(landing') <= Len(landing)
      BY <2>2, <2>3
    <3> QED BY <3>1, NotDoomed
  <2>4. ASSUME NEW i \in DOMAIN landing, landing' = RemoveAt(landing, i)
        PROVE  Vacant(s) /\ s # None /\ Reason(engine', s)
    <3>1. IsSeq(landing') /\ Len(landing') = Len(landing) - 1
      BY <2>2, <2>4, RemoveAtIs
    <3>2. Len(landing') <= Len(landing)
      BY <2>2, <3>1
    <3> QED BY <3>1, <3>2, NotDoomed
  <2> QED BY <2>1, <2>3, <2>4
<1> QED BY <1>1, <1>2 DEF Next

\* A Space the engine decides to destroy has no window and no focus and is not
\* the last ordinary one (destroy_empty_dynamic_workspaces,
\* next_topology_heal_action), for any Spaces, windows, configurations and
\* failures: what the decision read is what macOS shows when it is issued.
THEOREM DestroysVacantHolds == Spec => DestroysVacant
<1>1. Init => Formed
  BY InitFormed
<1>2. Formed /\ [Next]_vars => Formed'
  BY NextFormed
<1>3. Formed /\ [Next]_vars => \A s \in Doomed : Vacant(s)
  BY NextVacant
<1> QED BY <1>1, <1>2, <1>3, PTL DEF Spec, DestroysVacant

\* All of DestroysIdle rests on UniqueBacking: as long as no Space backs two
\* workspaces, a Space that the engine destroys is no fullscreen window's to
\* return to, and shows no workspace but the volatile one that dies with it.
LEMMA NextIdle ==
  ASSUME Formed, [Next]_vars, UniqueBacking', NEW s \in Doomed
  PROVE  /\ Vacant(s)
         /\ s \notin RestoreSpaces(engine'.ws)
         /\ \A n \in DOMAIN engine'.ws : Active(engine'.ws[n]) = s =>
              /\ ~engine'.ws[n].persistent
              /\ [space |-> s, name |-> n] \in engine'.pendingDestroy
<1>1. Vacant(s) /\ s # None /\ Reason(engine', s)
  BY NextVacant
<1>2. PICK ws, pending : ws = engine'.ws /\ pending = engine'.pendingDestroy
  OBVIOUS
<1>3. \A m, n \in DOMAIN ws :
        m # n => ({Active(ws[m]), Restore(ws[m])} \cap {Active(ws[n]), Restore(ws[n])})
                   \subseteq {None}
  BY <1>2 DEF UniqueBacking
<1>4. CASE s \notin Claimed(ws)
  BY <1>1, <1>2, <1>4 DEF Claimed, ActiveSpaces, RestoreSpaces
<1>5. CASE \E n \in DOMAIN ws :
             /\ IsNormal(ws[n]) /\ Active(ws[n]) = s /\ ~ws[n].persistent
             /\ [space |-> s, name |-> n] \in pending
  <2>1. PICK n \in DOMAIN ws :
          /\ IsNormal(ws[n]) /\ Active(ws[n]) = s /\ ~ws[n].persistent
          /\ [space |-> s, name |-> n] \in pending
    BY <1>5
  <2>2. Restore(ws[n]) = None
    BY <2>1 DEF IsNormal, Restore
  <2>3. \A m \in DOMAIN ws : m # n => Active(ws[m]) # s /\ Restore(ws[m]) # s
    <3> SUFFICES ASSUME NEW m \in DOMAIN ws, m # n
                 PROVE  Active(ws[m]) # s /\ Restore(ws[m]) # s
      OBVIOUS
    <3> DEFINE P == {Active(ws[m]), Restore(ws[m])}
               Q == {Active(ws[n]), Restore(ws[n])}
    <3>1. P \cap Q \subseteq {None}
      BY <1>3
    <3>2. s \in Q /\ s \notin {None}
      BY <1>1, <2>1
    <3>3. s \notin P
      BY <3>1, <3>2
    <3> QED BY <3>3
  <2>4. s \notin RestoreSpaces(ws)
    BY <1>1, <2>2, <2>3 DEF RestoreSpaces
  <2> QED BY <1>1, <1>2, <2>1, <2>3, <2>4
<1> QED BY <1>1, <1>2, <1>4, <1>5 DEF Reason

\* A destruction the engine decides takes nothing from anybody
\* (destroy_empty_dynamic_workspaces, next_topology_heal_action): the Space is
\* not focused, holds no window, is not the last, is not where a fullscreen
\* window returns and shows only the volatile workspace that dies with it, in
\* every behaviour in which no Space comes to back two workspaces.
THEOREM DestroysIdleHolds == Spec /\ []UniqueBacking => DestroysIdle
<1> DEFINE Idling == \A s \in Doomed :
             /\ Vacant(s)
             /\ s \notin RestoreSpaces(engine'.ws)
             /\ \A n \in DOMAIN engine'.ws : Active(engine'.ws[n]) = s =>
                  /\ ~engine'.ws[n].persistent
                  /\ [space |-> s, name |-> n] \in engine'.pendingDestroy
<1>1. Init => Formed
  BY InitFormed
<1>2. Formed /\ [Next]_vars => Formed'
  BY NextFormed
<1>3. Formed /\ [Next]_vars /\ UniqueBacking' => [Idling]_vars
  BY NextIdle
<1>4. DestroysIdle <=> [][Idling]_vars
  BY DEF DestroysIdle
<1> HIDE DEF Idling
<1> QED BY <1>1, <1>2, <1>3, <1>4, PTL DEF Spec

-----------------------------------------------------------------------------
\* The order of the strip.
LEMMA PositionIs ==
  ASSUME NEW order, IsSeq(order), Once(order), NEW i \in DOMAIN order
  PROVE  Position(order, order[i]) = i
<1> DEFINE I == {k \in 1 .. Len(order) : order[k] = order[i]}
<1>1. DOMAIN order = 1 .. Len(order) /\ i \in Nat
  BY SeqIs
<1>2. I = {i}
  BY <1>1 DEF Once
<1>3. Position(order, order[i]) = IF I # {} THEN Min(I) ELSE 0
  BY DEF Position, SelectInSeq
<1> HIDE DEF I
<1>4. I \in SUBSET Nat /\ IsFiniteSet(I)
  BY <1>1, <1>2, FS_Singleton
<1> QED BY <1>2, <1>3, <1>4, MinMaxIs

LEMMA RankOrders ==
  ASSUME NEW S \in SUBSET Nat, IsFiniteSet(S), NEW x \in S, NEW y \in S
  PROVE  x < y <=> Rank(S, x) < Rank(S, y)
<1> DEFINE below(z) == {e \in S : e <= z}
<1>1. x \in Nat /\ y \in Nat /\ S \subseteq Nat
  OBVIOUS
<1>2. ASSUME NEW u \in S, NEW v \in S, u <= v
      PROVE  /\ Rank(S, u) \in Nat /\ Rank(S, v) \in Nat /\ Rank(S, u) <= Rank(S, v)
  <2>1. below(u) \subseteq below(v) /\ below(v) \subseteq S
    <3>1. ASSUME NEW e \in below(u) PROVE e \in below(v)
      <4>1. u \in Nat /\ v \in Nat /\ e \in Nat /\ e \in S /\ e <= u
        BY <1>1
      <4> QED BY <1>2, <4>1
    <3> QED BY <3>1
  <2>2. Rank(S, u) = Cardinality(below(u)) /\ Rank(S, v) = Cardinality(below(v))
    BY DEF Rank
  <2> HIDE DEF below
  <2>3. IsFiniteSet(below(v))
    BY <2>1, FS_Subset
  <2> QED BY <2>1, <2>2, <2>3, FS_Subset, FS_CardinalityType
<1>3. x = y \/ Rank(S, x) # Rank(S, y)
  BY RankIs
<1>4. CASE x <= y
  <2>1. /\ Rank(S, x) \in Nat /\ Rank(S, y) \in Nat /\ Rank(S, x) <= Rank(S, y)
    BY <1>2, <1>4
  <2> QED BY <1>1, <1>3, <1>4, <2>1
<1>5. CASE y <= x
  <2>1. /\ Rank(S, x) \in Nat /\ Rank(S, y) \in Nat /\ Rank(S, y) <= Rank(S, x)
    BY <1>2, <1>5
  <2> QED BY <1>1, <1>5, <2>1
<1> QED BY <1>1, <1>4, <1>5

\* A remap seats the workspaces it moves in the order of their numbers.
LEMMA RemapIs ==
  ASSUME NEW ws, Registry(ws), NEW order, IsSeq(order), Once(order), NEW spaces
  PROVE  LET new == RemapAfterSnapshot(ws, order, spaces)
         IN  /\ DOMAIN new = DOMAIN ws
             /\ \A m, n \in DOMAIN ws :
                  m < n /\ IsNormal(new[m]) /\ IsNormal(new[n]) =>
                    Position(order, Active(new[m])) < Position(order, Active(new[n]))
<1> DEFINE new == RemapAfterSnapshot(ws, order, spaces)
           moving == {n \in DOMAIN ws : ~IsFullscreen(ws[n])}
           slots == {i \in DOMAIN order : order[i] \in spaces \ RestoreSpaces(ws)}
           seat(n) == {i \in slots : Rank(slots, i) = Rank(moving, n)}
           taken(n) == CHOOSE i \in seat(n) : TRUE
<1>1. DOMAIN new = DOMAIN ws
  BY DEF RemapAfterSnapshot, Seated
<1>2. ASSUME NEW n \in DOMAIN ws, IsNormal(new[n])
      PROVE  \E i \in slots : /\ n \in moving /\ Rank(slots, i) = Rank(moving, n)
                              /\ Active(new[n]) = order[i]
  <2>1. new[n] = IF n \notin moving THEN ws[n]
                 ELSE [ws[n] EXCEPT !.backing =
                         IF seat(n) = {} THEN None ELSE Normal(order[taken(n)])]
    BY DEF RemapAfterSnapshot, Seated
  <2>2. n \in moving
    BY <1>2, <2>1 DEF IsNormal, IsFullscreen
  <2> HIDE DEF seat, new, moving
  <2>3. new[n].backing = IF seat(n) = {} THEN None ELSE Normal(order[taken(n)])
    BY <2>1, <2>2 DEF Registry
  <2>4. seat(n) # {} /\ new[n].backing = Normal(order[taken(n)])
    BY <1>2, <2>3 DEF IsNormal
  <2>5. taken(n) \in seat(n)
    BY <2>4
  <2>6. Active(new[n]) = order[taken(n)]
    BY <1>2, <2>4 DEF Active, IsNormal, Normal
  <2> QED BY <2>2, <2>5, <2>6 DEF seat
<1>3. ASSUME NEW m \in DOMAIN ws, NEW n \in DOMAIN ws, m < n, IsNormal(new[m]), IsNormal(new[n])
      PROVE  Position(order, Active(new[m])) < Position(order, Active(new[n]))
  <2>1. PICK i \in slots : /\ m \in moving /\ Rank(slots, i) = Rank(moving, m)
                           /\ Active(new[m]) = order[i]
    BY <1>2, <1>3
  <2>2. PICK j \in slots : /\ n \in moving /\ Rank(slots, j) = Rank(moving, n)
                           /\ Active(new[n]) = order[j]
    BY <1>2, <1>3
  <2>3. moving \in SUBSET Nat /\ IsFiniteSet(moving)
    <3>1. moving \subseteq Names
      BY DEF Registry
    <3> HIDE DEF moving
    <3> QED BY <3>1, NamesIs
  <2>4. slots \in SUBSET Nat /\ IsFiniteSet(slots) /\ slots \subseteq DOMAIN order
    <3>1. slots \subseteq DOMAIN order
      OBVIOUS
    <3> HIDE DEF slots
    <3> QED BY <3>1, SeqIs, FS_Subset
  <2> HIDE DEF moving, slots, new
  <2>5. Rank(moving, m) < Rank(moving, n)
    BY <1>3, <2>1, <2>2, <2>3, RankOrders
  <2>6. i < j
    BY <2>1, <2>2, <2>4, <2>5, RankOrders
  <2>7. Position(order, order[i]) = i /\ Position(order, order[j]) = j
    BY <2>4, PositionIs
  <2> QED BY <2>1, <2>2, <2>6, <2>7
<1> QED BY <1>1, <1>3

\* The workspaces outside Q stand in the order of their numbers.
InOrder(e, Q) ==
  \A m, n \in DOMAIN e.ws \ Q :
    m < n /\ IsNormal(e.ws[m]) /\ IsNormal(e.ws[n]) =>
      Position(e.obs.order, Active(e.ws[m])) < Position(e.obs.order, Active(e.ws[n]))

\* A workspace that waits for a Space is in Q, or has just lost the Space it had.
Held(Q, e) ==
  /\ AwaitedName(e) \subseteq Q
  /\ \A n \in ToSet(e.pendingCreations) \ Q : n \in DOMAIN e.ws /\ e.ws[n].backing = None

LEMMA RemapInOrder ==
  ASSUME NEW e, Shaped(e), Once(e.obs.order), e.placement = None, NEW Q,
         \A n \in (DOMAIN e.ws \cap Waiting(e)) \ Q : e.ws[n].backing = None
  PROVE  InOrder(RemapSlots(e), Q)
<1> DEFINE old == Without(e.ws, Waiting(e))
           new == RemapAfterSnapshot(old, e.obs.order, Ordinary(e) \ DOMAIN e.external)
           f == RemapSlots(e)
<1>1. f.ws = Over(new, e.ws) /\ f.obs = e.obs
  BY DEF RemapSlots, Shaped, Fields
<1>2. Registry(old) /\ IsSeq(e.obs.order) /\ DOMAIN old = DOMAIN e.ws \ Waiting(e)
  BY RegistryIs DEF Shaped, Without
<1> HIDE DEF old
<1>3. /\ DOMAIN new = DOMAIN old
      /\ \A m, n \in DOMAIN old :
           m < n /\ IsNormal(new[m]) /\ IsNormal(new[n]) =>
             Position(e.obs.order, Active(new[m])) < Position(e.obs.order, Active(new[n]))
  BY <1>2, RemapIs
<1> HIDE DEF new, f
<1>4. DOMAIN f.ws = DOMAIN e.ws
  BY <1>1, <1>2, <1>3 DEF Over
<1>5. ASSUME NEW n \in DOMAIN f.ws \ Q, IsNormal(f.ws[n])
      PROVE  n \in DOMAIN old /\ f.ws[n] = new[n]
  <2>1. CASE n \in Waiting(e)
    <3>1. e.ws[n].backing = None
      BY <1>4, <1>5, <2>1
    <3>2. f.ws[n] = e.ws[n]
      BY <1>1, <1>2, <1>3, <1>4, <1>5, <2>1 DEF Over
    <3> QED BY <1>5, <3>1, <3>2 DEF IsNormal
  <2>2. CASE n \notin Waiting(e)
    BY <1>1, <1>2, <1>3, <1>4, <1>5, <2>2 DEF Over
  <2> QED BY <2>1, <2>2
<1>6. InOrder(f, Q)
  BY <1>1, <1>3, <1>5 DEF InOrder
<1> QED BY <1>6 DEF f
-----------------------------------------------------------------------------
\* What waits for a Space, through one observation.
LEMMA StartWaiting ==
  ASSUME NEW e, NEW seen, NEW capable, NEW c, NEW late, Shaped(e)
  PROVE  Waiting(Started(e, seen, capable, c, late)) \subseteq Waiting(e)
<1> DEFINE f == Started(e, seen, capable, c, late)
           r == RequeueAwaited(e)
           void == [r EXCEPT !.initialized = FALSE, !.external = <<>>]
           d == IF IsReset(e, seen) THEN void ELSE e
           n == e.awaited.name
           queue == <<n>> \o e.pendingCreations
<1>1. ToSet(queue) \subseteq {n} \cup ToSet(e.pendingCreations)
  <2> HIDE DEF n
  <2>1. PICK h, q : h = <<n>> /\ q = e.pendingCreations
    OBVIOUS
  <2>2. IsSeq(h) /\ IsSeq(q) /\ Len(h) = 1 /\ h[1] = n
    <3>1. <<n>> \in Seq({n}) /\ Len(<<n>>) = 1 /\ <<n>>[1] = n
      OBVIOUS
    <3>2. IsSeq(<<n>>)
      BY <3>1 DEF IsSeq
    <3> QED BY <2>1, <3>1, <3>2 DEF Shaped
  <2>3. ToSet(h \o q) \subseteq ToSet(h) \cup ToSet(q)
    BY <2>2, ConcatSet
  <2>4. ToSet(h) = {n}
    <3>1. DOMAIN h = 1 .. 1
      BY <2>2, SeqIs
    <3> QED BY <2>2, <3>1 DEF ToSet
  <2> QED BY <2>1, <2>3, <2>4
<1>2. r \in {e, [e EXCEPT !.awaited = None], [e EXCEPT !.awaited = None, !.pendingCreations = queue]}
  BY DEF RequeueAwaited, Shaped, Fields
<1>3. /\ DOMAIN r = Fields
      /\ r.awaited \in {None, e.awaited}
      /\ \/ r.pendingCreations = e.pendingCreations
         \/ /\ e.awaited # None
            /\ r.pendingCreations = queue
  BY DEF RequeueAwaited, Shaped, Fields
<1>4. Waiting(r) \subseteq Waiting(e)
  <2> HIDE DEF r, queue
  <2> QED BY <1>1, <1>3 DEF Waiting, AwaitedName
<1> HIDE DEF r
<1>5. Waiting(void) = Waiting(r) /\ DOMAIN void = Fields
  BY <1>3 DEF Waiting, AwaitedName, Fields
<1> HIDE DEF void
<1>6. Waiting(d) \subseteq Waiting(e) /\ DOMAIN d = Fields
  BY <1>4, <1>5 DEF Shaped
<1>7. f.awaited = d.awaited /\ f.pendingCreations = d.pendingCreations
  <2>1. f = [Expire(d, late) EXCEPT
               !.obs = seen, !.capable = capable, !.synced = TRUE, !.out = <<>>,
               !.ws = IF e.synced THEN @ ELSE SyncConfig(@, c, FALSE)]
    BY DEF Started, d, void, r
  <2> HIDE DEF d, f
  <2> QED BY <1>6, <2>1 DEF Expire, Fields
<1> HIDE DEF d, f
<1> QED BY <1>6, <1>7 DEF Waiting, AwaitedName, f

LEMMA SameWaiting ==
  ASSUME NEW e, NEW was, Shaped(e)
  PROVE  /\ Waiting(ReconcileFullscreen(e, was)) = Waiting(e)
         /\ Waiting(NoteWindowSpaces(e)) = Waiting(e)
         /\ Waiting(ConfirmDestroys(e)) = Waiting(e)
<1>1. ASSUME NEW f, f.awaited = e.awaited, f.pendingCreations = e.pendingCreations
      PROVE  Waiting(f) = Waiting(e)
  BY <1>1 DEF Waiting, AwaitedName
<1>2. /\ ReconcileFullscreen(e, was).awaited = e.awaited
      /\ ReconcileFullscreen(e, was).pendingCreations = e.pendingCreations
  BY DEF ReconcileFullscreen, ReserveLogicalOrder, Shaped, Fields
<1>3. /\ NoteWindowSpaces(e).awaited = e.awaited
      /\ NoteWindowSpaces(e).pendingCreations = e.pendingCreations
  BY DEF NoteWindowSpaces, Shaped, Fields
<1>4. /\ ConfirmDestroys(e).awaited = e.awaited
      /\ ConfirmDestroys(e).pendingCreations = e.pendingCreations
  BY DEF ConfirmDestroys, RemoveWorkspaces, Shaped, Fields
<1> QED BY <1>1, <1>2, <1>3, <1>4

\* A persistent workspace whose Space vanished waits, without one.
LEMMA RetireHeld ==
  ASSUME NEW e, NEW reset, NEW Q, Shaped(e), Waiting(e) \subseteq Q
  PROVE  Held(Q, RetireVanished(e, reset))
<1> DEFINE vanished == {n \in DOMAIN e.ws : Active(e.ws[n]) \notin Observed(e) \cup {None}}
           lost == {n \in vanished : e.ws[n].persistent}
           queue == Ordered(lost \ ToSet(e.pendingCreations))
           e1 == RemoveWorkspaces(e, vanished \ lost)
           cleared == [e1 EXCEPT !.ws = [n \in DOMAIN @ |->
                         IF n \in lost THEN [@[n] EXCEPT !.backing = None] ELSE @[n]]]
           f == [cleared EXCEPT !.pendingCreations = @ \o queue]
<1>1. RetireVanished(e, reset) \in {e, f}
  BY DEF RetireVanished
<1>2. Held(Q, e)
  BY DEF Held, Waiting
<1>3. IsSeq(queue) /\ ToSet(queue) \subseteq lost
  <2>1. lost \ ToSet(e.pendingCreations) \subseteq Names
    BY DEF Shaped, Registry
  <2> HIDE DEF lost
  <2> QED BY <2>1, NamesIs, OrderedIs
<1>4. ToSet(e.pendingCreations \o queue) \subseteq ToSet(e.pendingCreations) \cup lost
  <2> HIDE DEF queue, lost
  <2> QED BY <1>3, ConcatSet DEF Shaped
<1>5. \A n \in lost : n \in DOMAIN e.ws /\ n \notin vanished \ lost /\ "backing" \in DOMAIN e.ws[n]
  BY DEF Shaped, Registry
<1> HIDE DEF queue, lost, vanished
<1>6. /\ e1.ws = Without(e.ws, vanished \ lost) /\ DOMAIN e1 = Fields
      /\ e1.pendingCreations = e.pendingCreations /\ e1.awaited = e.awaited
  BY DEF RemoveWorkspaces, Shaped, Fields
<1> HIDE DEF e1
<1>7. /\ f.pendingCreations = e.pendingCreations \o queue /\ f.awaited = e.awaited
      /\ f.ws = [n \in DOMAIN e1.ws |->
                   IF n \in lost THEN [e1.ws[n] EXCEPT !.backing = None] ELSE e1.ws[n]]
  BY <1>6 DEF Fields
<1> HIDE DEF f
<1>8. ASSUME NEW n \in lost PROVE n \in DOMAIN f.ws /\ f.ws[n].backing = None
  <2>1. n \in DOMAIN e1.ws /\ e1.ws[n] = e.ws[n]
    BY <1>5, <1>6 DEF Without
  <2> QED BY <1>5, <1>7, <2>1
<1>9. Held(Q, f)
  BY <1>4, <1>7, <1>8 DEF Held, Waiting, AwaitedName
<1> QED BY <1>1, <1>2, <1>9
LEMMA BindHeld ==
  ASSUME NEW e, NEW late, NEW Q, Shaped(e), Held(Q, e)
  PROVE  Held(Q, BindAwaitedDynamicSpaces(e, late))
<1> DEFINE name == e.awaited.name
           freed == [e EXCEPT !.awaited = None]
           gone == RemoveWorkspaces(freed, {name})
           unsure == [e EXCEPT !.awaited.uncertain = @ \/ "creation" \in late]
           bound(s) == [e EXCEPT !.awaited = None,
                                 !.ws[name].backing = Normal(s),
                                 !.external = Without(@, {s}),
                                 !.grace = @ \cup {name}]
           f == BindAwaitedDynamicSpaces(e, late)
<1>1. \/ f = e
      \/ /\ e.awaited # None
         /\ \/ f \in {freed, gone, unsure}
            \/ \E s : f = ReserveLogicalOrder(bound(s))
  BY Zenon DEF BindAwaitedDynamicSpaces, ReleaseAwaited
<1>2. ASSUME NEW g, AwaitedName(g) \subseteq AwaitedName(e),
             g.pendingCreations = e.pendingCreations,
             \A n \in DOMAIN e.ws \ AwaitedName(e) : n \in DOMAIN g.ws /\ g.ws[n] = e.ws[n]
      PROVE  Held(Q, g)
  BY <1>2 DEF Held
<1>3. CASE f = e
  BY <1>3
<1>4. ASSUME e.awaited # None PROVE Held(Q, freed) /\ Held(Q, unsure)
  <2>1. /\ freed.awaited = None /\ unsure.awaited.name = name
        /\ freed.pendingCreations = e.pendingCreations /\ freed.ws = e.ws
        /\ unsure.pendingCreations = e.pendingCreations /\ unsure.ws = e.ws
    BY <1>4 DEF Shaped, Named, Fields
  <2> HIDE DEF freed, unsure
  <2>2. AwaitedName(freed) = {} /\ AwaitedName(unsure) \subseteq AwaitedName(e)
    BY <1>4, <2>1 DEF AwaitedName
  <2> QED BY <1>2, <2>1, <2>2
<1>5. ASSUME e.awaited # None PROVE Held(Q, gone)
  <2>1. /\ gone.awaited = None /\ gone.pendingCreations = e.pendingCreations
        /\ gone.ws = Without(e.ws, {name})
    BY DEF RemoveWorkspaces, Shaped, Fields
  <2> HIDE DEF gone
  <2>2. AwaitedName(gone) = {} /\ AwaitedName(e) = {name}
    BY <1>5, <2>1 DEF AwaitedName
  <2>3. \A n \in DOMAIN e.ws \ {name} : n \in DOMAIN gone.ws /\ gone.ws[n] = e.ws[n]
    BY <2>1 DEF Without
  <2> HIDE DEF name
  <2> QED BY <1>2, <2>1, <2>2, <2>3
<1>6. ASSUME e.awaited # None, NEW s PROVE Held(Q, ReserveLogicalOrder(bound(s)))
  <2> DEFINE g == ReserveLogicalOrder(bound(s))
  <2>1. /\ g.awaited = None /\ g.pendingCreations = e.pendingCreations
        /\ g.ws = [e.ws EXCEPT ![name].backing = Normal(s)]
    BY DEF ReserveLogicalOrder, Shaped, Fields
  <2> HIDE DEF g
  <2>2. AwaitedName(g) = {} /\ AwaitedName(e) = {name}
    BY <1>6, <2>1 DEF AwaitedName
  <2>3. \A n \in DOMAIN e.ws \ {name} : n \in DOMAIN g.ws /\ g.ws[n] = e.ws[n]
    BY <2>1
  <2> HIDE DEF name
  <2>4. Held(Q, g)
    BY <1>2, <2>1, <2>2, <2>3
  <2> QED BY <2>4 DEF g
<1> HIDE DEF freed, gone, unsure, bound, f
<1>7. Held(Q, f)
  BY <1>1, <1>3, <1>4, <1>5, <1>6
<1> QED BY <1>7 DEF f

\* Adopted Spaces get names that are new.
LEMMA ExternalHeld ==
  ASSUME NEW e, NEW Q, Shaped(e), Held(Q, e)
  PROVE  Held(Q, ObserveExternalSpaces(e))
<1>1. ASSUME NEW g, g.awaited = e.awaited, g.pendingCreations = e.pendingCreations,
             \A n \in DOMAIN e.ws : n \in DOMAIN g.ws /\ g.ws[n] = e.ws[n]
      PROVE  Held(Q, g)
  BY <1>1 DEF Held, AwaitedName
<1>2. ASSUME NEW g, Shaped(g)
      PROVE  /\ GraceUnclaimed(g).ws = g.ws /\ GraceUnclaimed(g).awaited = g.awaited
             /\ GraceUnclaimed(g).pendingCreations = g.pendingCreations
             /\ Shaped(GraceUnclaimed(g))
  BY <1>2 DEF GraceUnclaimed, Shaped, Named, Fields
<1>3. ASSUME NEW g, Shaped(g)
      PROVE  /\ AdoptSpaces(g).awaited = g.awaited
             /\ AdoptSpaces(g).pendingCreations = g.pendingCreations
             /\ \A n \in DOMAIN g.ws : /\ n \in DOMAIN AdoptSpaces(g).ws
                                       /\ AdoptSpaces(g).ws[n] = g.ws[n]
  <2> DEFINE order == g.obs.order
             used(s) == s \in DOMAIN g.external /\ (s = g.obs.focus \/ s \in Occupied(g))
             adopt == Chosen(order, {i \in DOMAIN order : used(order[i])})
             last == IF DOMAIN g.ws = {} THEN 0 ELSE Max(DOMAIN g.ws)
             fit == {i \in DOMAIN adopt : last + i <= MaxName}
             born == [n \in {last + i : i \in fit} |->
                        [NewState(FALSE, TRUE) EXCEPT !.backing = Normal(adopt[n - last])]]
  <2>1. /\ AdoptSpaces(g).awaited = g.awaited
        /\ AdoptSpaces(g).pendingCreations = g.pendingCreations
        /\ AdoptSpaces(g).ws = Over(born, g.ws)
    BY <1>3 DEF AdoptSpaces, Shaped, Fields
  <2>2. ASSUME NEW n \in DOMAIN g.ws PROVE n \notin DOMAIN born
    <3>1. DOMAIN g.ws \in SUBSET Nat /\ IsFiniteSet(DOMAIN g.ws) /\ DOMAIN g.ws # {}
      BY <1>3, <2>2, NamesIs DEF Shaped, Registry
    <3>2. last = Max(DOMAIN g.ws)
      BY <3>1
    <3>3. last \in Nat /\ n \in Nat /\ n <= last
      BY <3>1, <3>2, MinMaxIs
    <3>4. DOMAIN adopt \subseteq Nat \ {0}
      <4> DEFINE places == {i \in DOMAIN order : used(order[i])}
      <4>1. places \subseteq DOMAIN order /\ IsSeq(order)
        BY <1>3 DEF Shaped
      <4> HIDE DEF places, order
      <4> QED BY <4>1, ChosenIs, SeqIs
    <3>5. DOMAIN born = {last + i : i \in fit} /\ fit \subseteq DOMAIN adopt
      OBVIOUS
    <3> HIDE DEF last, adopt, born, fit
    <3>6. \A i \in fit : n # last + i
      <4>1. ASSUME NEW i \in fit PROVE n # last + i
        <5>1. i \in Nat /\ i # 0
          BY <3>4, <3>5
        <5> QED BY <3>3, <5>1
      <4> QED BY <4>1
    <3> QED BY <3>5, <3>6
  <2> HIDE DEF born
  <2> QED BY <2>1, <2>2 DEF Over
<1> DEFINE first == [e EXCEPT !.external = Without(@, DOMAIN @ \ (Observed(e) \ Claimed(e.ws)))]
           begun == [first EXCEPT !.initialized = TRUE]
<1>4. /\ first.ws = e.ws /\ first.awaited = e.awaited /\ Shaped(first)
      /\ first.pendingCreations = e.pendingCreations
      /\ begun.ws = e.ws /\ begun.awaited = e.awaited
      /\ begun.pendingCreations = e.pendingCreations
  BY DEF Shaped, Named, Fields
<1>5. ObserveExternalSpaces(e) \in
        {begun, GraceUnclaimed(first), AdoptSpaces(GraceUnclaimed(first))}
  BY DEF ObserveExternalSpaces
<1> HIDE DEF first, begun
<1>6. Held(Q, begun) /\ Held(Q, GraceUnclaimed(first))
  BY <1>1, <1>2, <1>4
<1>7. Held(Q, AdoptSpaces(GraceUnclaimed(first)))
  BY <1>1, <1>2, <1>3, <1>4
<1> QED BY <1>5, <1>6, <1>7

LEMMA PlacementHeld ==
  ASSUME NEW e, NEW late, NEW Q, Shaped(e), Held(Q, e)
  PROVE  Held(Q, ReconcilePlacement(e, late))
<1> DEFINE f == ReconcilePlacement(e, late)
<1>1. f.ws = e.ws /\ f.awaited = e.awaited /\ f.pendingCreations = e.pendingCreations
  <2> DEFINE freed == [e EXCEPT !.placement = None]
             asked == [e EXCEPT !.placement.asked = TRUE]
  <2>1. f \in {e, freed} \/ \E s, t : f = Emit(asked, MoveAfter(s, t))
    BY Zenon DEF ReconcilePlacement
  <2> HIDE DEF f
  <2> QED BY <2>1 DEF Emit, Shaped, Fields
<1> HIDE DEF f
<1>2. Held(Q, f)
  BY <1>1 DEF Held, AwaitedName
<1> QED BY <1>2 DEF f

\* What follows the remap leaves the workspaces that stay as they are.
Trims(e, f) ==
  /\ f.placement = e.placement /\ f.obs = e.obs
  /\ DOMAIN f.ws \subseteq DOMAIN e.ws
  /\ \A n \in DOMAIN f.ws : f.ws[n] = e.ws[n]

LEMMA TrimsTwice == ASSUME NEW e, NEW f, NEW g, Trims(e, f), Trims(f, g) PROVE Trims(e, g)
  BY DEF Trims

LEMMA TrimsInOrder == ASSUME NEW e, NEW f, NEW Q, InOrder(e, Q), Trims(e, f) PROVE InOrder(f, Q)
<1>1. /\ f.obs = e.obs /\ DOMAIN f.ws \ Q \subseteq DOMAIN e.ws \ Q
      /\ \A n \in DOMAIN f.ws \ Q : f.ws[n] = e.ws[n]
  BY DEF Trims
<1> QED BY <1>1 DEF InOrder

LEMMA TailTrims ==
  ASSUME NEW e, NEW moved, NEW late, Shaped(e)
  PROVE  /\ Trims(e, GraceUnclaimed(e))
         /\ Trims(e, DestroyEmptyDynamicWorkspaces(e, moved))
         /\ Trims(e, FulfillPendingWorkspaceActions(e))
         /\ Trims(e, FulfillPendingNewSpaceMoves(e, late))
         /\ Trims(e, RequestMissing(e))
         /\ Trims(e, TryStartNextPendingCreation(e))
         /\ Trims(e, Heal(e))
<1> DEFINE Leaves1(f, g) == /\ DOMAIN g = Fields /\ g.ws = f.ws /\ g.obs = f.obs
                            /\ g.placement = f.placement
<1>1. DOMAIN e = Fields
  BY DEF Shaped
<1>2. ASSUME NEW g, Leaves1(e, g) PROVE Trims(e, g)
  BY <1>2 DEF Trims
<1>3. Leaves1(e, GraceUnclaimed(e))
  BY <1>1 DEF GraceUnclaimed, Fields
<1>4. Trims(e, DestroyEmptyDynamicWorkspaces(e, moved))
  <2> DEFINE reserve(g, d) == [g EXCEPT !.pendingDestroy = @ \cup {d}]
             f == DestroyEmptyDynamicWorkspaces(e, moved)
  <2>1. \/ f = e
        \/ \E S : f = RemoveWorkspaces(e, S)
        \/ \E S, d, a : f = Emit(reserve(RemoveWorkspaces(e, S), d), a)
    BY Zenon DEF DestroyEmptyDynamicWorkspaces
  <2>2. ASSUME NEW S
        PROVE  LET g == RemoveWorkspaces(e, S)
               IN  Trims(e, g) /\ \A d, a : Trims(e, Emit(reserve(g, d), a))
    BY <1>1 DEF RemoveWorkspaces, Emit, Trims, Without, Fields
  <2> HIDE DEF f, reserve
  <2>3. Trims(e, e)
    BY DEF Trims
  <2>4. Trims(e, f)
    BY <2>1, <2>2, <2>3
  <2> QED BY <2>4 DEF f
<1>5. ASSUME NEW f, DOMAIN f = Fields PROVE Leaves1(f, FulfillPendingFocus(f))
  BY <1>5 DEF FulfillPendingFocus, Emit, Fields
<1>6. ASSUME NEW f, DOMAIN f = Fields PROVE Leaves1(f, FulfillPendingMove(f))
  BY <1>6 DEF FulfillPendingMove, Emit, Fields
<1>7. Leaves1(e, FulfillPendingWorkspaceActions(e))
  BY <1>1, <1>5, <1>6 DEF FulfillPendingWorkspaceActions
<1>8. Leaves1(e, FulfillPendingNewSpaceMoves(e, late))
  BY <1>1 DEF FulfillPendingNewSpaceMoves, Fields
<1>9. Leaves1(e, RequestMissing(e))
  BY <1>1 DEF RequestMissing, Fields
<1>10. Leaves1(e, TryStartNextPendingCreation(e))
  BY <1>1 DEF TryStartNextPendingCreation, Emit, Fields
<1>11. Leaves1(e, Heal(e))
  BY <1>1 DEF Heal, Emit, Fields
<1> HIDE DEF Leaves1
<1> QED BY <1>2, <1>3, <1>4, <1>7, <1>8, <1>9, <1>10, <1>11
\* Where an observation leaves no placement, the workspaces that did not wait for
\* a Space stand in the order of their numbers: what it creates, binds or adopts
\* comes before the remap, and nothing after the remap moves a workspace.
LEMMA SnapshotOrders ==
  ASSUME NEW e, NEW seen, NEW capable, NEW c \in Configs, NEW late, Shaped(e),
         IsSeq(seen.order), Once(seen.order),
         ApplySnapshot(e, seen, capable, c, late).placement = None
  PROVE  InOrder(ApplySnapshot(e, seen, capable, c, late), Waiting(e))
<1> DEFINE reset == IsReset(e, seen)
           was == e.obs.at
           Q == Waiting(e)
           e1 == Started(e, seen, capable, c, late)
           a1 == ReconcileFullscreen(e1, was)
           e2 == NoteWindowSpaces(a1)
           a2 == ConfirmDestroys(e2)
           e3 == RetireVanished(a2, reset)
           a3 == BindAwaitedDynamicSpaces(e3, late)
           e4 == ObserveExternalSpaces(a3)
           e5 == ReconcilePlacement(e4, late)
           e6 == RemapSlots(e5)
           a6 == GraceUnclaimed(e6)
           e7 == DestroyEmptyDynamicWorkspaces(a6, Moved(e5.ws, e6.ws))
           a7 == FulfillPendingWorkspaceActions(e7)
           b7 == FulfillPendingNewSpaceMoves(a7, late)
           e8 == RequestMissing(b7)
           e9 == TryStartNextPendingCreation(e8)
           Calm(f) == Plain(f) /\ f.obs = seen
           Seen(f) == Shaped(f) /\ f.obs = seen
<1>1. Calm(e1) /\ Waiting(e1) \subseteq Q
  BY StartPlain, StartWaiting
<1>2. ApplySnapshot(e, seen, capable, c, late) = Heal(e9)
  BY DEF ApplySnapshot, Started
<1> HIDE DEF e1
<1>3. ASSUME NEW f, NEW g, Calm(f), Kept(f, g) PROVE Calm(g)
  BY <1>3, KeptPlain DEF Kept
<1>4. ASSUME NEW f, Calm(f) PROVE Plain(f) /\ Shaped(f) /\ f.obs = seen
  BY <1>4 DEF Plain
<1> HIDE DEF Calm, Q
<1>5. Calm(a1) /\ Waiting(a1) \subseteq Q
  BY <1>1, <1>3, <1>4, FullscreenKept, SameWaiting
<1> HIDE DEF a1
<1>6. Calm(e2) /\ Waiting(e2) \subseteq Q
  BY <1>3, <1>4, <1>5, NoteKept, SameWaiting
<1> HIDE DEF e2
<1>7. Calm(a2) /\ Waiting(a2) \subseteq Q
  <2>1. Plain(a2) /\ a2.obs = seen
    BY <1>4, <1>6, ConfirmDestroysIs
  <2> QED BY <1>4, <1>6, <2>1, SameWaiting DEF Calm
<1> HIDE DEF a2
<1>8. Calm(e3) /\ Held(Q, e3)
  BY <1>3, <1>4, <1>7, RetireKept, RetireHeld
<1> HIDE DEF e3
<1>9. Calm(a3) /\ Held(Q, a3)
  BY <1>3, <1>4, <1>8, BindKept, BindHeld
<1> HIDE DEF a3
<1>10. Calm(e4) /\ Held(Q, e4)
  BY <1>3, <1>4, <1>9, ExternalKept, ExternalHeld
<1> HIDE DEF e4
<1>11. Calm(e5) /\ Held(Q, e5)
  BY <1>3, <1>4, <1>10, PlacementKept, PlacementHeld
<1> HIDE DEF e5
<1>12. Calm(e6) /\ e6.placement = e5.placement
  <2>1. e6.placement = e5.placement
    BY <1>4, <1>11 DEF RemapSlots, Shaped, Fields
  <2> QED BY <1>3, <1>4, <1>11, <2>1, RemapKept
<1>13. e5.placement = None => InOrder(e6, Q)
  <2>1. Once(e5.obs.order)
    BY <1>4, <1>11
  <2>2. \A n \in (DOMAIN e5.ws \cap Waiting(e5)) \ Q : e5.ws[n].backing = None
    BY <1>11 DEF Held, Waiting
  <2> QED BY <1>4, <1>11, <2>1, <2>2, RemapInOrder
<1> HIDE DEF e6
<1>14. Calm(a6) /\ Trims(e6, a6)
  BY <1>3, <1>4, <1>12, GraceKept, TailTrims
<1> HIDE DEF a6
<1>15. Seen(e7) /\ Trims(e6, e7)
  <2>1. Trims(a6, e7) /\ Decides(a6, e7)
    BY <1>4, <1>14, TailTrims, DestroyEmptyDecides
  <2> HIDE DEF e7
  <2>2. e7.obs = seen
    BY <1>4, <1>14, <2>1 DEF Trims
  <2>3. Shaped(e7)
    BY <2>1 DEF Decides, Plain, Destroying
  <2> QED BY <1>14, <2>1, <2>2, <2>3, TrimsTwice
<1> HIDE DEF e7
<1>16. ASSUME NEW f, NEW g, Seen(f), Trims(e6, f), Kept(f, g), Trims(f, g)
       PROVE  Seen(g) /\ Trims(e6, g)
  BY <1>16, TrimsTwice DEF Kept
<1>17. ASSUME NEW f, Seen(f) PROVE Shaped(f)
  BY <1>17
<1> HIDE DEF Seen
<1>18. Seen(a7) /\ Trims(e6, a7) BY <1>15, <1>16, <1>17, IntentsKept, TailTrims
<1> HIDE DEF a7
<1>19. Seen(b7) /\ Trims(e6, b7) BY <1>16, <1>18, <1>17, NewSpaceKept, TailTrims
<1> HIDE DEF b7
<1>20. Seen(e8) /\ Trims(e6, e8) BY <1>16, <1>19, <1>17, MissingKept, TailTrims
<1> HIDE DEF e8
<1>21. Seen(e9) /\ Trims(e6, e9) BY <1>16, <1>20, <1>17, TryStartKept, TailTrims
<1> HIDE DEF e9
<1>22. Trims(e6, Heal(e9)) BY <1>21, <1>17, TailTrims, TrimsTwice
<1>23. e5.placement = None
  BY <1>2, <1>12, <1>22 DEF Trims
<1>24. InOrder(Heal(e9), Q)
  BY <1>13, <1>22, <1>23, TrimsInOrder
<1> QED BY <1>2, <1>24 DEF Q

\* The batch that follows, whole or cut short, moves no workspace either.
LEMMA RefreshOrders ==
  ASSUME Formed, Refresh, engine'.placement = None
  PROVE  \A m, n \in DOMAIN engine'.ws \ Waiting(engine) :
           m < n /\ IsNormal(engine'.ws[m]) /\ IsNormal(engine'.ws[n]) =>
             Position(engine'.obs.order, Active(engine'.ws[m]))
               < Position(engine'.obs.order, Active(engine'.ws[n]))
<1>1. PICK late : ExecuteTracked(Observation(late))
  BY DEF Refresh, Observe
<1> DEFINE seen == [order |-> native.order, focus |-> native.focus, at |-> native.at]
<1>2. IsSeq(seen.order) /\ Once(seen.order) /\ Shaped(engine) /\ config \in Configs
  BY DEF Formed
<1>3. Observation(late) = ApplySnapshot(engine, seen, native.sa, config, late)
  BY DEF Observation
<1>4. PICK f : f = Observation(late)
  OBVIOUS
<1>5. Shaped(f)
  BY <1>4, ObservationIs, DecidesShaped
<1>6. engine'.ws = f.ws /\ engine'.obs = f.obs /\ engine'.placement = f.placement
  <2>1. PICK k \in 0 .. Len(f.out) : engine' = Left(f, k)
    BY <1>1, <1>4, <1>5, BatchIs DEF Formed
  <2>2. PICK g : g = engine'
    OBVIOUS
  <2> QED BY <1>5, <2>1, <2>2, FailedIs
<1> HIDE DEF seen
<1>7. InOrder(f, Waiting(engine))
  BY <1>2, <1>3, <1>4, <1>6, SnapshotOrders
<1> QED BY <1>6, <1>7 DEF InOrder

\* "its workspaces take its own ordinary Spaces in name order" (workspace.rs:245,
\* remap_after_snapshot): an observation that leaves no placement to do puts in the
\* order of their numbers the workspaces that were not waiting for a Space, for any
\* Spaces, windows, configurations, commands, failures and delays.
THEOREM StripFollowsHolds == Spec => StripFollows
<1>1. Init => Formed
  BY InitFormed
<1>2. Formed /\ [Next]_vars => Formed'
  BY NextFormed
<1>3. Formed => (Refresh /\ engine'.placement = None =>
        \A m, n \in DOMAIN engine'.ws \ Waiting(engine) :
          m < n /\ IsNormal(engine'.ws[m]) /\ IsNormal(engine'.ws[n]) =>
            Position(engine'.obs.order, Active(engine'.ws[m]))
              < Position(engine'.obs.order, Active(engine'.ws[n])))
  BY RefreshOrders
<1> QED BY <1>1, <1>2, <1>3, PTL DEF Spec, StripFollows

-----------------------------------------------------------------------------
\* Where every workspace has its Space, and its own.
\* The ordinary Spaces that there have ever been.
Ids(m) == 1 .. m \ FsSpaces

\* A workspace is on an ordinary Space, or on a fullscreen one with an ordinary
\* Space to return to.
Homed(ws, m) ==
  \A n \in DOMAIN ws :
    \/ ws[n].backing = None
    \/ ws[n].backing.restore = None /\ ws[n].backing.active \in Ids(m)
    \/ ws[n].backing.restore \in Ids(m) /\ ws[n].backing.active \in FsSpaces

\* A workspace that waits for a Space has none, and waits once.
Lined(e) ==
  /\ Once(e.pendingCreations)
  /\ AwaitedName(e) \cap ToSet(e.pendingCreations) = {}
  /\ \A n \in Waiting(e) \cap DOMAIN e.ws : e.ws[n].backing = None

Sound(e, m) ==
  /\ Shaped(e) /\ Once(e.obs.order) /\ Observed(e) \subseteq 1 .. m \cup FsSpaces
  /\ Homed(e.ws, m) /\ Lined(e) /\ DOMAIN e.external \subseteq Ids(m)

\* No Space backs two workspaces.
Distinct(ws) ==
  \A k, n \in DOMAIN ws :
    k # n => ({Active(ws[k]), Restore(ws[k])} \cap {Active(ws[n]), Restore(ws[n])})
               \subseteq {None}

\* g has lost workspaces or their Spaces, or nothing.
Fewer(e, g) ==
  /\ Shaped(g) /\ g.obs = e.obs
  /\ DOMAIN g.external \subseteq DOMAIN e.external \cup Ordinary(e)
  /\ \A n \in DOMAIN g.ws :
       \/ g.ws[n].backing = None
       \/ n \in DOMAIN e.ws /\ g.ws[n].backing = e.ws[n].backing

\* Its queue is the same, and it awaits the same creation, or none.
Patient(e, g) ==
  /\ g.pendingCreations = e.pendingCreations
  /\ g.awaited # None => /\ e.awaited # None /\ g.awaited.name = e.awaited.name
                         /\ g.awaited.before = e.awaited.before

Calmer(e, g) == Fewer(e, g) /\ Patient(e, g)

LEMMA FewerWs ==
  ASSUME NEW e, NEW g, NEW m, Sound(e, m), Fewer(e, g)
  PROVE  /\ Homed(g.ws, m) /\ Claimed(g.ws) \subseteq Claimed(e.ws)
         /\ Distinct(e.ws) => Distinct(g.ws)
         /\ InOrder(e, {}) => InOrder(g, {})
         /\ Once(g.obs.order) /\ Observed(g) \subseteq 1 .. m \cup FsSpaces
         /\ DOMAIN g.external \subseteq Ids(m)
<1>1. ASSUME NEW n \in DOMAIN g.ws
      PROVE  \/ Active(g.ws[n]) = None /\ Restore(g.ws[n]) = None
             \/ /\ n \in DOMAIN e.ws /\ Active(g.ws[n]) = Active(e.ws[n])
                /\ Restore(g.ws[n]) = Restore(e.ws[n])
  BY <1>1 DEF Fewer, Active, Restore
<1>2. Homed(g.ws, m)
  BY DEF Homed, Fewer, Sound
<1>3. Claimed(g.ws) \subseteq Claimed(e.ws)
  BY <1>1 DEF Claimed, ActiveSpaces, RestoreSpaces
<1>4. ASSUME Distinct(e.ws) PROVE Distinct(g.ws)
  <2> SUFFICES ASSUME NEW k \in DOMAIN g.ws, NEW n \in DOMAIN g.ws, k # n
               PROVE  ({Active(g.ws[k]), Restore(g.ws[k])}
                         \cap {Active(g.ws[n]), Restore(g.ws[n])}) \subseteq {None}
    BY DEF Distinct
  <2>1. CASE k \in DOMAIN e.ws /\ n \in DOMAIN e.ws
    <3>1. ({Active(e.ws[k]), Restore(e.ws[k])} \cap {Active(e.ws[n]), Restore(e.ws[n])})
            \subseteq {None}
      BY <1>4, <2>1 DEF Distinct
    <3> QED BY <1>1, <3>1
  <2> QED BY <1>1, <2>1
<1>5. ASSUME InOrder(e, {}) PROVE InOrder(g, {})
  <2>1. \A n \in DOMAIN g.ws : IsNormal(g.ws[n]) =>
          /\ n \in DOMAIN e.ws /\ IsNormal(e.ws[n])
          /\ Active(g.ws[n]) = Active(e.ws[n])
    BY DEF Fewer, IsNormal, Active
  <2> QED BY <1>5, <2>1 DEF InOrder, Fewer
<1>6. Ordinary(e) \subseteq Ids(m)
  BY DEF Sound, Ordinary, Ids
<1>7. Once(g.obs.order) /\ Observed(g) \subseteq 1 .. m \cup FsSpaces
  BY DEF Fewer, Sound, Observed
<1>8. DOMAIN g.external \subseteq Ids(m)
  BY <1>6 DEF Fewer, Sound
<1> QED BY <1>2, <1>3, <1>4, <1>5, <1>7, <1>8

LEMMA CalmerIs ==
  ASSUME NEW e, NEW g, NEW m, Sound(e, m), Calmer(e, g)
  PROVE  /\ Sound(g, m) /\ Claimed(g.ws) \subseteq Claimed(e.ws)
         /\ Distinct(e.ws) => Distinct(g.ws)
         /\ InOrder(e, {}) => InOrder(g, {})
<1>1. Lined(g)
  <2>1. AwaitedName(g) \subseteq AwaitedName(e) /\ g.pendingCreations = e.pendingCreations
    BY DEF Calmer, Patient, AwaitedName
  <2>2. Waiting(g) \subseteq Waiting(e)
    BY <2>1 DEF Waiting
  <2> QED BY <2>1, <2>2 DEF Lined, Sound, Calmer, Fewer
<1>2. Shaped(g) /\ Fewer(e, g)
  BY DEF Calmer, Fewer
<1> QED BY <1>1, <1>2, FewerWs DEF Sound

LEMMA CalmerTwice ==
  ASSUME NEW e, NEW f, NEW g, Calmer(e, f), Calmer(f, g)
  PROVE  Calmer(e, g)
  BY DEF Calmer, Fewer, Patient, Ordinary, Observed

\* A method that leaves the registry and the queue alone.
Untouched(e, g) ==
  /\ g.ws = e.ws /\ g.external = e.external
  /\ g.pendingCreations = e.pendingCreations /\ g.awaited = e.awaited

LEMMA UntouchedCalmer ==
  ASSUME NEW e, NEW g, Shaped(g), g.obs = e.obs, Untouched(e, g)
  PROVE  Calmer(e, g)
  BY DEF Calmer, Fewer, Patient, Untouched, Shaped, Registry

LEMMA EmitUntouched ==
  ASSUME NEW e, DOMAIN e = Fields, NEW a
  PROVE  Untouched(e, Emit(e, a)) /\ DOMAIN Emit(e, a) = Fields
         /\ Emit(e, a).placement = e.placement /\ Emit(e, a).obs = e.obs
  BY DEF Untouched, Emit, Fields

LEMMA NoteCalmer == ASSUME NEW e, Shaped(e) PROVE Calmer(e, NoteWindowSpaces(e))
<1>1. Untouched(e, NoteWindowSpaces(e))
  BY DEF NoteWindowSpaces, Untouched, Shaped, Fields
<1> QED BY <1>1, NoteKept, UntouchedCalmer DEF Kept

LEMMA PlacementCalmer ==
  ASSUME NEW e, NEW late, Shaped(e)
  PROVE  Calmer(e, ReconcilePlacement(e, late))
<1> DEFINE freed == [e EXCEPT !.placement = None]
           asked == [e EXCEPT !.placement.asked = TRUE]
           f == ReconcilePlacement(e, late)
<1>1. \/ f \in {e, freed} \/ \E s, t : f = Emit(asked, MoveAfter(s, t))
  BY Zenon DEF ReconcilePlacement
<1>2. Shaped(f) /\ f.obs = e.obs
  BY PlacementKept DEF Kept
<1> HIDE DEF f
<1>3. Untouched(e, f)
  BY <1>1 DEF Emit, Untouched, Shaped, Fields
<1>4. Calmer(e, f)
  BY <1>2, <1>3, UntouchedCalmer
<1> QED BY <1>4 DEF f

LEMMA IntentsCalmer ==
  ASSUME NEW e, Shaped(e)
  PROVE  Calmer(e, FulfillPendingWorkspaceActions(e))
<1>1. ASSUME NEW f, DOMAIN f = Fields
      PROVE  Untouched(f, FulfillPendingFocus(f)) /\ DOMAIN FulfillPendingFocus(f) = Fields
  BY <1>1 DEF FulfillPendingFocus, Emit, Untouched, Fields
<1>2. ASSUME NEW f, DOMAIN f = Fields PROVE Untouched(f, FulfillPendingMove(f))
  BY <1>2 DEF FulfillPendingMove, Emit, Untouched, Fields
<1>3. DOMAIN e = Fields
  BY DEF Shaped
<1>4. Untouched(e, FulfillPendingWorkspaceActions(e))
  BY <1>1, <1>2, <1>3 DEF FulfillPendingWorkspaceActions, Untouched
<1> QED BY <1>4, IntentsKept, UntouchedCalmer DEF Kept

LEMMA NewSpaceCalmer ==
  ASSUME NEW e, NEW late, Shaped(e)
  PROVE  Calmer(e, FulfillPendingNewSpaceMoves(e, late))
<1>1. Untouched(e, FulfillPendingNewSpaceMoves(e, late))
  BY DEF FulfillPendingNewSpaceMoves, Untouched, Shaped, Fields
<1> QED BY <1>1, NewSpaceKept, UntouchedCalmer DEF Kept

LEMMA GraceCalmer == ASSUME NEW e, Shaped(e) PROVE Calmer(e, GraceUnclaimed(e))
<1> DEFINE f == GraceUnclaimed(e)
<1>1. Shaped(f) /\ f.obs = e.obs
  BY GraceKept DEF Kept
<1>2. /\ f.ws = e.ws /\ f.pendingCreations = e.pendingCreations /\ f.awaited = e.awaited
      /\ DOMAIN f.external \subseteq DOMAIN e.external \cup Ordinary(e)
  BY DEF GraceUnclaimed, Over, Shaped, Fields
<1> QED BY <1>1, <1>2 DEF Calmer, Fewer, Patient, Shaped, Registry

LEMMA RemoveCalmer ==
  ASSUME NEW e, NEW S, Shaped(e)
  PROVE  Calmer(e, RemoveWorkspaces(e, S))
<1> DEFINE f == RemoveWorkspaces(e, S)
<1>1. Shaped(f) /\ f.obs = e.obs
  BY RemoveSame, SameKept DEF Kept
<1>2. /\ f.ws = Without(e.ws, S) /\ f.pendingCreations = e.pendingCreations
      /\ f.awaited = e.awaited /\ f.external = e.external
  BY DEF RemoveWorkspaces, Shaped, Fields
<1> QED BY <1>1, <1>2 DEF Calmer, Fewer, Patient, Without

LEMMA ConfirmCalmer == ASSUME NEW e, Plain(e) PROVE Calmer(e, ConfirmDestroys(e))
<1> DEFINE f == ConfirmDestroys(e)
<1>1. Shaped(f) /\ f.obs = e.obs
  BY ConfirmDestroysIs DEF Plain
<1>2. \E S : /\ f.ws = Without(e.ws, S) /\ f.pendingCreations = e.pendingCreations
             /\ f.awaited = e.awaited /\ f.external = e.external
  BY DEF ConfirmDestroys, RemoveWorkspaces, Plain, Shaped, Fields
<1> QED BY <1>1, <1>2 DEF Calmer, Fewer, Patient, Without

LEMMA DestroyEmptyCalmer ==
  ASSUME NEW e, NEW moved, Plain(e)
  PROVE  Calmer(e, DestroyEmptyDynamicWorkspaces(e, moved))
<1> DEFINE reserve(g, d) == [g EXCEPT !.pendingDestroy = @ \cup {d}]
           f == DestroyEmptyDynamicWorkspaces(e, moved)
<1>1. \/ f = e
      \/ \E S : f = RemoveWorkspaces(e, S)
      \/ \E S, d, a : f = Emit(reserve(RemoveWorkspaces(e, S), d), a)
  BY Zenon DEF DestroyEmptyDynamicWorkspaces
<1>2. Shaped(f) /\ f.obs = e.obs
  BY DestroyEmptyDecides DEF Decides, Plain, Destroying
<1>3. ASSUME NEW S
      PROVE  LET g == RemoveWorkspaces(e, S)
             IN  \A d, a : Untouched(g, Emit(reserve(g, d), a))
  BY DEF RemoveWorkspaces, Emit, Untouched, Plain, Shaped, Fields
<1> HIDE DEF f, reserve
<1>4. Calmer(e, e) /\ \A S : Calmer(e, RemoveWorkspaces(e, S))
  BY RemoveCalmer, UntouchedCalmer DEF Plain, Untouched
<1>5. ASSUME NEW S, NEW d, NEW a, f = Emit(reserve(RemoveWorkspaces(e, S), d), a)
      PROVE  Calmer(e, f)
  <2>1. Untouched(RemoveWorkspaces(e, S), f) /\ f.obs = RemoveWorkspaces(e, S).obs
    BY <1>2, <1>3, <1>4, <1>5 DEF Calmer, Fewer
  <2>2. Calmer(RemoveWorkspaces(e, S), f)
    BY <1>2, <2>1, UntouchedCalmer
  <2> QED BY <1>4, <2>2, CalmerTwice
<1>6. Calmer(e, f)
  BY <1>1, <1>4, <1>5
<1> QED BY <1>6 DEF f

LEMMA HealCalmer == ASSUME NEW e, Shaped(e), Shaped(Heal(e)) PROVE Calmer(e, Heal(e))
<1>1. Untouched(e, Heal(e)) /\ Heal(e).obs = e.obs
  BY DEF Heal, Emit, Untouched, Shaped, Fields
<1> QED BY <1>1, UntouchedCalmer

LEMMA ClearStaleCalmer ==
  ASSUME NEW e, NEW n, Shaped(e)
  PROVE  Calmer(e, ClearStaleBacking(e, n))
<1> DEFINE f == ClearStaleBacking(e, n)
<1>1. Shaped(f) /\ f.obs = e.obs
  BY ClearStaleSame, SameKept DEF Kept
<1>2. /\ f.pendingCreations = e.pendingCreations
      /\ f.awaited = e.awaited /\ f.external = e.external
      /\ f.ws = IF n \in DOMAIN e.ws THEN [e.ws EXCEPT ![n].backing = None] ELSE e.ws
  BY DEF ClearStaleBacking, Shaped, Fields
<1>3. \A k \in DOMAIN f.ws : k \in DOMAIN e.ws /\ (f.ws[k].backing = None \/ f.ws[k] = e.ws[k])
  BY <1>2 DEF Shaped, Registry
<1> QED BY <1>1, <1>2, <1>3 DEF Calmer, Fewer, Patient

\* A batch, wherever it failed.
LEMMA LeftCalmer ==
  ASSUME NEW f, Shaped(f), NEW k \in 0 .. Len(f.out)
  PROVE  Calmer(f, Left(f, k))
<1> DEFINE U == ToSet(SubSeq(f.out, k + 1, Len(f.out)))
           h == IF k = Len(f.out) THEN f ELSE NoteBatchFailed(f, U)
           g == Left(f, k)
<1>1. /\ DOMAIN h = Fields /\ h.ws = f.ws /\ h.external = f.external
      /\ h.pendingCreations = f.pendingCreations
      /\ h.awaited \in {None, f.awaited}
  <2> HIDE DEF U
  <2> QED BY DEF NoteBatchFailed, NoteCreateSpaceFailed, Shaped, Fields
<1>2. g = [h EXCEPT !.out = <<>>]
  BY DEF Left
<1> HIDE DEF h
<1>3. /\ g.ws = f.ws /\ g.external = f.external
      /\ g.pendingCreations = f.pendingCreations
      /\ g.awaited \in {None, f.awaited}
  BY <1>1, <1>2 DEF Fields
<1>4. Shaped(g) /\ g.obs = f.obs
  BY FailedIs
<1> HIDE DEF g
<1>5. Calmer(f, g)
  BY <1>3, <1>4 DEF Calmer, Fewer, Patient, Shaped, Registry
<1> QED BY <1>5 DEF g

-----------------------------------------------------------------------------
\* The queue of creations.
LEMMA OrderedOnce ==
  ASSUME NEW S \in SUBSET Nat, IsFiniteSet(S)
  PROVE  Once(Ordered(S))
<1> DEFINE n == Cardinality(S)
           o == Ordered(S)
           at(k) == CHOOSE x \in S : Rank(S, x) = k
<1>1. n \in Nat /\ \A k \in 1 .. n : \E x \in S : Rank(S, x) = k
  BY RankIs
<1>2. \A k \in 1 .. n : at(k) \in S /\ Rank(S, at(k)) = k
  BY <1>1
<1>3. o = [k \in 1 .. n |-> at(k)]
  BY DEF Ordered
<1> HIDE DEF at, n, o
<1>4. \A k \in DOMAIN o : Rank(S, o[k]) = k
  BY <1>2, <1>3
<1>5. Once(o)
  BY <1>4 DEF Once
<1> QED BY <1>5 DEF o

LEMMA ConcatOnce ==
  ASSUME NEW s, IsSeq(s), NEW t, IsSeq(t), Once(s), Once(t), ToSet(s) \cap ToSet(t) = {}
  PROVE  Once(s \o t)
<1>1. /\ IsSeq(s \o t) /\ Len(s \o t) = Len(s) + Len(t)
      /\ \A i \in 1 .. Len(s) : (s \o t)[i] = s[i]
      /\ \A i \in 1 .. Len(t) : (s \o t)[Len(s) + i] = t[i]
  BY ConcatIs
<1>2. PICK u : u = s \o t
  OBVIOUS
<1>3. /\ DOMAIN u = 1 .. Len(s) + Len(t) /\ DOMAIN s = 1 .. Len(s) /\ DOMAIN t = 1 .. Len(t)
      /\ Len(s) \in Nat /\ Len(t) \in Nat
  BY <1>1, <1>2, SeqIs
<1>4. ASSUME NEW i \in DOMAIN u
      PROVE  \/ i \in DOMAIN s /\ u[i] = s[i]
             \/ i - Len(s) \in DOMAIN t /\ u[i] = t[i - Len(s)]
  <2>1. CASE i <= Len(s)
    <3>1. i \in 1 .. Len(s)
      BY <1>3, <2>1
    <3> QED BY <1>1, <1>2, <1>3, <3>1
  <2>2. CASE ~(i <= Len(s))
    <3>1. i - Len(s) \in 1 .. Len(t) /\ Len(s) + (i - Len(s)) = i
      BY <1>3, <2>2
    <3>2. u[Len(s) + (i - Len(s))] = t[i - Len(s)]
      BY <1>1, <1>2, <3>1
    <3> QED BY <1>3, <3>1, <3>2
  <2> QED BY <2>1, <2>2
<1>5. ASSUME NEW i \in DOMAIN u, NEW j \in DOMAIN u, u[i] = u[j] PROVE i = j
  <2>1. CASE i \in DOMAIN s /\ u[i] = s[i] /\ j \in DOMAIN s /\ u[j] = s[j]
    BY <1>5, <2>1 DEF Once
  <2>2. CASE /\ i - Len(s) \in DOMAIN t /\ u[i] = t[i - Len(s)]
             /\ j - Len(s) \in DOMAIN t /\ u[j] = t[j - Len(s)]
    <3>1. i - Len(s) = j - Len(s)
      BY <1>5, <2>2 DEF Once
    <3> QED BY <1>3, <3>1
  <2>3. \A k, l : k \in DOMAIN s /\ l \in DOMAIN t => s[k] # t[l]
    BY DEF ToSet
  <2> QED BY <1>4, <1>5, <2>1, <2>2, <2>3
<1> QED BY <1>2, <1>5 DEF Once

\* What is left of a queue whose head is taken off.
LEMMA RestOnce ==
  ASSUME NEW q, IsSeq(q), Once(q), NEW i \in 0 .. Len(q)
  PROVE  /\ IsSeq(SubSeq(q, i + 1, Len(q))) /\ Once(SubSeq(q, i + 1, Len(q)))
         /\ ToSet(SubSeq(q, i + 1, Len(q))) \subseteq ToSet(q)
         /\ i # 0 => q[i] \in ToSet(q) /\ q[i] \notin ToSet(SubSeq(q, i + 1, Len(q)))
<1> DEFINE r == SubSeq(q, i + 1, Len(q))
<1>1. /\ IsSeq(r) /\ Len(r) = Len(q) - i
      /\ \A j \in 1 .. Len(q) - i : r[j] = q[j + i]
  BY SuffixIs
<1> HIDE DEF r
<1>2. /\ Len(q) \in Nat /\ i \in Nat /\ i <= Len(q) /\ DOMAIN q = 1 .. Len(q)
      /\ DOMAIN r = 1 .. Len(q) - i
  BY <1>1, SeqIs
<1>3. ASSUME NEW j \in DOMAIN r PROVE j + i \in DOMAIN q /\ r[j] = q[j + i] /\ j + i # i
  BY <1>1, <1>2
<1>4. Once(r)
  <2> SUFFICES ASSUME NEW j \in DOMAIN r, NEW k \in DOMAIN r, r[j] = r[k] PROVE j = k
    BY DEF Once
  <2>1. j + i = k + i
    BY <1>3 DEF Once
  <2> QED BY <1>2, <2>1
<1>5. ToSet(r) \subseteq ToSet(q)
  BY <1>3 DEF ToSet
<1>6. ASSUME i # 0 PROVE q[i] \in ToSet(q) /\ q[i] \notin ToSet(r)
  <2>1. i \in DOMAIN q
    BY <1>2, <1>6
  <2>2. \A j \in DOMAIN r : r[j] # q[i]
    BY <1>3, <2>1 DEF Once
  <2> QED BY <2>1, <2>2 DEF ToSet
<1> QED BY <1>1, <1>4, <1>5, <1>6 DEF r

\* The creation awaited may take any Space that is new since it was asked for.
Dated(e) == e.awaited # None => Ordinary(e) \subseteq e.awaited.before

LEMMA FewerIs ==
  ASSUME NEW e, NEW g, NEW m, Sound(e, m), Fewer(e, g), Lined(g)
  PROVE  /\ Sound(g, m) /\ Claimed(g.ws) \subseteq Claimed(e.ws)
         /\ Distinct(e.ws) => Distinct(g.ws)
         /\ InOrder(e, {}) => InOrder(g, {})
<1>1. Shaped(g)
  BY DEF Fewer
<1> QED BY <1>1, FewerWs DEF Sound

LEMMA TryStartFewer ==
  ASSUME NEW e, NEW m, Sound(e, m)
  PROVE  LET g == TryStartNextPendingCreation(e)
         IN  Fewer(e, g) /\ Lined(g) /\ (Dated(e) => Dated(g))
<1> DEFINE q == e.pendingCreations
           g == TryStartNextPendingCreation(e)
           rest(k) == [e EXCEPT !.pendingCreations = SubSeq(q, k, Len(q))]
           wait(k) == [rest(k + 1) EXCEPT !.awaited =
                            [name |-> q[k], before |-> Observed(e), uncertain |-> FALSE]]
           lives(n) == n \in DOMAIN e.ws /\ Active(e.ws[n]) = None
           gated(n) == ~e.capable /\ n \in DOMAIN e.ws /\ e.ws[n].persistent
           I == {j \in 1 .. Len(q) : lives(q[j]) \/ gated(q[j])}
           i == IF I # {} THEN Min(I) ELSE 0
<1>1. Len(q) \in Nat /\ IsSeq(q) /\ Shaped(e) /\ Once(q)
  BY SeqIs DEF Sound, Shaped, Lined
<1>2. \/ g = e
      \/ g = rest(Len(q) + 1)
      \/ i # 0 /\ g = rest(i)
      \/ i # 0 /\ g = Emit(wait(i), Create(q[i]))
  BY Zenon DEF TryStartNextPendingCreation, SelectInSeq
<1>3. i \in 0 .. Len(q)
  <2>1. I \subseteq 1 .. Len(q)
    OBVIOUS
  <2> HIDE DEF I, q
  <2> QED BY <1>1, <2>1, LowestIs
<1>4. Shaped(g) /\ g.obs = e.obs
  BY <1>1, TryStartKept DEF Kept
<1> HIDE DEF i, g
<1>5. /\ g.ws = e.ws /\ g.external = e.external
      /\ \/ g.awaited = e.awaited /\ g.pendingCreations = q
         \/ g.awaited = e.awaited /\ g.pendingCreations = SubSeq(q, Len(q) + 1, Len(q))
         \/ i # 0 /\ g.awaited = e.awaited /\ g.pendingCreations = SubSeq(q, i, Len(q))
         \/ /\ i # 0 /\ g.pendingCreations = SubSeq(q, i + 1, Len(q))
            /\ g.awaited = [name |-> q[i], before |-> Observed(e), uncertain |-> FALSE]
  BY <1>1, <1>2 DEF Shaped, Emit, Fields
<1>6. Fewer(e, g)
  BY <1>4, <1>5 DEF Fewer, Shaped, Registry
<1>7. ASSUME NEW k \in 0 .. Len(q)
      PROVE  /\ Once(SubSeq(q, k + 1, Len(q)))
             /\ ToSet(SubSeq(q, k + 1, Len(q))) \subseteq ToSet(q)
             /\ k # 0 => q[k] \in ToSet(q) /\ q[k] \notin ToSet(SubSeq(q, k + 1, Len(q)))
  <2> HIDE DEF q
  <2> QED BY <1>1, RestOnce
<1>8. /\ Len(q) \in 0 .. Len(q)
      /\ i # 0 => i - 1 \in 0 .. Len(q) /\ i - 1 + 1 = i
  BY <1>1, <1>3
<1>9. \/ /\ g.awaited = e.awaited
         /\ Once(g.pendingCreations) /\ ToSet(g.pendingCreations) \subseteq ToSet(q)
      \/ /\ g.awaited.before = Observed(e)
         /\ Once(g.pendingCreations) /\ ToSet(g.pendingCreations) \subseteq ToSet(q)
         /\ g.awaited.name \in ToSet(q)
         /\ g.awaited.name \notin ToSet(g.pendingCreations)
  <2>1. CASE g.awaited = e.awaited /\ g.pendingCreations = q
    BY <1>1, <2>1
  <2>2. CASE g.awaited = e.awaited /\ g.pendingCreations = SubSeq(q, Len(q) + 1, Len(q))
    BY <1>7, <1>8, <2>2
  <2>3. CASE i # 0 /\ g.awaited = e.awaited /\ g.pendingCreations = SubSeq(q, i, Len(q))
    <3>1. PICK k \in 0 .. Len(q) : k + 1 = i
      BY <1>8, <2>3
    <3> QED BY <1>7, <2>3, <3>1
  <2>4. CASE /\ i # 0 /\ g.pendingCreations = SubSeq(q, i + 1, Len(q))
             /\ g.awaited = [name |-> q[i], before |-> Observed(e), uncertain |-> FALSE]
    <3> QED BY <1>3, <1>7, <2>4
  <2> QED BY <1>5, <2>1, <2>2, <2>3, <2>4
<1> HIDE DEF q
<1>10. Lined(g)
  <2>1. Waiting(g) \subseteq Waiting(e)
    BY <1>9 DEF Waiting, AwaitedName, q
  <2>2. Once(g.pendingCreations) /\ AwaitedName(g) \cap ToSet(g.pendingCreations) = {}
    BY <1>9 DEF AwaitedName, Lined, Sound, q
  <2> QED BY <1>5, <2>1, <2>2 DEF Lined, Sound
<1>11. ASSUME Dated(e) PROVE Dated(g)
  BY <1>4, <1>9, <1>11 DEF Dated, Ordinary, Observed
<1> QED BY <1>6, <1>10, <1>11 DEF g

LEMMA NoneIs == ASSUME NEW m PROVE None \notin Ids(m) /\ None \notin FsSpaces
<1>1. None \notin Nat /\ FsSpaces \subseteq Nat
  BY WorkspacesAssumption
<1>2. \A x \in Ids(m) : x # None
  <2> SUFFICES ASSUME NEW x \in 1 .. m PROVE x # None
    BY DEF Ids
  <2>1. x \in Nat
    OBVIOUS
  <2> QED BY <1>1, <2>1
<1> QED BY <1>1, <1>2

\* Who has no Space is backed by none.
LEMMA BackedIs ==
  ASSUME NEW e, NEW m, Sound(e, m), NEW n \in DOMAIN e.ws
  PROVE  /\ Active(e.ws[n]) = None <=> e.ws[n].backing = None
         /\ e.ws[n].backing = None => Restore(e.ws[n]) = None
  BY NoneIs DEF Sound, Homed, Active, Restore

\* Names without a Space join the queue.
LEMMA JoinLined ==
  ASSUME NEW e, NEW m, Sound(e, m), NEW g, NEW S, S \subseteq DOMAIN e.ws, S \cap Waiting(e) = {},
         g.awaited = e.awaited, g.pendingCreations = e.pendingCreations \o Ordered(S),
         \A n \in DOMAIN g.ws : \/ g.ws[n].backing = None
                                \/ /\ n \in DOMAIN e.ws \ S
                                   /\ g.ws[n].backing = e.ws[n].backing
  PROVE  Lined(g) /\ ToSet(g.pendingCreations) \subseteq ToSet(e.pendingCreations) \cup S
<1>1. S \subseteq Names
  BY DEF Sound, Shaped, Registry
<1>2. S \in SUBSET Nat /\ IsFiniteSet(S)
  BY <1>1, NamesIs
<1> DEFINE more == Ordered(S)
           q == e.pendingCreations
<1>3. IsSeq(more) /\ ToSet(more) \subseteq S /\ Once(more)
  BY <1>2, OrderedIs, OrderedOnce
<1>4. IsSeq(q) /\ Once(q) /\ ToSet(q) \cap S = {}
  BY DEF Sound, Shaped, Lined, Waiting
<1>5. g.pendingCreations = q \o more
  OBVIOUS
<1> HIDE DEF more, q
<1>6. Once(q \o more) /\ ToSet(q \o more) \subseteq ToSet(q) \cup S
  BY <1>3, <1>4, ConcatOnce, ConcatSet
<1>7. AwaitedName(g) = AwaitedName(e)
  BY DEF AwaitedName
<1>8. Waiting(g) \subseteq Waiting(e) \cup S
  BY <1>5, <1>6, <1>7 DEF Waiting, q
<1>9. AwaitedName(g) \cap ToSet(g.pendingCreations) = {}
  BY <1>5, <1>6, <1>7 DEF Sound, Lined, Waiting, q
<1>10. \A n \in Waiting(g) \cap DOMAIN g.ws : g.ws[n].backing = None
  BY <1>8 DEF Sound, Lined
<1> QED BY <1>5, <1>6, <1>9, <1>10 DEF Lined, q

LEMMA MissingFewer ==
  ASSUME NEW e, NEW m, Sound(e, m)
  PROVE  LET g == RequestMissing(e)
         IN  Fewer(e, g) /\ Lined(g) /\ (Dated(e) => Dated(g))
<1> DEFINE g == RequestMissing(e)
           missing == EnsurePersistent(e.ws) \ Waiting(e)
<1>1. Shaped(e)
  BY DEF Sound
<1>2. Shaped(g) /\ g.obs = e.obs
  BY <1>1, MissingKept DEF Kept
<1>3. /\ g.ws = e.ws /\ g.external = e.external /\ g.awaited = e.awaited
      /\ g.pendingCreations = e.pendingCreations \o Ordered(missing)
  BY <1>1 DEF RequestMissing, Shaped, Fields
<1>4. missing \subseteq DOMAIN e.ws /\ missing \cap Waiting(e) = {}
      /\ \A n \in missing : e.ws[n].backing = None
  BY BackedIs DEF EnsurePersistent
<1> HIDE DEF g, missing
<1>5. Fewer(e, g)
  BY <1>2, <1>3 DEF Fewer, Shaped, Registry
<1>6. Lined(g)
  BY <1>3, <1>4, JoinLined
<1>7. Dated(e) => Dated(g)
  BY <1>2, <1>3 DEF Dated, Ordinary, Observed
<1> QED BY <1>5, <1>6, <1>7 DEF g

\* Every queued workspace is in the registry, or nothing is adopted this time.
Enrolled(e) == e.initialized => ToSet(e.pendingCreations) \subseteq DOMAIN e.ws

LEMMA RetireFewer ==
  ASSUME NEW e, NEW m, Sound(e, m), NEW reset
  PROVE  LET g == RetireVanished(e, reset)
         IN  Fewer(e, g) /\ Lined(g) /\ g.awaited = e.awaited /\ (Enrolled(e) => Enrolled(g))
<1> DEFINE vanished == {n \in DOMAIN e.ws : Active(e.ws[n]) \notin Observed(e) \cup {None}}
           lost == {n \in vanished : e.ws[n].persistent}
           S == lost \ ToSet(e.pendingCreations)
           queue == Ordered(S)
           e1 == RemoveWorkspaces(e, vanished \ lost)
           cleared == [e1 EXCEPT !.ws = [n \in DOMAIN @ |->
                         IF n \in lost THEN [@[n] EXCEPT !.backing = None] ELSE @[n]]]
           f == [cleared EXCEPT !.pendingCreations = @ \o queue]
           g == RetireVanished(e, reset)
<1>1. Shaped(e)
  BY DEF Sound
<1>2. Shaped(g) /\ g.obs = e.obs
  BY <1>1, RetireKept DEF Kept
<1>3. g = e \/ g = f
  BY DEF RetireVanished
<1>4. \A n \in lost : n \in DOMAIN e.ws /\ n \notin vanished \ lost /\ "backing" \in DOMAIN e.ws[n]
  BY <1>1 DEF Shaped, Registry
<1>5. \A n \in vanished : n \in DOMAIN e.ws /\ n \notin Waiting(e)
  <2> SUFFICES ASSUME NEW n \in vanished PROVE n \in DOMAIN e.ws /\ n \notin Waiting(e)
    OBVIOUS
  <2>1. n \in DOMAIN e.ws /\ Active(e.ws[n]) # None
    OBVIOUS
  <2>2. e.ws[n].backing # None
    BY <2>1, BackedIs
  <2> QED BY <2>1, <2>2 DEF Sound, Lined
<1>6. lost \subseteq vanished /\ S = lost
  BY <1>5 DEF Waiting
<1> HIDE DEF g, lost, vanished
<1>7. /\ e1.ws = Without(e.ws, vanished \ lost) /\ DOMAIN e1 = Fields
      /\ e1.pendingCreations = e.pendingCreations /\ e1.awaited = e.awaited
      /\ e1.external = e.external /\ e1.initialized = e.initialized
  BY <1>1 DEF RemoveWorkspaces, Shaped, Fields
<1> HIDE DEF e1, queue
<1>8. /\ f.pendingCreations = e.pendingCreations \o queue /\ f.awaited = e.awaited
      /\ f.external = e.external /\ f.initialized = e.initialized
      /\ f.ws = [n \in DOMAIN e1.ws |->
                   IF n \in lost THEN [e1.ws[n] EXCEPT !.backing = None] ELSE e1.ws[n]]
  BY <1>7 DEF Fields
<1> HIDE DEF f
<1>9. ASSUME NEW n \in DOMAIN f.ws
      PROVE  /\ n \in DOMAIN e.ws
             /\ IF n \in lost THEN f.ws[n].backing = None ELSE f.ws[n] = e.ws[n]
  <2>1. n \in DOMAIN e.ws /\ e1.ws[n] = e.ws[n]
    BY <1>7, <1>8 DEF Without
  <2> QED BY <1>4, <1>8, <2>1
<1>10. DOMAIN f.ws = DOMAIN e.ws \ (vanished \ lost)
  BY <1>7, <1>8 DEF Without
<1>11. ASSUME g = f
       PROVE  Fewer(e, g) /\ Lined(g) /\ g.awaited = e.awaited /\ (Enrolled(e) => Enrolled(g))
  <2>1. Fewer(e, g)
    BY <1>2, <1>8, <1>9, <1>11 DEF Fewer
  <2>2. S \subseteq DOMAIN e.ws /\ S \cap Waiting(e) = {}
    BY <1>5, <1>6
  <2> HIDE DEF S
  <2>3. \A n \in DOMAIN g.ws : \/ g.ws[n].backing = None
                               \/ /\ n \in DOMAIN e.ws \ S
                                  /\ g.ws[n].backing = e.ws[n].backing
    BY <1>6, <1>9, <1>11
  <2>4. Lined(g) /\ ToSet(g.pendingCreations) \subseteq ToSet(e.pendingCreations) \cup S
    BY <1>8, <1>11, <2>2, <2>3, JoinLined DEF queue
  <2>5. ASSUME Enrolled(e) PROVE Enrolled(g)
    <3> SUFFICES ASSUME g.initialized PROVE ToSet(g.pendingCreations) \subseteq DOMAIN g.ws
      BY DEF Enrolled
    <3>1. ToSet(e.pendingCreations) \subseteq DOMAIN e.ws
      BY <1>8, <1>11, <2>5 DEF Enrolled
    <3>2. ToSet(e.pendingCreations) \cap vanished = {}
      BY <1>5 DEF Waiting
    <3>3. S \subseteq DOMAIN g.ws
      BY <1>4, <1>6, <1>10, <1>11
    <3> QED BY <1>10, <1>11, <2>4, <3>1, <3>2, <3>3
  <2> QED BY <1>8, <1>11, <2>1, <2>4, <2>5
<1>12. ASSUME g = e
       PROVE  Fewer(e, g) /\ Lined(g) /\ g.awaited = e.awaited /\ (Enrolled(e) => Enrolled(g))
  <2>1. Fewer(e, e)
    BY <1>1 DEF Fewer, Shaped, Registry
  <2> QED BY <1>12, <2>1 DEF Sound
<1>13. Fewer(e, g) /\ Lined(g) /\ g.awaited = e.awaited /\ (Enrolled(e) => Enrolled(g))
  BY <1>3, <1>11, <1>12
<1> QED BY <1>13 DEF g

-----------------------------------------------------------------------------
\* The start of an observation.  Nobody who is queued dies in this observation,
\* or nothing is adopted in it.
Clear(e) ==
  e.initialized =>
    ToSet(e.pendingCreations) \subseteq DOMAIN e.ws \ {d.name : d \in e.pendingDestroy}

Begins(e, c, f) ==
  /\ f.ws = IF e.synced THEN e.ws ELSE SyncConfig(e.ws, c, FALSE)
  /\ f.pendingDestroy = e.pendingDestroy
  /\ \/ /\ f.awaited = e.awaited /\ f.pendingCreations = e.pendingCreations
        /\ DOMAIN f.external = DOMAIN e.external /\ f.initialized = e.initialized
     \/ /\ f.awaited = None /\ DOMAIN f.external = {} /\ f.initialized = FALSE
        /\ \/ f.pendingCreations = e.pendingCreations
           \/ /\ e.awaited # None
              /\ f.pendingCreations = <<e.awaited.name>> \o e.pendingCreations

LEMMA StartBegins ==
  ASSUME NEW e, NEW seen, NEW capable, NEW c, NEW late, Shaped(e)
  PROVE  Begins(e, c, Started(e, seen, capable, c, late))
<1> DEFINE f == Started(e, seen, capable, c, late)
           r == RequeueAwaited(e)
           void == [r EXCEPT !.initialized = FALSE, !.external = <<>>]
           d == IF IsReset(e, seen) THEN void ELSE e
           queue == <<e.awaited.name>> \o e.pendingCreations
<1>1. /\ DOMAIN r = Fields /\ r.awaited = None
      /\ r.ws = e.ws /\ r.pendingDestroy = e.pendingDestroy
      /\ \/ r.pendingCreations = e.pendingCreations
         \/ e.awaited # None /\ r.pendingCreations = queue
  BY DEF RequeueAwaited, Shaped, Fields
<1> HIDE DEF r, queue
<1>2. /\ DOMAIN d = Fields /\ d.ws = e.ws /\ d.pendingDestroy = e.pendingDestroy
      /\ \/ /\ d.awaited = e.awaited /\ d.pendingCreations = e.pendingCreations
            /\ d.external = e.external /\ d.initialized = e.initialized
         \/ /\ d.awaited = None /\ d.external = <<>> /\ d.initialized = FALSE
            /\ \/ d.pendingCreations = e.pendingCreations
               \/ e.awaited # None /\ d.pendingCreations = queue
  <2>1. CASE d = e
    BY <2>1 DEF Shaped
  <2>2. CASE d = void
    BY <1>1, <2>2 DEF Fields
  <2> HIDE DEF void
  <2>3. d = e \/ d = void
    OBVIOUS
  <2> QED BY <2>1, <2>2, <2>3
<1>3. f = [Expire(d, late) EXCEPT
             !.obs = seen, !.capable = capable, !.synced = TRUE, !.out = <<>>,
             !.ws = IF e.synced THEN @ ELSE SyncConfig(@, c, FALSE)]
  BY DEF Started, r
<1> HIDE DEF d, f
<1>4. /\ f.ws = IF e.synced THEN d.ws ELSE SyncConfig(d.ws, c, FALSE)
      /\ f.pendingDestroy = d.pendingDestroy /\ f.awaited = d.awaited
      /\ f.pendingCreations = d.pendingCreations /\ f.initialized = d.initialized
      /\ DOMAIN f.external = DOMAIN d.external
  BY <1>2, <1>3 DEF Expire, Fields
<1>5. DOMAIN <<>> = {}
  OBVIOUS
<1>6. Begins(e, c, f)
  BY <1>2, <1>4, <1>5 DEF Begins, queue
<1> QED BY <1>6 DEF f

LEMMA SyncIs ==
  ASSUME NEW ws, Registry(ws), NEW c
  PROVE  LET g == SyncConfig(ws, c, FALSE)
         IN  /\ DOMAIN ws \subseteq DOMAIN g
             /\ \A n \in DOMAIN g :
                  \/ g[n].backing = None
                  \/ n \in DOMAIN ws /\ g[n].backing = ws[n].backing
<1>1. DOMAIN SyncConfig(ws, c, FALSE) = DOMAIN c \cup DOMAIN ws
  BY DEF SyncConfig
<1>2. ASSUME NEW n \in DOMAIN c \cup DOMAIN ws
      PROVE  LET g == SyncConfig(ws, c, FALSE)
             IN  \/ g[n].backing = None
                 \/ n \in DOMAIN ws /\ g[n].backing = ws[n].backing
  BY DEF SyncConfig, NewState, Registry
<1> QED BY <1>1, <1>2

\* The engine between two observations, and an observation to come.
Seen(e, seen, m) ==
  /\ Shaped(e) /\ Homed(e.ws, m) /\ Lined(e) /\ DOMAIN e.external \subseteq Ids(m)
  /\ IsSeq(seen.order) /\ Once(seen.order) /\ ToSet(seen.order) \subseteq 1 .. m \cup FsSpaces

LEMMA QueueOnce ==
  ASSUME NEW n, NEW q, IsSeq(q), Once(q), n \notin ToSet(q)
  PROVE  Once(<<n>> \o q) /\ ToSet(<<n>> \o q) \subseteq {n} \cup ToSet(q)
<1>1. PICK h : h = <<n>>
  OBVIOUS
<1>2. IsSeq(h) /\ Len(h) = 1 /\ h[1] = n
  <2>1. <<n>> \in Seq({n}) /\ Len(<<n>>) = 1 /\ <<n>>[1] = n
    OBVIOUS
  <2> QED BY <1>1, <2>1 DEF IsSeq
<1>3. DOMAIN h = 1 .. 1
  BY <1>2, SeqIs
<1>4. ToSet(h) = {n} /\ Once(h)
  BY <1>2, <1>3 DEF ToSet, Once
<1>5. Once(h \o q) /\ ToSet(h \o q) \subseteq ToSet(h) \cup ToSet(q)
  BY <1>2, <1>4, ConcatOnce, ConcatSet
<1> QED BY <1>1, <1>4, <1>5

Starts(e, seen, m, f) ==
  /\ Sound(f, m) /\ f.obs = seen /\ Claimed(f.ws) \subseteq Claimed(e.ws)
  /\ Distinct(e.ws) => Distinct(f.ws)
  /\ Clear(e) => Clear(f)
  /\ f.awaited \in {None, e.awaited}

LEMMA StartSound ==
  ASSUME NEW e, NEW seen, NEW capable, NEW c \in Configs, NEW late, NEW m, Seen(e, seen, m)
  PROVE  Starts(e, seen, m, Started(e, seen, capable, c, late))
<1> DEFINE f == Started(e, seen, capable, c, late)
           q == e.pendingCreations
<1>1. Shaped(f) /\ f.obs = seen
  BY StartPlain DEF Seen, Plain
<1>3. Begins(e, c, f) /\ Waiting(f) \subseteq Waiting(e)
  BY StartBegins, StartWaiting DEF Seen
<1> HIDE DEF f
<1>2. /\ f.ws = IF e.synced THEN e.ws ELSE SyncConfig(e.ws, c, FALSE)
      /\ f.pendingDestroy = e.pendingDestroy
      /\ \/ /\ f.awaited = e.awaited /\ f.pendingCreations = q
            /\ DOMAIN f.external = DOMAIN e.external /\ f.initialized = e.initialized
         \/ /\ f.awaited = None /\ DOMAIN f.external = {} /\ f.initialized = FALSE
            /\ \/ f.pendingCreations = q
               \/ /\ e.awaited # None
                  /\ f.pendingCreations = <<e.awaited.name>> \o q
  BY <1>3 DEF Begins
<1>4. /\ DOMAIN e.ws \subseteq DOMAIN f.ws
      /\ \A n \in DOMAIN f.ws :
           \/ f.ws[n].backing = None
           \/ n \in DOMAIN e.ws /\ f.ws[n].backing = e.ws[n].backing
  <2>1. Registry(e.ws)
    BY DEF Seen, Shaped
  <2> DEFINE g == SyncConfig(e.ws, c, FALSE)
  <2>2. /\ DOMAIN e.ws \subseteq DOMAIN g
        /\ \A n \in DOMAIN g :
             \/ g[n].backing = None
             \/ n \in DOMAIN e.ws /\ g[n].backing = e.ws[n].backing
    BY <2>1, SyncIs
  <2>3. f.ws = e.ws \/ f.ws = g
    BY <1>2
  <2> HIDE DEF g
  <2> QED BY <2>2, <2>3
<1>5. ASSUME NEW n \in DOMAIN f.ws
      PROVE  \/ Active(f.ws[n]) = None /\ Restore(f.ws[n]) = None
             \/ /\ n \in DOMAIN e.ws /\ Active(f.ws[n]) = Active(e.ws[n])
                /\ Restore(f.ws[n]) = Restore(e.ws[n])
  BY <1>4 DEF Active, Restore
<1>6. Homed(f.ws, m)
  BY <1>4 DEF Homed, Seen
<1>7. Claimed(f.ws) \subseteq Claimed(e.ws)
  BY <1>5 DEF Claimed, ActiveSpaces, RestoreSpaces
<1>8. ASSUME Distinct(e.ws) PROVE Distinct(f.ws)
  <2> SUFFICES ASSUME NEW k \in DOMAIN f.ws, NEW n \in DOMAIN f.ws, k # n
               PROVE  ({Active(f.ws[k]), Restore(f.ws[k])}
                         \cap {Active(f.ws[n]), Restore(f.ws[n])}) \subseteq {None}
    BY DEF Distinct
  <2>1. CASE k \in DOMAIN e.ws /\ n \in DOMAIN e.ws
    <3>1. ({Active(e.ws[k]), Restore(e.ws[k])} \cap {Active(e.ws[n]), Restore(e.ws[n])})
            \subseteq {None}
      BY <1>8, <2>1 DEF Distinct
    <3> QED BY <1>5, <3>1
  <2> QED BY <1>5, <2>1
<1>9. Lined(f)
  <2>1. \A n \in Waiting(f) \cap DOMAIN f.ws : f.ws[n].backing = None
    BY <1>3, <1>4 DEF Lined, Seen
  <2>2. Once(q) /\ IsSeq(q) /\ (e.awaited # None => e.awaited.name \notin ToSet(q))
        /\ AwaitedName(e) \cap ToSet(q) = {}
    BY DEF Lined, Seen, Shaped, AwaitedName
  <2> HIDE DEF q
  <2>3. e.awaited # None => Once(<<e.awaited.name>> \o q)
    BY <2>2, QueueOnce
  <2>4. Once(f.pendingCreations)
    BY <1>2, <2>2, <2>3
  <2>5. AwaitedName(f) \cap ToSet(f.pendingCreations) = {}
    BY <1>2, <2>2 DEF AwaitedName
  <2> QED BY <2>1, <2>4, <2>5 DEF Lined
<1>10. DOMAIN f.external \subseteq Ids(m)
  BY <1>2 DEF Seen
<1>11. Once(f.obs.order) /\ Observed(f) \subseteq 1 .. m \cup FsSpaces
  BY <1>1 DEF Seen, Observed
<1>12. ASSUME Clear(e) PROVE Clear(f)
  BY <1>2, <1>4, <1>12 DEF Clear
<1>13. f.awaited \in {None, e.awaited}
  BY <1>2
<1>14. Starts(e, seen, m, f)
  BY <1>1, <1>6, <1>7, <1>8, <1>9, <1>10, <1>11, <1>12, <1>13 DEF Starts, Sound
<1> QED BY <1>14 DEF f

-----------------------------------------------------------------------------
\* Native fullscreen: what becomes of one workspace's backing.
Turned(e, was, n, b) ==
  LET old == e.ws[n].backing
  IN  \/ b = old
      \/ b = None
      \/ IsFullscreen(e.ws[n]) /\ old.restore \in Ordinary(e) /\ b = Normal(old.restore)
      \/ /\ ~IsFullscreen(e.ws[n]) /\ old # None
         /\ \E w \in Entered(e, was, old.active) :
              b = FullscreenReplacement(e.obs.at[w], old.active, w)

LEMMA FullscreenIs ==
  ASSUME NEW e, NEW was, Shaped(e)
  PROVE  LET g == ReconcileFullscreen(e, was)
         IN  /\ DOMAIN g.ws = DOMAIN e.ws /\ g.awaited = e.awaited
             /\ g.pendingCreations = e.pendingCreations
             /\ g.pendingDestroy = e.pendingDestroy /\ g.initialized = e.initialized
             /\ g.external = e.external /\ g.obs = e.obs /\ Shaped(g)
             /\ \A n \in DOMAIN e.ws : Turned(e, was, n, g.ws[n].backing)
<1> DEFINE back(b) == IF b.restore \in Ordinary(e) THEN Normal(b.restore) ELSE None
           first(n) == CHOOSE v \in Entered(e, was, e.ws[n].backing.active) :
                         \A u \in Entered(e, was, e.ws[n].backing.active) : v <= u
           backing(n) ==
             LET b == e.ws[n].backing
             IN  IF IsFullscreen(e.ws[n])
                 THEN IF Leaves(e, b) THEN back(b) ELSE b
                 ELSE IF b # None /\ Entered(e, was, b.active) # {}
                 THEN FullscreenReplacement(e.obs.at[first(n)], b.active, first(n))
                 ELSE b
           new == [n \in DOMAIN e.ws |-> [e.ws[n] EXCEPT !.backing = backing(n)]]
           g == ReconcileFullscreen(e, was)
<1>1. g.obs = e.obs /\ Shaped(g)
  BY FullscreenKept DEF Kept
<1>2. /\ g.ws = new /\ g.awaited = e.awaited
      /\ g.pendingCreations = e.pendingCreations
      /\ g.pendingDestroy = e.pendingDestroy /\ g.initialized = e.initialized
      /\ g.external = e.external
  BY DEF ReconcileFullscreen, ReserveLogicalOrder, Shaped, Fields
<1> HIDE DEF g
<1>3. ASSUME NEW n \in DOMAIN e.ws PROVE Turned(e, was, n, backing(n))
  <2> DEFINE b == e.ws[n].backing
             E == Entered(e, was, b.active)
  <2>1. ASSUME E # {} PROVE first(n) \in E
    <3>1. E \in SUBSET Nat /\ IsFiniteSet(E)
      <4>1. E \subseteq Windows
        BY DEF Entered
      <4> QED BY <4>1, WorkspacesAssumption, FS_Subset
    <3> HIDE DEF E
    <3>2. \E v \in E : \A u \in E : v <= u
      BY <2>1, <3>1, MinMaxIs
    <3>3. first(n) = CHOOSE v \in E : \A u \in E : v <= u
      BY DEF E
    <3> QED BY <3>2, <3>3
  <2>2. CASE IsFullscreen(e.ws[n]) /\ Leaves(e, b) /\ b.restore \in Ordinary(e)
    BY <2>2 DEF Turned
  <2>3. CASE IsFullscreen(e.ws[n]) /\ Leaves(e, b) /\ b.restore \notin Ordinary(e)
    BY <2>3 DEF Turned
  <2>4. CASE IsFullscreen(e.ws[n]) /\ ~Leaves(e, b)
    BY <2>4 DEF Turned
  <2>5. CASE ~IsFullscreen(e.ws[n]) /\ b # None /\ E # {}
    <3>1. backing(n) = FullscreenReplacement(e.obs.at[first(n)], b.active, first(n))
      BY <2>5
    <3> HIDE DEF backing, first
    <3> QED BY <2>1, <2>5, <3>1 DEF Turned
  <2>6. CASE ~IsFullscreen(e.ws[n]) /\ ~(b # None /\ E # {})
    BY <2>6 DEF Turned
  <2> QED BY <2>2, <2>3, <2>4, <2>5, <2>6
<1> HIDE DEF backing
<1>4. \A n \in DOMAIN e.ws : g.ws[n].backing = backing(n)
  BY <1>2 DEF Shaped, Registry
<1>5. \A n \in DOMAIN e.ws : Turned(e, was, n, g.ws[n].backing)
  BY <1>3, <1>4
<1>6. DOMAIN g.ws = DOMAIN e.ws
  BY <1>2
<1> QED BY <1>1, <1>2, <1>5, <1>6 DEF g

\* Two windows that share a fullscreen Space did not both enter it now.
Singly(e, was) ==
  \A u, v \in Windows :
    u # v /\ e.obs.at[u] = e.obs.at[v] /\ e.obs.at[u] \in FsSpaces =>
      was[u] = e.obs.at[u] \/ was[v] = e.obs.at[v]

Becomes(e, was, m, n, s) ==
  /\ \/ s.backing = None
     \/ s.backing.restore = None /\ s.backing.active \in Ids(m)
     \/ s.backing.restore \in Ids(m) /\ s.backing.active \in FsSpaces
  /\ e.ws[n].backing = None => s.backing = None
  /\ \/ {Active(s), Restore(s)} \subseteq {Active(e.ws[n]), Restore(e.ws[n]), None}
     \/ /\ IsNormal(e.ws[n]) /\ Restore(s) = Active(e.ws[n])
        /\ \E w \in Entered(e, was, Active(e.ws[n])) : Active(s) = e.obs.at[w]

LEMMA TurnedBecomes ==
  ASSUME NEW e, NEW was, NEW m, Sound(e, m), NEW n \in DOMAIN e.ws,
         NEW s, Turned(e, was, n, s.backing)
  PROVE  Becomes(e, was, m, n, s)
<1> DEFINE old == e.ws[n].backing
<1>1. \/ old = None
      \/ old.restore = None /\ old.active \in Ids(m)
      \/ old.restore \in Ids(m) /\ old.active \in FsSpaces
  BY DEF Sound, Homed
<1>2. None \notin Ids(m) /\ None \notin FsSpaces
  BY NoneIs
<1>3. CASE s.backing = old \/ s.backing = None
  BY <1>1, <1>3 DEF Active, Restore, Becomes
<1>4. CASE IsFullscreen(e.ws[n]) /\ old.restore \in Ordinary(e) /\ s.backing = Normal(old.restore)
  <2>1. s.backing.active = old.restore /\ s.backing.restore = None /\ old # None
    BY <1>4 DEF Normal, IsFullscreen
  <2>2. old.restore \in Ids(m)
    BY <1>1, <1>4 DEF IsFullscreen
  <2> QED BY <2>1, <2>2 DEF Active, Restore, Becomes
<1>5. ASSUME ~IsFullscreen(e.ws[n]), old # None, NEW w \in Entered(e, was, old.active),
             s.backing # None, s.backing = FullscreenReplacement(e.obs.at[w], old.active, w)
      PROVE  /\ s.backing.restore \in Ids(m) /\ s.backing.active \in FsSpaces
             /\ IsNormal(e.ws[n]) /\ Restore(s) = Active(e.ws[n])
             /\ Active(e.ws[n]) = old.active /\ Active(s) = e.obs.at[w]
  <2>1. s.backing.active = e.obs.at[w] /\ s.backing.restore = old.active
    BY <1>5 DEF FullscreenReplacement
  <2>2. old.restore = None /\ old.active \in Ids(m)
    BY <1>1, <1>2, <1>5 DEF IsFullscreen
  <2>3. e.obs.at[w] \in FsSpaces
    BY <1>5 DEF Entered
  <2> QED BY <1>5, <2>1, <2>2, <2>3 DEF Active, Restore, IsNormal
<1> QED BY <1>3, <1>4, <1>5 DEF Turned, Becomes

LEMMA FullscreenSound ==
  ASSUME NEW e, NEW was, NEW m, Sound(e, m)
  PROVE  LET g == ReconcileFullscreen(e, was)
         IN  /\ Sound(g, m) /\ g.obs = e.obs /\ g.awaited = e.awaited
             /\ Claimed(g.ws) \ FsSpaces \subseteq Claimed(e.ws)
             /\ Distinct(e.ws) /\ Singly(e, was) => Distinct(g.ws)
             /\ Clear(e) => Clear(g)
<1> DEFINE g == ReconcileFullscreen(e, was)
<1>1. /\ DOMAIN g.ws = DOMAIN e.ws /\ g.awaited = e.awaited
      /\ g.pendingCreations = e.pendingCreations
      /\ g.pendingDestroy = e.pendingDestroy /\ g.initialized = e.initialized
      /\ g.external = e.external /\ g.obs = e.obs /\ Shaped(g)
      /\ \A n \in DOMAIN e.ws : Turned(e, was, n, g.ws[n].backing)
  BY FullscreenIs DEF Sound
<1> HIDE DEF g
<1>2. ASSUME NEW n \in DOMAIN e.ws
      PROVE  /\ \/ g.ws[n].backing = None
                \/ g.ws[n].backing.restore = None /\ g.ws[n].backing.active \in Ids(m)
                \/ g.ws[n].backing.restore \in Ids(m) /\ g.ws[n].backing.active \in FsSpaces
             /\ e.ws[n].backing = None => g.ws[n].backing = None
             /\ \/ {Active(g.ws[n]), Restore(g.ws[n])}
                     \subseteq {Active(e.ws[n]), Restore(e.ws[n]), None}
                \/ /\ IsNormal(e.ws[n]) /\ Restore(g.ws[n]) = Active(e.ws[n])
                   /\ \E w \in Entered(e, was, Active(e.ws[n])) :
                        Active(g.ws[n]) = e.obs.at[w]
  <2>1. Becomes(e, was, m, n, g.ws[n])
    BY <1>1, TurnedBecomes
  <2> QED BY <2>1 DEF Becomes
<1>3. Homed(g.ws, m)
  BY <1>1, <1>2 DEF Homed
<1>4. Lined(g)
  <2>1. AwaitedName(g) = AwaitedName(e) /\ Waiting(g) = Waiting(e)
    BY <1>1 DEF AwaitedName, Waiting
  <2> QED BY <1>1, <1>2, <2>1 DEF Lined, Sound
<1>5. Sound(g, m)
  BY <1>1, <1>3, <1>4 DEF Sound, Observed
<1>6. ASSUME NEW x \in Claimed(g.ws), x \notin FsSpaces PROVE x \in Claimed(e.ws)
  <2>1. PICK n \in DOMAIN e.ws : x \in {Active(g.ws[n]), Restore(g.ws[n])} /\ x # None
    BY <1>1 DEF Claimed, ActiveSpaces, RestoreSpaces
  <2>2. x \in {Active(e.ws[n]), Restore(e.ws[n])}
    <3>1. CASE \/ {Active(g.ws[n]), Restore(g.ws[n])}
                    \subseteq {Active(e.ws[n]), Restore(e.ws[n]), None}
      BY <2>1, <3>1
    <3>2. CASE /\ Restore(g.ws[n]) = Active(e.ws[n])
               /\ \E w \in Entered(e, was, Active(e.ws[n])) : Active(g.ws[n]) = e.obs.at[w]
      BY <1>6, <2>1, <3>2 DEF Entered
    <3> QED BY <1>2, <3>1, <3>2
  <2> QED BY <2>1, <2>2 DEF Claimed, ActiveSpaces, RestoreSpaces
<1>7. ASSUME Distinct(e.ws), Singly(e, was) PROVE Distinct(g.ws)
  <2> DEFINE old(n) == {Active(e.ws[n]), Restore(e.ws[n])}
             new(n) == {Active(g.ws[n]), Restore(g.ws[n])}
             enters(n, w) == /\ w \in Entered(e, was, Active(e.ws[n])) /\ IsNormal(e.ws[n])
                             /\ Active(g.ws[n]) = e.obs.at[w]
  <2>1. ASSUME NEW n \in DOMAIN e.ws, NEW x \in new(n), x # None
        PROVE  \/ x \in old(n)
               \/ \E w : enters(n, w) /\ x = e.obs.at[w]
    <3>1. CASE new(n) \subseteq {Active(e.ws[n]), Restore(e.ws[n]), None}
      BY <2>1, <3>1
    <3>2. CASE /\ IsNormal(e.ws[n]) /\ Restore(g.ws[n]) = Active(e.ws[n])
               /\ \E w \in Entered(e, was, Active(e.ws[n])) : Active(g.ws[n]) = e.obs.at[w]
      BY <2>1, <3>2
    <3> QED BY <1>2, <3>1, <3>2
  <2>2. ASSUME NEW n, NEW w, enters(n, w), NEW k \in DOMAIN e.ws
        PROVE  e.obs.at[w] \notin old(k)
    <3>1. e.obs.at[w] \in FsSpaces /\ e.obs.at[w] \notin ActiveSpaces(e.ws)
      BY <2>2 DEF Entered
    <3>2. e.obs.at[w] # None
      BY <3>1, WorkspacesAssumption
    <3>3. e.obs.at[w] # Active(e.ws[k])
      BY <3>1, <3>2 DEF ActiveSpaces
    <3>4. Restore(e.ws[k]) \in Ids(m) \cup {None}
      BY DEF Sound, Homed, Restore
    <3>5. e.obs.at[w] # Restore(e.ws[k])
      BY <3>1, <3>2, <3>4 DEF Ids
    <3> QED BY <3>3, <3>5
  <2>3. ASSUME NEW k \in DOMAIN e.ws, NEW n \in DOMAIN e.ws, k # n,
               NEW v, NEW w, enters(k, v), enters(n, w), e.obs.at[v] = e.obs.at[w]
        PROVE  FALSE
    <3>1. /\ v \in Windows /\ w \in Windows
          /\ e.obs.at[v] \in FsSpaces
          /\ (IF was[v] # None THEN was[v] ELSE e.lastSpace[v]) = Active(e.ws[k])
          /\ (IF was[w] # None THEN was[w] ELSE e.lastSpace[w]) = Active(e.ws[n])
      BY <2>3 DEF Entered
    <3>2. /\ Active(e.ws[k]) \in Ids(m) /\ Active(e.ws[n]) \in Ids(m)
      BY <2>3, NoneIs DEF IsNormal, Sound, Homed, Active
    <3>3. Active(e.ws[k]) # None
      BY <3>2, NoneIs
    <3>4. v # w
      BY <1>7, <2>3, <3>1, <3>3 DEF Distinct
    <3>5. was[v] = e.obs.at[v] \/ was[w] = e.obs.at[w]
      BY <1>7, <2>3, <3>1, <3>4 DEF Singly
    <3>6. e.obs.at[v] # None
      BY <3>1, WorkspacesAssumption
    <3> QED BY <2>3, <3>1, <3>2, <3>5, <3>6 DEF Ids
  <2> HIDE DEF enters
  <2>4. ASSUME NEW k \in DOMAIN e.ws, NEW n \in DOMAIN e.ws, k # n,
               NEW x, x \in new(k), x \in new(n), x # None
        PROVE  FALSE
    <3>1. CASE x \in old(k) /\ x \in old(n)
      BY <1>7, <2>4, <3>1 DEF Distinct
    <3>2. CASE \E w : enters(n, w) /\ x = e.obs.at[w]
      <4>1. PICK w : enters(n, w) /\ x = e.obs.at[w]
        BY <3>2
      <4>2. x \notin old(k)
        BY <2>2, <4>1
      <4>3. PICK v : enters(k, v) /\ x = e.obs.at[v]
        BY <2>1, <2>4, <4>2
      <4> QED BY <2>3, <2>4, <4>1, <4>3
    <3>3. CASE \E w : enters(k, w) /\ x = e.obs.at[w]
      <4>1. PICK w : enters(k, w) /\ x = e.obs.at[w]
        BY <3>3
      <4>2. x \notin old(n)
        BY <2>2, <4>1
      <4>3. PICK v : enters(n, v) /\ x = e.obs.at[v]
        BY <2>1, <2>4, <4>2
      <4> QED BY <2>3, <2>4, <4>1, <4>3
    <3> QED BY <2>1, <2>4, <3>1, <3>2, <3>3
  <2> QED BY <1>1, <2>4 DEF Distinct
<1>8. Clear(e) => Clear(g)
  BY <1>1 DEF Clear
<1> QED BY <1>1, <1>5, <1>6, <1>7, <1>8 DEF g

-----------------------------------------------------------------------------
\* A Space that a workspace holds is not new to the creation awaited.
Datable(e) ==
  e.awaited # None => Claimed(e.ws) \cap Ordinary(e) \subseteq e.awaited.before

LEMMA DatableKept ==
  ASSUME NEW e, NEW g, Datable(e), g.obs = e.obs,
         Claimed(g.ws) \ FsSpaces \subseteq Claimed(e.ws),
         g.awaited # None => e.awaited # None /\ g.awaited.before = e.awaited.before
  PROVE  Datable(g)
  BY DEF Datable, Ordinary, Observed

LEMMA ConfirmEnrolled == ASSUME NEW e, Shaped(e), Clear(e) PROVE Enrolled(ConfirmDestroys(e))
<1> DEFINE f == ConfirmDestroys(e)
           gone == {d \in e.pendingDestroy : d.space \notin Observed(e)}
<1>1. /\ f.ws = Without(e.ws, {d.name : d \in gone})
      /\ f.pendingCreations = e.pendingCreations /\ f.initialized = e.initialized
  BY DEF ConfirmDestroys, RemoveWorkspaces, Shaped, Fields
<1>2. {d.name : d \in gone} \subseteq {d.name : d \in e.pendingDestroy}
  OBVIOUS
<1>3. DOMAIN f.ws = DOMAIN e.ws \ {d.name : d \in gone}
  BY <1>1 DEF Without
<1> HIDE DEF f, gone
<1>4. Enrolled(f)
  BY <1>1, <1>2, <1>3 DEF Enrolled, Clear
<1> QED BY <1>4 DEF f

Freed(e)      == [e EXCEPT !.awaited = None]
Unsure(e, late) == [e EXCEPT !.awaited.uncertain = @ \/ "creation" \in late]
Bound(e, n, s) == [e EXCEPT !.awaited = None,
                            !.ws[n].backing = Normal(s),
                            !.external = Without(@, {s}),
                            !.grace = @ \cup {n}]

\* The Spaces the creation awaited may take.
Fresh(e) == Ordinary(e) \ (ActiveSpaces(e.ws) \cup e.awaited.before)

\* f is what bind_awaited_dynamic_spaces leaves.
Binds(e, late, f) ==
  LET n == e.awaited.name
  IN  \/ e.awaited = None /\ f = e
      \/ /\ e.awaited # None
         /\ \/ f = Freed(e) \/ f = RemoveWorkspaces(Freed(e), {n})
            \/ Fresh(e) = {} /\ f = Unsure(e, late)
            \/ /\ n \in DOMAIN e.ws /\ Active(e.ws[n]) = None
               /\ \E s \in Fresh(e) : f = ReserveLogicalOrder(Bound(e, n, s))

LEMMA BindBinds ==
  ASSUME NEW e, NEW late, IsSeq(e.obs.order)
  PROVE  Binds(e, late, BindAwaitedDynamicSpaces(e, late))
<1> DEFINE n == e.awaited.name
           freed == Freed(e)
           unsure == Unsure(e, late)
           bound(s) == Bound(e, n, s)
           taken == FsSpaces \cup ActiveSpaces(e.ws) \cup e.awaited.before
           places == {i \in DOMAIN e.obs.order : e.obs.order[i] \notin taken}
           f == BindAwaitedDynamicSpaces(e, late)
<1>1. \/ e.awaited = None /\ f = e
      \/ /\ e.awaited # None
         /\ \/ f = freed \/ f = RemoveWorkspaces(freed, {n})
            \/ places = {} /\ f = unsure
            \/ /\ n \in DOMAIN e.ws /\ BackingFor(e.ws, n) = None /\ places # {}
               /\ f = ReserveLogicalOrder(bound(e.obs.order[Min(places)]))
  BY Zenon DEF BindAwaitedDynamicSpaces, ReleaseAwaited, Freed, Unsure, Bound
<1>2. Fresh(e) = {e.obs.order[i] : i \in places}
  BY DEF Fresh, Ordinary, Observed, ToSet
<1>3. ASSUME places # {} PROVE Min(places) \in places
  <2>1. places \in SUBSET Nat /\ IsFiniteSet(places)
    <3>1. places \subseteq DOMAIN e.obs.order
      OBVIOUS
    <3> HIDE DEF places
    <3> QED BY <3>1, SeqIs, FS_Subset
  <2> HIDE DEF places
  <2> QED BY <1>3, <2>1, MinMaxIs
<1> HIDE DEF f, places
<1>4. ASSUME e.awaited # None, n \in DOMAIN e.ws, BackingFor(e.ws, n) = None, places # {},
             f = ReserveLogicalOrder(bound(e.obs.order[Min(places)]))
      PROVE  /\ Active(e.ws[n]) = None
             /\ \E s \in Fresh(e) : f = ReserveLogicalOrder(Bound(e, n, s))
  <2>1. Active(e.ws[n]) = None
    BY <1>4 DEF BackingFor
  <2>2. e.obs.order[Min(places)] \in Fresh(e)
    BY <1>2, <1>3, <1>4
  <2> QED BY <1>4, <2>1, <2>2
<1>5. places = {} => Fresh(e) = {}
  BY <1>2
<1>6. Binds(e, late, f)
  BY <1>1, <1>4, <1>5 DEF Binds
<1> QED BY <1>6 DEF f

LEMMA BoundIs ==
  ASSUME NEW e, NEW m, Sound(e, m), e.awaited # None, e.awaited.name \in DOMAIN e.ws,
         NEW s \in Fresh(e), NEW g, g = ReserveLogicalOrder(Bound(e, e.awaited.name, s)),
         Shaped(g), g.obs = e.obs
  PROVE  /\ Sound(g, m) /\ Dated(g)
         /\ Distinct(e.ws) /\ Datable(e) => Distinct(g.ws)
         /\ Enrolled(e) => Enrolled(g)
<1> DEFINE n == e.awaited.name
<1>1. /\ g.awaited = None /\ g.pendingCreations = e.pendingCreations
      /\ g.ws = [e.ws EXCEPT ![n].backing = Normal(s)]
      /\ g.external = Without(e.external, {s}) /\ g.initialized = e.initialized
  BY DEF ReserveLogicalOrder, Bound, Sound, Shaped, Fields
<1> HIDE DEF n
<1>2. /\ DOMAIN g.ws = DOMAIN e.ws /\ n \in DOMAIN e.ws
      /\ g.ws[n].backing = Normal(s)
      /\ \A k \in DOMAIN e.ws : k # n => g.ws[k] = e.ws[k]
  BY <1>1 DEF Sound, Shaped, Registry, n
<1>3. s \in Ids(m) /\ s \in Ordinary(e) /\ s \notin e.awaited.before
  BY DEF Fresh, Sound, Ordinary, Ids
<1>4. Normal(s).restore = None /\ Normal(s).active = s
  BY DEF Normal
<1>5. Homed(g.ws, m)
  BY <1>2, <1>3, <1>4 DEF Homed, Sound
<1>6. Lined(g)
  <2>1. AwaitedName(g) = {} /\ Waiting(g) = ToSet(e.pendingCreations)
    BY <1>1 DEF AwaitedName, Waiting
  <2>2. n \notin ToSet(e.pendingCreations) /\ Once(e.pendingCreations)
    BY DEF Sound, Lined, AwaitedName, n
  <2> QED BY <1>1, <1>2, <2>1, <2>2 DEF Lined, Sound, Waiting
<1>7. Sound(g, m)
  <2>1. DOMAIN g.external \subseteq DOMAIN e.external
    BY <1>1 DEF Without
  <2> QED BY <1>5, <1>6, <2>1 DEF Sound, Observed
<1>8. ASSUME Distinct(e.ws), Datable(e) PROVE Distinct(g.ws)
  <2>1. s \notin Claimed(e.ws)
    BY <1>3, <1>8 DEF Datable
  <2>2. ASSUME NEW k \in DOMAIN e.ws PROVE s \notin {Active(e.ws[k]), Restore(e.ws[k])}
    <3>1. s # None
      BY <1>3, NoneIs
    <3> QED BY <2>1, <3>1 DEF Claimed, ActiveSpaces, RestoreSpaces
  <2>3. {Active(g.ws[n]), Restore(g.ws[n])} \subseteq {s, None}
    BY <1>2, <1>4 DEF Active, Restore
  <2> SUFFICES ASSUME NEW j \in DOMAIN g.ws, NEW k \in DOMAIN g.ws, j # k
               PROVE  ({Active(g.ws[j]), Restore(g.ws[j])}
                         \cap {Active(g.ws[k]), Restore(g.ws[k])}) \subseteq {None}
    BY DEF Distinct
  <2>4. CASE j = n
    BY <1>2, <2>2, <2>3, <2>4
  <2>5. CASE k = n
    BY <1>2, <2>2, <2>3, <2>5
  <2>6. CASE j # n /\ k # n
    BY <1>2, <1>8, <2>6 DEF Distinct
  <2> QED BY <2>4, <2>5, <2>6
<1>9. Enrolled(e) => Enrolled(g)
  BY <1>1, <1>2 DEF Enrolled
<1>10. Dated(g)
  BY <1>1 DEF Dated
<1> QED BY <1>7, <1>8, <1>9, <1>10

\* What binding keeps, and what it gives.
Serves(e, m, g) ==
  /\ Sound(g, m) /\ g.obs = e.obs
  /\ Distinct(e.ws) /\ Datable(e) => Distinct(g.ws)
  /\ Datable(e) => Dated(g)
  /\ Enrolled(e) => Enrolled(g)

LEMMA BindSound ==
  ASSUME NEW e, NEW late, NEW m, Sound(e, m)
  PROVE  Serves(e, m, BindAwaitedDynamicSpaces(e, late))
<1> DEFINE n == e.awaited.name
           g == BindAwaitedDynamicSpaces(e, late)
<1>1. Shaped(e) /\ IsSeq(e.obs.order)
  BY DEF Sound, Shaped
<1>2. Binds(e, late, g)
  BY <1>1, BindBinds
<1>3. Shaped(g) /\ g.obs = e.obs
  BY <1>1, BindKept DEF Kept
<1> HIDE DEF g
<1>4. ASSUME e.awaited = None, g = e PROVE Serves(e, m, g)
  BY <1>4 DEF Dated, Serves
<1>5. ASSUME Calmer(e, g), g.awaited = None, Enrolled(e) => Enrolled(g)
      PROVE  Serves(e, m, g)
  BY <1>3, <1>5, CalmerIs DEF Dated, Serves
<1>6. ASSUME e.awaited # None, g = Freed(e) PROVE Serves(e, m, g)
  <2>1. /\ g.awaited = None /\ g.pendingCreations = e.pendingCreations
        /\ g.ws = e.ws /\ g.external = e.external /\ g.initialized = e.initialized
    BY <1>1, <1>6 DEF Freed, Shaped, Fields
  <2>2. Calmer(e, g)
    BY <1>1, <1>3, <2>1 DEF Calmer, Fewer, Patient, Shaped, Registry
  <2>3. Enrolled(e) => Enrolled(g)
    BY <2>1 DEF Enrolled
  <2> QED BY <1>5, <2>1, <2>2, <2>3
<1>7. ASSUME e.awaited # None, g = RemoveWorkspaces(Freed(e), {n}) PROVE Serves(e, m, g)
  <2>1. /\ g.awaited = None /\ g.pendingCreations = e.pendingCreations
        /\ g.ws = Without(e.ws, {n}) /\ g.external = e.external
        /\ g.initialized = e.initialized
    BY <1>1, <1>7 DEF Freed, RemoveWorkspaces, Shaped, Fields
  <2>2. Calmer(e, g)
    BY <1>1, <1>3, <2>1 DEF Calmer, Fewer, Patient, Shaped, Registry, Without
  <2>3. n \notin ToSet(e.pendingCreations)
    BY <1>7 DEF Sound, Lined, AwaitedName
  <2>4. Enrolled(e) => Enrolled(g)
    BY <2>1, <2>3 DEF Enrolled, Without
  <2> QED BY <1>5, <2>1, <2>2, <2>4
<1>8. ASSUME e.awaited # None, Fresh(e) = {}, g = Unsure(e, late) PROVE Serves(e, m, g)
  <2>1. /\ g.pendingCreations = e.pendingCreations
        /\ g.ws = e.ws /\ g.external = e.external /\ g.initialized = e.initialized
        /\ g.awaited = [e.awaited EXCEPT !.uncertain = @ \/ "creation" \in late]
    BY <1>1, <1>8 DEF Unsure, Shaped, Fields
  <2>2. g.awaited.name = e.awaited.name /\ g.awaited.before = e.awaited.before
    BY <2>1
  <2>3. Calmer(e, g)
    BY <1>1, <1>3, <1>8, <2>1, <2>2 DEF Calmer, Fewer, Patient, Shaped, Registry
  <2>4. Enrolled(e) => Enrolled(g)
    BY <2>1 DEF Enrolled
  <2>5. ASSUME Datable(e) PROVE Dated(g)
    <3>1. Ordinary(e) \subseteq ActiveSpaces(e.ws) \cup e.awaited.before
      BY <1>8 DEF Fresh
    <3>2. Ordinary(e) \subseteq e.awaited.before
      BY <1>8, <2>5, <3>1 DEF Datable, Claimed
    <3> QED BY <1>3, <2>2, <3>2 DEF Dated, Ordinary, Observed
  <2>6. Sound(g, m) /\ (Distinct(e.ws) => Distinct(g.ws))
    BY <2>3, CalmerIs
  <2> QED BY <1>3, <2>4, <2>5, <2>6 DEF Serves
<1>9. ASSUME e.awaited # None, n \in DOMAIN e.ws,
             NEW s \in Fresh(e), g = ReserveLogicalOrder(Bound(e, n, s))
      PROVE  Serves(e, m, g)
  BY <1>3, <1>9, BoundIs DEF Serves
<1>10. Serves(e, m, g)
  BY <1>2, <1>4, <1>6, <1>7, <1>8, <1>9 DEF Binds
<1> QED BY <1>10 DEF g

-----------------------------------------------------------------------------
\* Adopted Spaces: each is one that nobody claims, and gets a new name.
Adopts(e, g) ==
  /\ g.awaited = e.awaited /\ g.pendingCreations = e.pendingCreations
  /\ DOMAIN g.external \subseteq DOMAIN e.external /\ DOMAIN e.ws \subseteq DOMAIN g.ws
  /\ \A n \in DOMAIN e.ws : g.ws[n] = e.ws[n]
  /\ \A n \in DOMAIN g.ws \ DOMAIN e.ws :
       \E s \in DOMAIN e.external : g.ws[n].backing = Normal(s)
  /\ \A k, n \in DOMAIN g.ws \ DOMAIN e.ws :
       g.ws[k].backing.active = g.ws[n].backing.active => k = n

LEMMA AdoptAdopts ==
  ASSUME NEW e, Shaped(e), Once(e.obs.order)
  PROVE  Adopts(e, AdoptSpaces(e))
<1> DEFINE order == e.obs.order
           used(s) == s \in DOMAIN e.external /\ (s = e.obs.focus \/ s \in Occupied(e))
           J == {i \in DOMAIN order : used(order[i])}
           adopt == Chosen(order, J)
           last == IF DOMAIN e.ws = {} THEN 0 ELSE Max(DOMAIN e.ws)
           fit == {i \in DOMAIN adopt : last + i <= MaxName}
           born == [n \in {last + i : i \in fit} |->
                      [NewState(FALSE, TRUE) EXCEPT !.backing = Normal(adopt[n - last])]]
           g == AdoptSpaces(e)
<1>1. /\ g.awaited = e.awaited /\ g.pendingCreations = e.pendingCreations
      /\ g.ws = Over(born, e.ws) /\ g.external = Without(e.external, {adopt[i] : i \in fit})
  BY DEF AdoptSpaces, Shaped, Fields
<1>2. /\ DOMAIN adopt = 1 .. Cardinality(J) /\ Cardinality(J) \in Nat
      /\ \A k \in DOMAIN adopt : \E i \in J : adopt[k] = order[i] /\ Rank(J, i) = k
  <2>1. J \subseteq DOMAIN order /\ IsSeq(order)
    BY DEF Shaped
  <2> HIDE DEF J, order
  <2>2. /\ IsSeq(adopt) /\ Len(adopt) = Cardinality(J) /\ Cardinality(J) \in Nat
        /\ \A k \in 1 .. Cardinality(J) : \E i \in J : adopt[k] = order[i] /\ Rank(J, i) = k
    BY <2>1, ChosenIs
  <2> HIDE DEF adopt
  <2>3. DOMAIN adopt = 1 .. Len(adopt)
    BY <2>2, SeqIs
  <2> QED BY <2>2, <2>3
<1> HIDE DEF adopt
<1>3. ASSUME NEW k \in DOMAIN adopt PROVE adopt[k] \in DOMAIN e.external
  BY <1>2
<1>4. ASSUME NEW k \in DOMAIN adopt, NEW l \in DOMAIN adopt, adopt[k] = adopt[l] PROVE k = l
  <2>1. PICK i \in J : adopt[k] = order[i] /\ Rank(J, i) = k
    BY <1>2
  <2>2. PICK j \in J : adopt[l] = order[j] /\ Rank(J, j) = l
    BY <1>2
  <2>3. i \in DOMAIN order /\ j \in DOMAIN order
    OBVIOUS
  <2>4. i = j
    BY <1>4, <2>1, <2>2, <2>3 DEF Once
  <2> QED BY <2>1, <2>2, <2>4
<1>5. last \in Nat /\ \A n \in DOMAIN e.ws : n \in Nat /\ n <= last
  <2>1. DOMAIN e.ws \in SUBSET Nat /\ IsFiniteSet(DOMAIN e.ws)
    BY NamesIs DEF Shaped, Registry
  <2>2. CASE DOMAIN e.ws = {}
    BY <2>2
  <2>3. CASE DOMAIN e.ws # {}
    <3>1. last = Max(DOMAIN e.ws)
      BY <2>3
    <3>2. Max(DOMAIN e.ws) \in DOMAIN e.ws /\ \A y \in DOMAIN e.ws : y <= Max(DOMAIN e.ws)
      BY <2>1, <2>3, MinMaxIs
    <3> HIDE DEF last
    <3> QED BY <2>1, <3>1, <3>2
  <2> QED BY <2>2, <2>3
<1> HIDE DEF last, J, g
<1>6. \A i \in fit : i \in DOMAIN adopt /\ i \in Nat /\ i # 0 /\ (last + i) - last = i
  BY <1>2, <1>5
<1>7. /\ DOMAIN born = {last + i : i \in fit}
      /\ \A n \in DOMAIN born : /\ n - last \in fit /\ n \notin DOMAIN e.ws
                                /\ born[n].backing = Normal(adopt[n - last])
  <2>1. DOMAIN born = {last + i : i \in fit}
    OBVIOUS
  <2> HIDE DEF fit
  <2>2. ASSUME NEW n \in DOMAIN born
        PROVE  /\ n - last \in fit /\ n \notin DOMAIN e.ws
    <3>1. PICK i \in fit : n = last + i
      BY <2>1
    <3>2. i \in Nat /\ i # 0 /\ n - last = i
      BY <1>6, <3>1
    <3> QED BY <1>5, <3>1, <3>2
  <2>3. ASSUME NEW n \in DOMAIN born PROVE born[n].backing = Normal(adopt[n - last])
    BY <2>3 DEF NewState
  <2> QED BY <2>1, <2>2, <2>3
<1> HIDE DEF born
<1>8. /\ DOMAIN g.ws = DOMAIN born \cup DOMAIN e.ws
      /\ \A n \in DOMAIN e.ws : g.ws[n] = e.ws[n]
      /\ \A n \in DOMAIN born : g.ws[n] = born[n]
  BY <1>1, <1>7 DEF Over
<1>9. ASSUME NEW n \in DOMAIN g.ws \ DOMAIN e.ws
      PROVE  /\ n - last \in DOMAIN adopt /\ n \in DOMAIN born
             /\ g.ws[n].backing = Normal(adopt[n - last])
  BY <1>7, <1>8
<1>10. ASSUME NEW k \in DOMAIN g.ws \ DOMAIN e.ws, NEW n \in DOMAIN g.ws \ DOMAIN e.ws,
              g.ws[k].backing.active = g.ws[n].backing.active
       PROVE  k = n
  <2>0. \A x : Normal(x).active = x
    BY DEF Normal
  <2>1. adopt[k - last] = adopt[n - last]
    BY <1>9, <1>10, <2>0
  <2>2. k - last = n - last
    BY <1>4, <1>9, <2>1
  <2>3. k \in Nat /\ n \in Nat
    <3>1. \A i \in fit : last + i \in Nat
      BY <1>5, <1>6
    <3> HIDE DEF fit
    <3> QED BY <1>7, <1>9, <3>1
  <2> QED BY <1>5, <2>2, <2>3
<1>11. DOMAIN g.external \subseteq DOMAIN e.external
  BY <1>1 DEF Without
<1>12. ASSUME NEW n \in DOMAIN g.ws \ DOMAIN e.ws
       PROVE  \E s \in DOMAIN e.external : g.ws[n].backing = Normal(s)
  BY <1>3, <1>9
<1>13. Adopts(e, g)
  BY <1>1, <1>8, <1>10, <1>11, <1>12 DEF Adopts
<1> QED BY <1>13 DEF g

LEMMA AdoptSound ==
  ASSUME NEW e, NEW m, Sound(e, m), e.awaited = None,
         ToSet(e.pendingCreations) \subseteq DOMAIN e.ws,
         DOMAIN e.external \cap Claimed(e.ws) = {},
         NEW g, Adopts(e, g), Shaped(g), g.obs = e.obs
  PROVE  Sound(g, m) /\ (Distinct(e.ws) => Distinct(g.ws))
<1> DEFINE new == DOMAIN g.ws \ DOMAIN e.ws
<1>1. /\ g.awaited = None /\ g.pendingCreations = e.pendingCreations
      /\ DOMAIN g.external \subseteq DOMAIN e.external /\ DOMAIN e.ws \subseteq DOMAIN g.ws
      /\ \A n \in DOMAIN e.ws : g.ws[n] = e.ws[n]
      /\ \A n \in new : \E s \in DOMAIN e.external : g.ws[n].backing = Normal(s)
      /\ \A k, n \in new : g.ws[k].backing.active = g.ws[n].backing.active => k = n
  BY DEF Adopts
<1>2. DOMAIN e.external \subseteq Ids(m)
  BY DEF Sound
<1>3. \A s : Normal(s).active = s /\ Normal(s).restore = None
  BY DEF Normal
<1>4. ASSUME NEW n \in new
      PROVE  /\ g.ws[n].backing.restore = None
             /\ g.ws[n].backing.active \in DOMAIN e.external
             /\ {Active(g.ws[n]), Restore(g.ws[n])} \subseteq {g.ws[n].backing.active, None}
  BY <1>1, <1>3 DEF Active, Restore
<1>5. \A n \in DOMAIN g.ws : n \in DOMAIN e.ws \/ n \in new
  OBVIOUS
<1>6. Homed(g.ws, m)
  BY <1>1, <1>2, <1>4, <1>5 DEF Homed, Sound
<1>7. Lined(g)
  <2>1. Waiting(g) = ToSet(e.pendingCreations) /\ AwaitedName(g) = {}
    BY <1>1 DEF Waiting, AwaitedName
  <2>2. \A n \in ToSet(e.pendingCreations) : n \in DOMAIN e.ws /\ e.ws[n].backing = None
    BY DEF Sound, Lined, Waiting
  <2> QED BY <1>1, <2>1, <2>2 DEF Lined, Sound
<1>8. Sound(g, m)
  BY <1>1, <1>6, <1>7 DEF Sound, Observed
<1>9. ASSUME Distinct(e.ws) PROVE Distinct(g.ws)
  <2>1. ASSUME NEW k \in DOMAIN e.ws, NEW n \in new
        PROVE  ({Active(g.ws[k]), Restore(g.ws[k])}
                  \cap {Active(g.ws[n]), Restore(g.ws[n])}) \subseteq {None}
    <3>1. \A x \in {Active(e.ws[k]), Restore(e.ws[k])} : x = None \/ x \in Claimed(e.ws)
      BY DEF Claimed, ActiveSpaces, RestoreSpaces
    <3>2. g.ws[n].backing.active \notin Claimed(e.ws)
      BY <1>4
    <3>3. g.ws[k] = e.ws[k]
      BY <1>1
    <3> QED BY <1>4, <3>1, <3>2, <3>3
  <2>2. ASSUME NEW k \in new, NEW n \in new, k # n
        PROVE  ({Active(g.ws[k]), Restore(g.ws[k])}
                  \cap {Active(g.ws[n]), Restore(g.ws[n])}) \subseteq {None}
    <3>1. g.ws[k].backing.active # g.ws[n].backing.active
      BY <1>1, <2>2
    <3> QED BY <1>4, <3>1
  <2> SUFFICES ASSUME NEW k \in DOMAIN g.ws, NEW n \in DOMAIN g.ws, k # n
               PROVE  ({Active(g.ws[k]), Restore(g.ws[k])}
                         \cap {Active(g.ws[n]), Restore(g.ws[n])}) \subseteq {None}
    BY DEF Distinct
  <2>3. CASE k \in DOMAIN e.ws /\ n \in DOMAIN e.ws
    BY <1>1, <1>9, <2>3 DEF Distinct
  <2>4. CASE k \in DOMAIN e.ws /\ n \in new
    BY <2>1, <2>4
  <2>5. CASE n \in DOMAIN e.ws /\ k \in new
    <3>1. ({Active(g.ws[n]), Restore(g.ws[n])}
             \cap {Active(g.ws[k]), Restore(g.ws[k])}) \subseteq {None}
      BY <2>1, <2>5
    <3> QED BY <3>1
  <2>6. CASE k \in new /\ n \in new
    BY <2>2, <2>6
  <2> QED BY <1>5, <2>3, <2>4, <2>5, <2>6
<1> QED BY <1>8, <1>9

LEMMA ExternalSound ==
  ASSUME NEW e, NEW m, Sound(e, m), Enrolled(e)
  PROVE  LET g == ObserveExternalSpaces(e)
         IN  /\ Sound(g, m) /\ g.obs = e.obs
             /\ Distinct(e.ws) => Distinct(g.ws)
             /\ Dated(e) => Dated(g)
<1> DEFINE first == [e EXCEPT !.external = Without(@, DOMAIN @ \ (Observed(e) \ Claimed(e.ws)))]
           begun == [first EXCEPT !.initialized = TRUE]
           second == GraceUnclaimed(first)
           g == ObserveExternalSpaces(e)
           done(f) == /\ Sound(f, m) /\ f.obs = e.obs /\ f.awaited = e.awaited
                      /\ (Distinct(e.ws) => Distinct(f.ws))
<1>1. Shaped(e)
  BY DEF Sound
<1>2. \/ g = begun
      \/ g = second
      \/ e.initialized /\ e.awaited = None /\ g = AdoptSpaces(second)
  BY Zenon DEF ObserveExternalSpaces
<1>3. /\ first.ws = e.ws /\ first.awaited = e.awaited /\ first.obs = e.obs
      /\ first.pendingCreations = e.pendingCreations /\ Shaped(first)
      /\ first.external = Without(e.external, DOMAIN e.external \ (Observed(e) \ Claimed(e.ws)))
      /\ begun.ws = e.ws /\ begun.awaited = e.awaited /\ begun.obs = e.obs
      /\ begun.pendingCreations = e.pendingCreations /\ Shaped(begun)
      /\ begun.external = first.external
  BY <1>1 DEF Shaped, Named, Fields
<1> HIDE DEF first, begun, g
<1>4. /\ DOMAIN first.external \subseteq DOMAIN e.external
      /\ DOMAIN first.external \cap Claimed(e.ws) = {}
  BY <1>3 DEF Without
<1>5. Calmer(e, first) /\ Calmer(e, begun)
  BY <1>3, <1>4 DEF Calmer, Fewer, Patient, Shaped, Registry
<1>6. /\ second.ws = first.ws /\ second.awaited = first.awaited
      /\ second.pendingCreations = first.pendingCreations /\ second.obs = first.obs
      /\ DOMAIN second.external = DOMAIN first.external \cup
           (Ordinary(first) \ (Claimed(first.ws) \cup DOMAIN first.external))
      /\ Shaped(second)
  BY <1>3 DEF GraceUnclaimed, Over, Shaped, Named, Fields
<1>7. Calmer(e, second)
  BY <1>3, <1>5, GraceCalmer, CalmerTwice
<1> HIDE DEF second
<1>8. done(begun) /\ done(second)
  BY <1>3, <1>5, <1>6, <1>7, CalmerIs
<1>9. ASSUME e.initialized, e.awaited = None, g = AdoptSpaces(second) PROVE done(g)
  <2>1. Shaped(g) /\ g.obs = second.obs
    BY <1>6, <1>9, AdoptSame DEF Same, Shaped
  <2>2. Adopts(second, g)
    BY <1>6, <1>8, <1>9, AdoptAdopts DEF Sound
  <2>3. ToSet(second.pendingCreations) \subseteq DOMAIN second.ws
    BY <1>3, <1>6, <1>9 DEF Enrolled
  <2>4. DOMAIN second.external \cap Claimed(second.ws) = {}
    BY <1>3, <1>4, <1>6
  <2>5. Sound(g, m) /\ (Distinct(second.ws) => Distinct(g.ws))
    BY <1>3, <1>6, <1>8, <1>9, <2>1, <2>2, <2>3, <2>4, AdoptSound
  <2>6. g.awaited = e.awaited
    BY <1>3, <1>6, <2>2 DEF Adopts
  <2> QED BY <1>3, <1>6, <2>1, <2>5, <2>6
<1>10. done(g)
  BY <1>2, <1>8, <1>9
<1>11. Dated(e) => Dated(g)
  BY <1>10 DEF Dated, Ordinary, Observed
<1> QED BY <1>10, <1>11 DEF g

-----------------------------------------------------------------------------
\* A remap: who holds a fullscreen Space keeps it; the others sit on ordinary
\* Spaces that are nobody's to return to, each on its own.
Reseats(ws, order, spaces, new) ==
  /\ DOMAIN new = DOMAIN ws
  /\ \A n \in DOMAIN ws : IsFullscreen(ws[n]) => new[n] = ws[n]
  /\ \A n \in DOMAIN ws : ~IsFullscreen(ws[n]) =>
       \/ new[n].backing = None
       \/ \E s \in (ToSet(order) \cap spaces) \ RestoreSpaces(ws) : new[n].backing = Normal(s)
  /\ \A k, n \in DOMAIN ws :
       /\ ~IsFullscreen(ws[k]) /\ ~IsFullscreen(ws[n])
       /\ new[k].backing # None /\ new[n].backing # None
       /\ new[k].backing.active = new[n].backing.active
       => k = n

LEMMA RemapReseats ==
  ASSUME NEW ws, Registry(ws), NEW order, IsSeq(order), Once(order), NEW spaces
  PROVE  Reseats(ws, order, spaces, RemapAfterSnapshot(ws, order, spaces))
<1> DEFINE new == RemapAfterSnapshot(ws, order, spaces)
           moving == {n \in DOMAIN ws : ~IsFullscreen(ws[n])}
           slots == {i \in DOMAIN order : order[i] \in spaces \ RestoreSpaces(ws)}
           seat(n) == {i \in slots : Rank(slots, i) = Rank(moving, n)}
           taken(n) == CHOOSE i \in seat(n) : TRUE
<1>1. DOMAIN new = DOMAIN ws
  BY DEF RemapAfterSnapshot, Seated
<1>2. ASSUME NEW n \in DOMAIN ws
      PROVE  new[n] = IF n \notin moving THEN ws[n]
                      ELSE [ws[n] EXCEPT !.backing =
                              IF seat(n) = {} THEN None ELSE Normal(order[taken(n)])]
  BY DEF RemapAfterSnapshot, Seated
<1> HIDE DEF new
<1>3. ASSUME NEW n \in DOMAIN ws, n \in moving, new[n].backing # None
      PROVE  \E i \in slots : /\ Rank(slots, i) = Rank(moving, n)
                              /\ new[n].backing = Normal(order[i])
  <2> HIDE DEF seat, moving
  <2>1. new[n].backing = IF seat(n) = {} THEN None ELSE Normal(order[taken(n)])
    BY <1>2, <1>3 DEF Registry
  <2>2. seat(n) # {} /\ new[n].backing = Normal(order[taken(n)])
    BY <1>3, <2>1
  <2>3. taken(n) \in seat(n)
    BY <2>2
  <2> QED BY <2>2, <2>3 DEF seat
<1>4. moving \in SUBSET Nat /\ IsFiniteSet(moving)
  <2>1. moving \subseteq Names
    BY DEF Registry
  <2> HIDE DEF moving
  <2> QED BY <2>1, NamesIs
<1>5. \A i \in slots : order[i] \in (ToSet(order) \cap spaces) \ RestoreSpaces(ws)
  BY DEF ToSet
<1>6. \A s : Normal(s).active = s
  BY DEF Normal
<1>7. ASSUME NEW k \in DOMAIN ws, NEW n \in DOMAIN ws, k \in moving, n \in moving,
             new[k].backing # None, new[n].backing # None,
             new[k].backing.active = new[n].backing.active
      PROVE  k = n
  <2>1. PICK i \in slots : Rank(slots, i) = Rank(moving, k) /\ new[k].backing = Normal(order[i])
    BY <1>3, <1>7
  <2>2. PICK j \in slots : Rank(slots, j) = Rank(moving, n) /\ new[n].backing = Normal(order[j])
    BY <1>3, <1>7
  <2>3. order[i] = order[j] /\ i \in DOMAIN order /\ j \in DOMAIN order
    BY <1>6, <1>7, <2>1, <2>2
  <2>4. i = j
    BY <2>3 DEF Once
  <2> HIDE DEF moving, slots
  <2>5. Rank(moving, k) = Rank(moving, n)
    BY <2>1, <2>2, <2>4
  <2> QED BY <1>4, <1>7, <2>5, RankIs
<1>8. \A n \in DOMAIN ws : n \in moving <=> ~IsFullscreen(ws[n])
  OBVIOUS
<1> HIDE DEF moving, slots
<1>9. \A n \in DOMAIN ws : n \notin moving => new[n] = ws[n]
  BY <1>2
<1>10. Reseats(ws, order, spaces, new)
  BY <1>1, <1>3, <1>5, <1>7, <1>8, <1>9 DEF Reseats
<1> QED BY <1>10 DEF new

LEMMA RemapSound ==
  ASSUME NEW e, NEW m, Sound(e, m)
  PROVE  LET g == RemapSlots(e)
         IN  /\ Sound(g, m) /\ g.obs = e.obs /\ g.placement = e.placement
             /\ Distinct(e.ws) => Distinct(g.ws)
             /\ Dated(e) => Dated(g)
             /\ Claimed(g.ws) \subseteq Claimed(e.ws) \cup Ordinary(e)
             /\ g.placement = None => InOrder(g, {})
             /\ DOMAIN g.ws = DOMAIN e.ws
<1> DEFINE old == Without(e.ws, Waiting(e))
           spaces == Ordinary(e) \ DOMAIN e.external
           new == RemapAfterSnapshot(old, e.obs.order, spaces)
           g == RemapSlots(e)
<1>1. Shaped(e) /\ Once(e.obs.order) /\ IsSeq(e.obs.order) /\ Registry(e.ws)
  BY DEF Sound, Shaped
<1>2. /\ Registry(old) /\ DOMAIN old = DOMAIN e.ws \ Waiting(e)
      /\ \A n \in DOMAIN old : old[n] = e.ws[n]
  BY <1>1, RegistryIs DEF Without
<1>3. \/ g = e
      \/ e.placement = None /\ g = [e EXCEPT !.ws = Over(new, e.ws)]
  BY DEF RemapSlots
<1>4. Shaped(g) /\ g.obs = e.obs
  BY <1>1, RemapKept DEF Kept
<1>5. /\ g.awaited = e.awaited /\ g.pendingCreations = e.pendingCreations
      /\ g.placement = e.placement /\ g.external = e.external
  BY <1>1, <1>3 DEF Shaped, Fields
<1> HIDE DEF old
<1>6. Reseats(old, e.obs.order, spaces, new)
  BY <1>1, <1>2, RemapReseats
<1>7. \A n \in Waiting(e) \cap DOMAIN e.ws : e.ws[n].backing = None
  BY DEF Sound, Lined
<1>8. g.placement = None => InOrder(g, {})
  <2>1. \A n \in (DOMAIN e.ws \cap Waiting(e)) \ {} : e.ws[n].backing = None
    BY <1>7
  <2> QED BY <1>1, <1>5, <2>1, RemapInOrder
<1> HIDE DEF new, g
<1>9. spaces \subseteq Ids(m) /\ spaces \subseteq Ordinary(e) /\ spaces \cap FsSpaces = {}
  BY DEF Sound, Ordinary, Ids
<1>10. ASSUME g # e
       PROVE  /\ DOMAIN g.ws = DOMAIN e.ws
              /\ \A n \in DOMAIN e.ws \ Waiting(e) : g.ws[n] = new[n]
              /\ \A n \in DOMAIN e.ws \cap Waiting(e) : g.ws[n].backing = None
  <2>1. g.ws = Over(new, e.ws)
    BY <1>1, <1>3, <1>10 DEF Shaped, Fields
  <2>2. DOMAIN new = DOMAIN e.ws \ Waiting(e)
    BY <1>2, <1>6 DEF Reseats
  <2> QED BY <1>7, <2>1, <2>2 DEF Over
<1> DEFINE same(n) == n \in DOMAIN old /\ IsFullscreen(e.ws[n]) /\ g.ws[n] = e.ws[n]
           free(n) == g.ws[n].backing = None
           sits(n) == /\ n \in DOMAIN old /\ ~IsFullscreen(e.ws[n])
                      /\ \E s \in spaces \ RestoreSpaces(old) : g.ws[n].backing = Normal(s)
<1>11. ASSUME g # e, NEW n \in DOMAIN e.ws PROVE same(n) \/ free(n) \/ sits(n)
  <2>1. CASE n \in Waiting(e)
    BY <1>10, <1>11, <2>1
  <2>2. CASE n \notin Waiting(e)
    <3>1. n \in DOMAIN old /\ g.ws[n] = new[n] /\ old[n] = e.ws[n]
      BY <1>2, <1>10, <1>11, <2>2
    <3>2. CASE IsFullscreen(old[n])
      BY <1>6, <3>1, <3>2 DEF Reseats
    <3>3. CASE ~IsFullscreen(old[n])
      BY <1>6, <3>1, <3>3 DEF Reseats
    <3> QED BY <3>2, <3>3
  <2> QED BY <2>1, <2>2
<1>12. \A s : Normal(s).active = s /\ Normal(s).restore = None
  BY DEF Normal
<1>13. ASSUME NEW n, sits(n)
       PROVE  \E s \in spaces \ RestoreSpaces(old) :
                /\ g.ws[n].backing.active = s /\ g.ws[n].backing.restore = None
                /\ {Active(g.ws[n]), Restore(g.ws[n])} \subseteq {s, None}
  BY <1>12, <1>13 DEF Active, Restore
<1>14. ASSUME NEW n, free(n) PROVE Active(g.ws[n]) = None /\ Restore(g.ws[n]) = None
  BY <1>14 DEF Active, Restore
<1> HIDE DEF sits
<1>15. ASSUME g # e PROVE Homed(g.ws, m)
  <2>1. \A n \in DOMAIN e.ws :
          \/ e.ws[n].backing = None
          \/ e.ws[n].backing.restore = None /\ e.ws[n].backing.active \in Ids(m)
          \/ e.ws[n].backing.restore \in Ids(m) /\ e.ws[n].backing.active \in FsSpaces
    BY DEF Sound, Homed
  <2> QED BY <1>9, <1>10, <1>11, <1>13, <1>15, <2>1 DEF Homed
<1>16. ASSUME g # e PROVE Lined(g)
  <2>1. Waiting(g) = Waiting(e) /\ AwaitedName(g) = AwaitedName(e)
    BY <1>5 DEF Waiting, AwaitedName
  <2> QED BY <1>5, <1>10, <1>16, <2>1 DEF Lined, Sound
<1>17. Sound(g, m)
  BY <1>4, <1>5, <1>15, <1>16 DEF Sound, Observed
<1>18. ASSUME g # e PROVE Claimed(g.ws) \subseteq Claimed(e.ws) \cup Ordinary(e)
  <2> SUFFICES ASSUME NEW n \in DOMAIN e.ws, NEW x \in {Active(g.ws[n]), Restore(g.ws[n])}, x # None
               PROVE  x \in Claimed(e.ws) \cup Ordinary(e)
    BY <1>10, <1>18 DEF Claimed, ActiveSpaces, RestoreSpaces
  <2>1. CASE same(n)
    BY <2>1 DEF Claimed, ActiveSpaces, RestoreSpaces
  <2>2. CASE free(n)
    BY <1>14, <2>2
  <2>3. CASE sits(n)
    BY <1>9, <1>13, <2>3
  <2> QED BY <1>11, <1>18, <2>1, <2>2, <2>3
<1>19. ASSUME g # e, Distinct(e.ws) PROVE Distinct(g.ws)
  <2> DEFINE has(n) == {Active(g.ws[n]), Restore(g.ws[n])}
  <2>1. ASSUME NEW k \in DOMAIN e.ws, NEW n \in DOMAIN e.ws, same(k), sits(n)
        PROVE  has(k) \cap has(n) \subseteq {None}
    <3>1. PICK s \in spaces \ RestoreSpaces(old) : has(n) \subseteq {s, None}
      BY <1>13, <2>1
    <3>2. s # Restore(e.ws[k])
      <4>1. old[k] = e.ws[k] /\ k \in DOMAIN old
        BY <1>2, <2>1
      <4>2. Restore(old[k]) \in RestoreSpaces(old) \cup {None}
        BY <4>1 DEF RestoreSpaces
      <4>3. s # None
        BY <1>9, <3>1, NoneIs
      <4> QED BY <3>1, <4>1, <4>2, <4>3
    <3>3. Active(e.ws[k]) \in FsSpaces
      BY <2>1, NoneIs DEF Sound, Homed, IsFullscreen, Active
    <3> QED BY <1>9, <2>1, <3>1, <3>2, <3>3
  <2>2. ASSUME NEW k \in DOMAIN e.ws, NEW n \in DOMAIN e.ws, sits(k), sits(n), k # n,
               ~free(k), ~free(n)
        PROVE  has(k) \cap has(n) \subseteq {None}
    <3>1. PICK s \in spaces : g.ws[k].backing.active = s /\ has(k) \subseteq {s, None}
      BY <1>13, <2>2
    <3>2. PICK t \in spaces : g.ws[n].backing.active = t /\ has(n) \subseteq {t, None}
      BY <1>13, <2>2
    <3>3. /\ k \in DOMAIN old /\ n \in DOMAIN old /\ g.ws[k] = new[k] /\ g.ws[n] = new[n]
          /\ ~IsFullscreen(old[k]) /\ ~IsFullscreen(old[n])
      BY <1>2, <1>10, <1>19, <2>2 DEF sits
    <3>4. s # t
      BY <1>6, <2>2, <3>1, <3>2, <3>3 DEF Reseats
    <3> QED BY <3>1, <3>2, <3>4
  <2> SUFFICES ASSUME NEW k \in DOMAIN e.ws, NEW n \in DOMAIN e.ws, k # n
               PROVE  has(k) \cap has(n) \subseteq {None}
    BY <1>10, <1>19 DEF Distinct
  <2>3. CASE free(k) \/ free(n)
    BY <1>14, <2>3
  <2>4. CASE same(k) /\ same(n)
    BY <1>19, <2>4 DEF Distinct
  <2>5. CASE same(k) /\ sits(n)
    BY <2>1, <2>5
  <2>6. CASE sits(k) /\ same(n)
    <3>1. has(n) \cap has(k) \subseteq {None}
      BY <2>1, <2>6
    <3> QED BY <3>1
  <2>7. CASE sits(k) /\ sits(n) /\ ~free(k) /\ ~free(n)
    BY <2>2, <2>7
  <2> QED BY <1>11, <1>19, <2>3, <2>4, <2>5, <2>6, <2>7
<1>20. Dated(e) => Dated(g)
  BY <1>4, <1>5 DEF Dated, Ordinary, Observed
<1>21. DOMAIN g.ws = DOMAIN e.ws
  BY <1>10
<1> QED BY <1>4, <1>5, <1>8, <1>17, <1>18, <1>19, <1>20, <1>21 DEF g

-----------------------------------------------------------------------------
\* A Space of the new observation that a workspace holds is not new to the
\* creation awaited.
DatableOn(e, seen) ==
  e.awaited # None => Claimed(e.ws) \cap (ToSet(seen.order) \ FsSpaces) \subseteq e.awaited.before

SinglyOn(was, seen) ==
  \A u, v \in Windows :
    u # v /\ seen.at[u] = seen.at[v] /\ seen.at[u] \in FsSpaces =>
      was[u] = seen.at[u] \/ was[v] = seen.at[v]

LEMMA CalmerDated == ASSUME NEW e, NEW g, Dated(e), Calmer(e, g) PROVE Dated(g)
  BY DEF Dated, Calmer, Fewer, Patient, Ordinary, Observed

\* One observation, step by step.
LEMMA SnapshotSound ==
  ASSUME NEW e, NEW seen, NEW capable, NEW c \in Configs, NEW late, NEW m, Seen(e, seen, m),
         Clear(e)
  PROVE  LET f == ApplySnapshot(e, seen, capable, c, late)
         IN  /\ Sound(f, m)
             /\ f.placement = None => InOrder(f, {})
             /\ Distinct(e.ws) /\ SinglyOn(e.obs.at, seen) /\ DatableOn(e, seen)
                  => Distinct(f.ws) /\ Dated(f)
<1> DEFINE reset == IsReset(e, seen)
           was == e.obs.at
           e1 == Started(e, seen, capable, c, late)
           a1 == ReconcileFullscreen(e1, was)
           e2 == NoteWindowSpaces(a1)
           a2 == ConfirmDestroys(e2)
           e3 == RetireVanished(a2, reset)
           a3 == BindAwaitedDynamicSpaces(e3, late)
           e4 == ObserveExternalSpaces(a3)
           e5 == ReconcilePlacement(e4, late)
           e6 == RemapSlots(e5)
           a6 == GraceUnclaimed(e6)
           e7 == DestroyEmptyDynamicWorkspaces(a6, Moved(e5.ws, e6.ws))
           a7 == FulfillPendingWorkspaceActions(e7)
           b7 == FulfillPendingNewSpaceMoves(a7, late)
           e8 == RequestMissing(b7)
           e9 == TryStartNextPendingCreation(e8)
           P == Distinct(e.ws) /\ SinglyOn(e.obs.at, seen) /\ DatableOn(e, seen)
           Early(f) == Sound(f, m) /\ f.obs = seen /\ (P => Distinct(f.ws) /\ Datable(f))
           Late(f) == Sound(f, m) /\ f.obs = seen /\ (P => Distinct(f.ws) /\ Dated(f))
           Done(f) == Late(f) /\ (f.placement = None => InOrder(f, {}))
<1>1. Plain(e1) /\ Early(e1) /\ Clear(e1)
  <2>1. Plain(e1)
    BY StartPlain DEF Seen
  <2>2. /\ Sound(e1, m) /\ e1.obs = seen /\ Claimed(e1.ws) \subseteq Claimed(e.ws)
        /\ Distinct(e.ws) => Distinct(e1.ws)
        /\ Clear(e1)
        /\ e1.awaited \in {None, e.awaited}
    <3>1. Starts(e, seen, m, e1)
      BY StartSound
    <3> HIDE DEF e1
    <3> QED BY <3>1 DEF Starts
  <2> HIDE DEF e1
  <2>3. DatableOn(e, seen) => Datable(e1)
    BY <2>2 DEF DatableOn, Datable, Ordinary, Observed
  <2> QED BY <2>1, <2>2, <2>3
<1>2. ApplySnapshot(e, seen, capable, c, late) = Heal(e9)
  BY DEF ApplySnapshot, Started
<1> HIDE DEF e1
<1>3. ASSUME NEW f, Plain(f) PROVE Shaped(f)
  BY <1>3 DEF Plain
<1>4. ASSUME NEW f, NEW g, Early(f), Calmer(f, g) PROVE Early(g)
  <2>1. /\ Sound(g, m) /\ Claimed(g.ws) \subseteq Claimed(f.ws)
        /\ Distinct(f.ws) => Distinct(g.ws)
    BY <1>4, CalmerIs
  <2>2. /\ g.obs = f.obs
        /\ g.awaited # None => f.awaited # None /\ g.awaited.before = f.awaited.before
    BY <1>4 DEF Calmer, Fewer, Patient
  <2>3. Datable(f) => Datable(g)
    BY <2>1, <2>2, DatableKept
  <2> QED BY <1>4, <2>1, <2>2, <2>3
<1>5. Plain(a1) /\ Early(a1) /\ Clear(a1)
  <2>1. Plain(a1)
    BY <1>1, <1>3, FullscreenKept, KeptPlain
  <2>2. SinglyOn(e.obs.at, seen) => Singly(e1, was)
    BY <1>1 DEF SinglyOn, Singly
  <2>3. /\ Sound(a1, m) /\ a1.obs = e1.obs /\ a1.awaited = e1.awaited
        /\ Claimed(a1.ws) \ FsSpaces \subseteq Claimed(e1.ws)
        /\ Distinct(e1.ws) /\ Singly(e1, was) => Distinct(a1.ws)
        /\ Clear(a1)
    BY <1>1, FullscreenSound
  <2> HIDE DEF a1
  <2>4. Datable(e1) => Datable(a1)
    BY <2>3, DatableKept
  <2> QED BY <1>1, <2>1, <2>2, <2>3, <2>4
<1> HIDE DEF a1
<1>6. Plain(e2) /\ Early(e2) /\ Clear(e2)
  <2>1. Plain(e2)
    BY <1>3, <1>5, NoteKept, KeptPlain
  <2>2. Shaped(a1)
    BY <1>3, <1>5
  <2>3. Calmer(a1, e2)
    BY <2>2, NoteCalmer
  <2>4. /\ e2.initialized = a1.initialized /\ e2.pendingCreations = a1.pendingCreations
        /\ e2.ws = a1.ws /\ e2.pendingDestroy = a1.pendingDestroy
    BY <2>2 DEF NoteWindowSpaces, Shaped, Fields
  <2> HIDE DEF e2, Early
  <2>5. Clear(e2)
    BY <1>5, <2>4 DEF Clear
  <2> QED BY <1>4, <1>5, <2>1, <2>3, <2>5
<1> HIDE DEF e2
<1>7. Plain(a2) /\ Early(a2) /\ Enrolled(a2)
  <2>1. Plain(a2)
    BY <1>6, ConfirmDestroysIs
  <2>2. Calmer(e2, a2) /\ Enrolled(a2)
    BY <1>3, <1>6, ConfirmCalmer, ConfirmEnrolled
  <2> HIDE DEF a2, Early
  <2> QED BY <1>4, <1>6, <2>1, <2>2
<1> HIDE DEF a2
<1>8. Plain(e3) /\ Early(e3) /\ Enrolled(e3)
  <2>1. Plain(e3)
    BY <1>3, <1>7, RetireKept, KeptPlain
  <2>2. /\ Fewer(a2, e3) /\ Lined(e3) /\ e3.awaited = a2.awaited
        /\ Enrolled(e3)
    BY <1>7, RetireFewer
  <2> HIDE DEF e3
  <2>3. /\ Sound(e3, m) /\ Claimed(e3.ws) \subseteq Claimed(a2.ws)
        /\ Distinct(a2.ws) => Distinct(e3.ws)
    BY <1>7, <2>2, FewerIs
  <2>4. e3.obs = a2.obs
    BY <2>2 DEF Fewer
  <2>5. Datable(a2) => Datable(e3)
    BY <2>2, <2>3, <2>4, DatableKept
  <2> QED BY <1>7, <2>1, <2>2, <2>3, <2>4, <2>5
<1> HIDE DEF e3
<1>9. Plain(a3) /\ Late(a3) /\ Enrolled(a3)
  <2>1. Plain(a3)
    BY <1>3, <1>8, BindKept, KeptPlain
  <2>2. Serves(e3, m, a3)
    BY <1>8, BindSound
  <2> HIDE DEF a3
  <2> QED BY <1>8, <2>1, <2>2 DEF Serves
<1> HIDE DEF a3
<1>10. Plain(e4) /\ Late(e4)
  <2>1. Plain(e4)
    BY <1>3, <1>9, ExternalKept, KeptPlain
  <2>2. /\ Sound(e4, m) /\ e4.obs = a3.obs
        /\ Distinct(a3.ws) => Distinct(e4.ws)
        /\ Dated(a3) => Dated(e4)
    BY <1>9, ExternalSound
  <2> HIDE DEF e4
  <2> QED BY <1>9, <2>1, <2>2
<1> HIDE DEF e4
<1>11. ASSUME NEW f, NEW g, Late(f), Calmer(f, g)
       PROVE  Late(g) /\ (InOrder(f, {}) => InOrder(g, {}))
  <2>1. /\ Sound(g, m) /\ (Distinct(f.ws) => Distinct(g.ws))
        /\ InOrder(f, {}) => InOrder(g, {})
    BY <1>11, CalmerIs
  <2>2. g.obs = f.obs
    BY <1>11 DEF Calmer, Fewer
  <2>3. Dated(f) => Dated(g)
    BY <1>11, CalmerDated
  <2> QED BY <1>11, <2>1, <2>2, <2>3
<1>12. Plain(e5) /\ Late(e5)
  <2>1. Plain(e5) /\ Calmer(e4, e5)
    BY <1>3, <1>10, PlacementKept, KeptPlain, PlacementCalmer
  <2> HIDE DEF e5, Late
  <2> QED BY <1>10, <1>11, <2>1
<1> HIDE DEF e5
<1>13. Plain(e6) /\ Done(e6)
  <2>1. Plain(e6)
    BY <1>3, <1>12, RemapKept, KeptPlain
  <2>2. /\ Sound(e6, m) /\ e6.obs = e5.obs
        /\ Distinct(e5.ws) => Distinct(e6.ws)
        /\ Dated(e5) => Dated(e6)
        /\ e6.placement = None => InOrder(e6, {})
    BY <1>12, RemapSound
  <2> HIDE DEF e6
  <2> QED BY <1>12, <2>1, <2>2
<1> HIDE DEF e6
<1>14. ASSUME NEW f, NEW g, Done(f), Calmer(f, g), Trims(f, g) PROVE Done(g)
  <2>1. Late(g) /\ (InOrder(f, {}) => InOrder(g, {}))
    BY <1>11, <1>14
  <2>2. g.placement = f.placement
    BY <1>14 DEF Trims
  <2> QED BY <1>14, <2>1, <2>2
<1>15. ASSUME NEW f, NEW g, Done(f), Fewer(f, g), Lined(g), Dated(f) => Dated(g), Trims(f, g)
       PROVE  Done(g)
  <2>1. /\ Sound(g, m) /\ (Distinct(f.ws) => Distinct(g.ws))
        /\ InOrder(f, {}) => InOrder(g, {})
    BY <1>15, FewerIs
  <2>2. g.obs = f.obs /\ g.placement = f.placement
    BY <1>15 DEF Trims
  <2> QED BY <1>15, <2>1, <2>2
<1>16. ASSUME NEW f, Done(f) PROVE Sound(f, m) /\ Shaped(f)
  BY <1>16 DEF Sound
<1> HIDE DEF Late, Done, Early
<1>17. Plain(a6) /\ Done(a6)
  <2>1. Plain(a6) /\ Calmer(e6, a6) /\ Trims(e6, a6)
    BY <1>13, <1>16, GraceKept, KeptPlain, GraceCalmer, TailTrims
  <2> QED BY <1>13, <1>14, <2>1
<1> HIDE DEF a6
<1>18. Done(e7)
  <2>1. Calmer(a6, e7) /\ Trims(a6, e7)
    BY <1>16, <1>17, DestroyEmptyCalmer, TailTrims
  <2> QED BY <1>14, <1>17, <2>1
<1> HIDE DEF e7
<1>19. Done(a7)
  <2>1. Calmer(e7, a7) /\ Trims(e7, a7)
    BY <1>16, <1>18, IntentsCalmer, TailTrims
  <2> QED BY <1>14, <1>18, <2>1
<1> HIDE DEF a7
<1>20. Done(b7)
  <2>1. Calmer(a7, b7) /\ Trims(a7, b7)
    BY <1>16, <1>19, NewSpaceCalmer, TailTrims
  <2> QED BY <1>14, <1>19, <2>1
<1> HIDE DEF b7
<1>21. Done(e8)
  <2>1. Trims(b7, e8)
    BY <1>16, <1>20, TailTrims
  <2>2. Fewer(b7, e8) /\ Lined(e8) /\ (Dated(b7) => Dated(e8))
    BY <1>16, <1>20, MissingFewer
  <2> HIDE DEF e8
  <2> QED BY <1>15, <1>20, <2>1, <2>2
<1> HIDE DEF e8
<1>22. Done(e9)
  <2>1. Trims(e8, e9)
    BY <1>16, <1>21, TailTrims
  <2>2. Fewer(e8, e9) /\ Lined(e9) /\ (Dated(e8) => Dated(e9))
    BY <1>16, <1>21, TryStartFewer
  <2> HIDE DEF e9
  <2> QED BY <1>15, <1>21, <2>1, <2>2
<1>23. Done(Heal(e9))
  <2>1. Shaped(Heal(e9))
    BY <1>2, SnapshotDecides, DecidesShaped DEF Seen
  <2> HIDE DEF e9
  <2>2. Calmer(e9, Heal(e9)) /\ Trims(e9, Heal(e9))
    BY <1>16, <1>22, <2>1, HealCalmer, TailTrims
  <2> QED BY <1>14, <1>22, <2>2
<1> QED BY <1>2, <1>23 DEF Done, Late

-----------------------------------------------------------------------------
\* Commands, and what is left of a batch.
Aligned(e) == e.placement = None => InOrder(e, {})

Steady(e, g, m) ==
  /\ Sound(g, m) /\ g.obs = e.obs
  /\ Claimed(g.ws) \subseteq Claimed(e.ws) \cup Ordinary(e)
  /\ Distinct(e.ws) => Distinct(g.ws)
  /\ Dated(e) => Dated(g)
  /\ Aligned(e) => Aligned(g)

LEMMA SteadyTwice ==
  ASSUME NEW e, NEW f, NEW g, NEW m, Steady(e, f, m), Steady(f, g, m)
  PROVE  Steady(e, g, m)
<1>1. Ordinary(f) = Ordinary(e)
  BY DEF Steady, Ordinary, Observed
<1> QED BY <1>1 DEF Steady

LEMMA FewerSteady ==
  ASSUME NEW e, NEW g, NEW m, Sound(e, m), Fewer(e, g), Lined(g), Dated(e) => Dated(g),
         g.placement = e.placement
  PROVE  Steady(e, g, m)
<1>1. /\ Sound(g, m) /\ Claimed(g.ws) \subseteq Claimed(e.ws)
      /\ Distinct(e.ws) => Distinct(g.ws)
      /\ InOrder(e, {}) => InOrder(g, {})
  BY FewerIs
<1>2. g.obs = e.obs
  BY DEF Fewer
<1> QED BY <1>1, <1>2 DEF Steady, Aligned

LEMMA CalmerSteady ==
  ASSUME NEW e, NEW g, NEW m, Sound(e, m), Calmer(e, g), g.placement = e.placement
  PROVE  Steady(e, g, m)
<1>1. Fewer(e, g) /\ Lined(g)
  BY CalmerIs DEF Calmer, Sound
<1>2. Dated(e) => Dated(g)
  BY CalmerDated
<1> QED BY <1>1, <1>2, FewerSteady

LEMMA UntouchedSteady ==
  ASSUME NEW e, NEW g, NEW m, Sound(e, m), Shaped(g), g.obs = e.obs, Untouched(e, g),
         g.placement = e.placement
  PROVE  Steady(e, g, m)
  BY UntouchedCalmer, CalmerSteady

LEMMA EnsureSteady ==
  ASSUME NEW e, NEW n \in Names, NEW m, Sound(e, m)
  PROVE  LET g == EnsureDynamicWorkspace(e, n)
         IN  /\ Steady(e, g, m) /\ n \in DOMAIN g.ws
             /\ g.awaited = e.awaited /\ g.pendingCreations = e.pendingCreations
             /\ n \in DOMAIN e.ws => g = e
             /\ n \notin DOMAIN e.ws => g.ws[n].backing = None
<1> DEFINE new == [k \in {n} |-> NewState(FALSE, TRUE)]
           g == [e EXCEPT !.ws = Over(new, e.ws)]
<1>1. Registry(new) /\ DOMAIN new = {n} /\ new[n].backing = None
  BY DEF Registry, NewState
<1>2. Shaped(e) /\ Lined(e)
  BY DEF Sound
<1>3. n \in DOMAIN e.ws => EnsureDynamicWorkspace(e, n) = e
  BY DEF EnsureDynamicWorkspace
<1>4. n \notin DOMAIN e.ws => EnsureDynamicWorkspace(e, n) = g
  BY DEF EnsureDynamicWorkspace
<1> HIDE DEF new
<1>5. Registry(Over(new, e.ws))
  BY <1>1, <1>2, RegistryIs DEF Shaped
<1>6. /\ DOMAIN g = Fields /\ g.ws = Over(new, e.ws) /\ g.obs = e.obs /\ g.awaited = e.awaited
      /\ g.pendingCreations = e.pendingCreations /\ g.external = e.external
      /\ g.placement = e.placement /\ g.out = e.out
      /\ g.pendingNewSpace = e.pendingNewSpace
  BY <1>2 DEF Shaped, Fields
<1> HIDE DEF g
<1>7. Shaped(g)
  BY <1>2, <1>5, <1>6 DEF Shaped, Named
<1>8. ASSUME n \notin DOMAIN e.ws
      PROVE  Steady(e, g, m) /\ n \in DOMAIN g.ws /\ g.ws[n].backing = None
  <2>1. DOMAIN g.ws = DOMAIN e.ws \cup {n}
    BY <1>1, <1>6 DEF Over
  <2>2. ASSUME NEW k \in DOMAIN g.ws
        PROVE  \/ g.ws[k].backing = None
               \/ k \in DOMAIN e.ws /\ g.ws[k].backing = e.ws[k].backing
    BY <1>1, <1>6, <1>8, <2>1 DEF Over
  <2>3. Fewer(e, g)
    BY <1>6, <1>7, <2>2 DEF Fewer
  <2>4. Waiting(g) = Waiting(e) /\ AwaitedName(g) = AwaitedName(e)
    BY <1>6 DEF Waiting, AwaitedName
  <2>5. Lined(g)
    BY <1>2, <1>6, <2>2, <2>4 DEF Lined
  <2>6. Dated(e) => Dated(g)
    BY <1>6 DEF Dated, Ordinary, Observed
  <2>7. Steady(e, g, m)
    BY <1>6, <2>3, <2>5, <2>6, FewerSteady
  <2>8. n \in DOMAIN g.ws /\ g.ws[n].backing = None
    BY <1>1, <1>6, <2>1 DEF Over
  <2> QED BY <2>7, <2>8
<1>9. Steady(e, e, m)
  BY <1>2, UntouchedSteady DEF Untouched
<1> QED BY <1>3, <1>4, <1>6, <1>8, <1>9

LEMMA AppendOnce ==
  ASSUME NEW q, IsSeq(q), Once(q), NEW n, n \notin ToSet(q)
  PROVE  /\ IsSeq(Append(q, n)) /\ Once(Append(q, n))
         /\ ToSet(Append(q, n)) = ToSet(q) \cup {n}
<1>1. PICK a : a = Append(q, n)
  OBVIOUS
<1>2. /\ IsSeq(a) /\ Len(a) = Len(q) + 1 /\ a[Len(q) + 1] = n
      /\ \A i \in 1 .. Len(q) : a[i] = q[i]
  BY <1>1, AppendIs
<1>3. Len(q) \in Nat /\ DOMAIN q = 1 .. Len(q) /\ DOMAIN a = 1 .. Len(q) + 1
  BY <1>2, SeqIs
<1>4. \A i \in DOMAIN a : \/ i \in DOMAIN q /\ a[i] = q[i]
                          \/ i = Len(q) + 1 /\ a[i] = n
  BY <1>2, <1>3
<1>5. \A i \in DOMAIN q : i \in DOMAIN a /\ a[i] = q[i] /\ q[i] # n
  BY <1>2, <1>3 DEF ToSet
<1>6. Len(q) + 1 \in DOMAIN a
  BY <1>3
<1>7. Once(a)
  BY <1>4, <1>5 DEF Once
<1>8. ToSet(a) = ToSet(q) \cup {n}
  BY <1>2, <1>4, <1>5, <1>6 DEF ToSet
<1> QED BY <1>1, <1>2, <1>7, <1>8

LEMMA QueueSteady ==
  ASSUME NEW e, NEW n, NEW m, Sound(e, m), n \notin AwaitedName(e),
         n \in DOMAIN e.ws => e.ws[n].backing = None
  PROVE  Steady(e, QueueCreation(e, n), m)
<1> DEFINE q == e.pendingCreations
           g == [e EXCEPT !.pendingCreations = Append(q, n)]
<1>1. Shaped(e) /\ Lined(e) /\ IsSeq(q) /\ Once(q)
  BY DEF Sound, Shaped, Lined
<1>2. CASE Contains(q, n)
  <2>1. QueueCreation(e, n) = e
    BY <1>2 DEF QueueCreation
  <2> QED BY <1>1, <2>1, UntouchedSteady DEF Untouched
<1>3. CASE ~Contains(q, n)
  <2>1. QueueCreation(e, n) = g
    BY <1>3 DEF QueueCreation
  <2>2. n \notin ToSet(q)
    <3>1. DOMAIN q = 1 .. Len(q)
      BY <1>1, SeqIs
    <3> HIDE DEF q
    <3> QED BY <1>3, <3>1 DEF Contains, ToSet
  <2>3. /\ IsSeq(Append(q, n)) /\ Once(Append(q, n))
        /\ ToSet(Append(q, n)) = ToSet(q) \cup {n}
    <3> HIDE DEF q
    <3> QED BY <1>1, <2>2, AppendOnce
  <2>4. /\ DOMAIN g = Fields /\ g.ws = e.ws /\ g.obs = e.obs /\ g.awaited = e.awaited
        /\ g.pendingCreations = Append(q, n) /\ g.external = e.external
        /\ g.placement = e.placement /\ g.out = e.out
        /\ g.pendingNewSpace = e.pendingNewSpace
    BY <1>1 DEF Shaped, Fields
  <2> HIDE DEF g
  <2>5. Shaped(g)
    BY <1>1, <2>3, <2>4 DEF Shaped, Named
  <2>6. Fewer(e, g)
    BY <2>4, <2>5 DEF Fewer, Shaped, Registry
  <2>7. AwaitedName(g) = AwaitedName(e)
    BY <2>4 DEF AwaitedName
  <2>8. Lined(g)
    BY <1>1, <2>3, <2>4, <2>7 DEF Lined, Waiting
  <2>9. Dated(e) => Dated(g)
    BY <2>4 DEF Dated, Ordinary, Observed
  <2> QED BY <2>1, <2>4, <2>6, <2>8, <2>9, FewerSteady
<1> QED BY <1>2, <1>3

LEMMA RequestSteady ==
  ASSUME NEW e, NEW n \in Names, NEW m, Sound(e, m),
         n \in DOMAIN e.ws => e.ws[n].backing = None
  PROVE  Steady(e, RequestWorkspaceCreation(e, n), m)
<1> DEFINE known == EnsureDynamicWorkspace(e, n)
           asked == IF n \in AwaitedName(e) THEN known ELSE QueueCreation(known, n)
<1>1. /\ Steady(e, known, m) /\ known.ws[n].backing = None
      /\ known.awaited = e.awaited
  BY EnsureSteady
<1>2. RequestWorkspaceCreation(e, n) = TryStartNextPendingCreation(asked)
  BY DEF RequestWorkspaceCreation
<1> HIDE DEF known
<1>3. AwaitedName(known) = AwaitedName(e) /\ Sound(known, m)
  BY <1>1 DEF AwaitedName, Steady
<1>4. Steady(e, asked, m)
  <2>1. n \notin AwaitedName(e) => Steady(known, QueueCreation(known, n), m)
    BY <1>1, <1>3, QueueSteady
  <2> QED BY <1>1, <2>1, SteadyTwice
<1> HIDE DEF asked
<1>5. Steady(asked, TryStartNextPendingCreation(asked), m)
  <2> DEFINE g == TryStartNextPendingCreation(asked)
  <2>1. Sound(asked, m) /\ Shaped(asked)
    BY <1>4 DEF Steady, Sound
  <2>2. Fewer(asked, g) /\ Lined(g) /\ (Dated(asked) => Dated(g))
    BY <2>1, TryStartFewer
  <2>3. g.placement = asked.placement
    BY <2>1, TailTrims DEF Trims
  <2> HIDE DEF g
  <2>4. Steady(asked, g, m)
    BY <2>1, <2>2, <2>3, FewerSteady
  <2> QED BY <2>4 DEF g
<1> QED BY <1>2, <1>4, <1>5, SteadyTwice

\* A workspace whose Space is asked for anew has lost the one it had.
LEMMA ClearRequest ==
  ASSUME NEW e, NEW n \in Names, NEW m, Sound(e, m), NEW x, Shaped(x),
         x.obs = e.obs, x.placement = e.placement, Untouched(ClearStaleBacking(e, n), x)
  PROVE  Steady(e, RequestWorkspaceCreation(x, n), m)
<1> DEFINE clear == ClearStaleBacking(e, n)
<1>1. Shaped(e) /\ DOMAIN e = Fields /\ Registry(e.ws)
  BY DEF Sound, Shaped
<1>2. Calmer(e, clear)
  BY <1>1, ClearStaleCalmer
<1>3. /\ clear.placement = e.placement
      /\ n \in DOMAIN clear.ws => clear.ws[n].backing = None
  BY <1>1 DEF ClearStaleBacking, Registry, Fields
<1> HIDE DEF clear
<1>4. Steady(e, clear, m)
  BY <1>2, <1>3, CalmerSteady
<1>5. Steady(clear, x, m)
  <2>1. Sound(clear, m) /\ clear.obs = e.obs
    BY <1>4 DEF Steady
  <2> QED BY <1>3, <2>1, UntouchedSteady DEF clear
<1>6. Steady(e, x, m) /\ Sound(x, m)
  BY <1>4, <1>5, SteadyTwice DEF Steady
<1>7. n \in DOMAIN x.ws => x.ws[n].backing = None
  BY <1>3 DEF Untouched, clear
<1>8. Steady(x, RequestWorkspaceCreation(x, n), m)
  BY <1>6, <1>7, RequestSteady
<1> QED BY <1>6, <1>8, SteadyTwice

LEMMA EmitSteady ==
  ASSUME NEW e, NEW m, NEW a, Sound(e, m), Shaped(Emit(e, a))
  PROVE  Steady(e, Emit(e, a), m)
<1>1. DOMAIN e = Fields
  BY DEF Sound, Shaped
<1> QED BY <1>1, EmitUntouched, UntouchedSteady

LEMMA FocusSteady ==
  ASSUME NEW e, NEW n \in Names, NEW m, Sound(e, m)
  PROVE  Steady(e, FocusWorkspace(e, n), m)
<1> DEFINE queue(x) == IF Contains(x.pendingFocus, n) THEN x
                       ELSE [x EXCEPT !.pendingFocus = Append(@, n)]
           clear == ClearStaleBacking(e, n)
           sent == Emit(e, Focus(Active(e.ws[n])))
           Alike(x, y) == /\ Shaped(y) /\ y.obs = x.obs /\ y.placement = x.placement
                          /\ Untouched(x, y)
<1>1. Shaped(e) /\ Shaped(clear) /\ clear.obs = e.obs /\ clear.placement = e.placement
  <2>1. Shaped(e) /\ DOMAIN e = Fields
    BY DEF Sound, Shaped
  <2>2. clear.placement = e.placement
    BY <2>1 DEF ClearStaleBacking, Fields
  <2> HIDE DEF clear
  <2>3. Same(e, clear)
    BY <2>1, ClearStaleSame DEF clear
  <2> QED BY <2>1, <2>2, <2>3, SameKept DEF Kept
<1>2. ASSUME NEW x, Shaped(x) PROVE Alike(x, queue(x))
  BY <1>2 DEF Shaped, Named, Untouched, Fields
<1>3. FocusWorkspace(e, n) \in {RequestWorkspaceCreation(queue(clear), n), queue(e), sent}
  BY DEF FocusWorkspace
<1>4. Shaped(FocusWorkspace(e, n))
  BY <1>1, FocusKept DEF Kept
<1> HIDE DEF queue, sent, clear
<1>5. Steady(e, queue(e), m)
  BY <1>1, <1>2, UntouchedSteady
<1>6. Steady(e, RequestWorkspaceCreation(queue(clear), n), m)
  <2>1. Alike(clear, queue(clear))
    BY <1>1, <1>2
  <2>2. PICK x : x = queue(clear)
    OBVIOUS
  <2>3. Untouched(ClearStaleBacking(e, n), x) /\ Shaped(x) /\ x.obs = e.obs
        /\ x.placement = e.placement
    BY <1>1, <2>1, <2>2 DEF clear
  <2> QED BY <2>2, <2>3, ClearRequest
<1>7. Shaped(sent) => Steady(e, sent, m)
  BY EmitSteady DEF sent
<1> QED BY <1>3, <1>4, <1>5, <1>6, <1>7

LEMMA MoveSteady ==
  ASSUME NEW e, NEW w, NEW n \in Names, NEW m, Sound(e, m)
  PROVE  Steady(e, MoveWindowToWorkspace(e, w, n), m)
<1> DEFINE i == [window |-> w, name |-> n]
           queue(x) == IF Contains(x.pendingMove, i) THEN x
                       ELSE [x EXCEPT !.pendingMove = Append(@, i)]
           clear == ClearStaleBacking(e, n)
           kept == [e EXCEPT !.grace = @ \cup {n}]
           sent == Emit(kept, MoveWindow(w, Active(e.ws[n])))
           Alike(x, y) == /\ Shaped(y) /\ y.obs = x.obs /\ y.placement = x.placement
                          /\ Untouched(x, y)
<1>1. Shaped(e) /\ Shaped(clear) /\ clear.obs = e.obs /\ clear.placement = e.placement
  <2>1. Shaped(e) /\ DOMAIN e = Fields
    BY DEF Sound, Shaped
  <2>2. clear.placement = e.placement
    BY <2>1 DEF ClearStaleBacking, Fields
  <2> HIDE DEF clear
  <2>3. Same(e, clear)
    BY <2>1, ClearStaleSame DEF clear
  <2> QED BY <2>1, <2>2, <2>3, SameKept DEF Kept
<1>2. ASSUME NEW x, Shaped(x) PROVE Alike(x, queue(x))
  BY <1>2 DEF Shaped, Named, Untouched, Fields
<1>3. MoveWindowToWorkspace(e, w, n) \in
        {RequestWorkspaceCreation(queue(clear), n), queue(e), sent}
  BY DEF MoveWindowToWorkspace
<1>4. Shaped(MoveWindowToWorkspace(e, w, n))
  BY <1>1, MoveKept DEF Kept
<1>5. Alike(e, kept)
  BY <1>1 DEF Shaped, Named, Untouched, Fields
<1> HIDE DEF queue, clear, kept
<1>6. Steady(e, queue(e), m)
  BY <1>1, <1>2, UntouchedSteady
<1>7. Steady(e, RequestWorkspaceCreation(queue(clear), n), m)
  <2>1. Alike(clear, queue(clear))
    BY <1>1, <1>2
  <2>2. PICK x : x = queue(clear)
    OBVIOUS
  <2>3. Untouched(ClearStaleBacking(e, n), x) /\ Shaped(x) /\ x.obs = e.obs
        /\ x.placement = e.placement
    BY <1>1, <2>1, <2>2 DEF clear
  <2> QED BY <2>2, <2>3, ClearRequest
<1>8. Shaped(sent) => Steady(e, sent, m)
  <2>1. Steady(e, kept, m) /\ Sound(kept, m)
    BY <1>5, UntouchedSteady DEF Steady
  <2> QED BY <2>1, EmitSteady, SteadyTwice
<1> HIDE DEF sent
<1> QED BY <1>3, <1>4, <1>6, <1>7, <1>8

LEMMA NewSpaceCommandSteady ==
  ASSUME NEW e, NEW w, NEW m, Sound(e, m)
  PROVE  Steady(e, MoveWindowToNewSpace(e, w), m)
<1> DEFINE g == MoveWindowToNewSpace(e, w)
<1>1. Shaped(e)
  BY DEF Sound
<1>2. Shaped(g) /\ g.obs = e.obs
  BY <1>1, NewSpaceCommandKept DEF Kept
<1>3. g.placement = e.placement /\ Untouched(e, g)
  BY <1>1 DEF MoveWindowToNewSpace, Emit, Untouched, Shaped, Fields
<1> HIDE DEF g
<1>4. Steady(e, g, m)
  BY <1>2, <1>3, UntouchedSteady
<1> QED BY <1>4 DEF g

\* Pruning takes workspaces away, and the remap then seats those that are left.
LEMMA ReloadSteady ==
  ASSUME NEW e, NEW c \in Configs, NEW m, Sound(e, m)
  PROVE  Steady(e, ReloadConfig(e, c), m)
<1> DEFINE ws == SyncConfig(e.ws, c, TRUE)
           f == [e EXCEPT !.ws = SyncConfig(@, c, TRUE)]
           g == RemapSlots(f)
           S == DOMAIN e.ws \ DOMAIN g.ws
           h == RemoveWorkspaces(g, S)
<1>1. Shaped(e) /\ Registry(ws) /\ Lined(e)
  BY RegistryIs DEF Sound, Shaped
<1>2. /\ DOMAIN f = Fields /\ f.ws = ws /\ f.obs = e.obs /\ f.awaited = e.awaited
      /\ f.pendingCreations = e.pendingCreations /\ f.external = e.external
      /\ f.placement = e.placement /\ f.out = e.out
      /\ f.pendingNewSpace = e.pendingNewSpace
  BY <1>1 DEF Shaped, Fields
<1>3. ReloadConfig(e, c) = h
  BY DEF ReloadConfig
<1> HIDE DEF f
<1>4. ASSUME NEW n \in DOMAIN ws
      PROVE  \/ ws[n].backing = None
             \/ n \in DOMAIN e.ws /\ ws[n].backing = e.ws[n].backing
  BY <1>1 DEF SyncConfig, NewState, Shaped, Registry
<1>5. Shaped(f)
  BY <1>1, <1>2 DEF Shaped, Named
<1> HIDE DEF ws
<1>6. Fewer(e, f) /\ Lined(f) /\ (Dated(e) => Dated(f))
  <2>1. Fewer(e, f)
    BY <1>2, <1>4, <1>5 DEF Fewer
  <2>2. Waiting(f) = Waiting(e) /\ AwaitedName(f) = AwaitedName(e)
    BY <1>2 DEF Waiting, AwaitedName
  <2>3. Lined(f)
    BY <1>1, <1>2, <1>4, <2>2 DEF Lined
  <2>4. Dated(e) => Dated(f)
    BY <1>2 DEF Dated, Ordinary, Observed
  <2> QED BY <2>1, <2>3, <2>4
<1>7. Steady(e, f, m) /\ Sound(f, m)
  BY <1>2, <1>6, FewerSteady DEF Steady
<1>8. Steady(f, g, m)
  <2>1. /\ Sound(g, m) /\ g.obs = f.obs /\ g.placement = f.placement
        /\ Distinct(f.ws) => Distinct(g.ws)
        /\ Dated(f) => Dated(g)
        /\ Claimed(g.ws) \subseteq Claimed(f.ws) \cup Ordinary(f)
        /\ g.placement = None => InOrder(g, {})
    BY <1>7, RemapSound
  <2> HIDE DEF g
  <2> QED BY <2>1 DEF Steady, Aligned
<1> HIDE DEF g
<1>9. Steady(g, h, m)
  <2>1. Sound(g, m) /\ Shaped(g)
    BY <1>8 DEF Steady, Sound
  <2>2. Calmer(g, h)
    BY <2>1, RemoveCalmer
  <2>3. h.placement = g.placement
    BY <2>1 DEF RemoveWorkspaces, Shaped, Fields
  <2> HIDE DEF h
  <2> QED BY <2>1, <2>2, <2>3, CalmerSteady
<1> QED BY <1>3, <1>7, <1>8, <1>9, SteadyTwice

LEMMA LeftSteady ==
  ASSUME NEW f, NEW m, Sound(f, m), NEW k \in 0 .. Len(f.out)
  PROVE  Steady(f, Left(f, k), m)
<1>1. Shaped(f)
  BY DEF Sound
<1> DEFINE g == Left(f, k)
<1>2. Calmer(f, g) /\ g.placement = f.placement
  BY <1>1, LeftCalmer, FailedIs
<1> HIDE DEF g
<1>3. Steady(f, g, m)
  BY <1>2, CalmerSteady
<1> QED BY <1>3 DEF g

-----------------------------------------------------------------------------
\* The two corners that the theorems below leave out.  A queued creation is of a
\* workspace in the registry, which no destruction under way takes along.
Registered == Clear(engine)

\* Two windows that are found together on a fullscreen Space did not enter it
\* since the observation before.
OneEnters == SinglyOn(engine.obs.at, native)

\* The inductive invariants.
Lasting == Formed /\ Sound(engine, minted) /\ Aligned(engine)

Single ==
  /\ Lasting /\ Distinct(engine.ws) /\ Dated(engine)
  /\ Claimed(engine.ws) \ FsSpaces \subseteq Observed(engine) \cup Gone

LEMMA SoundGrows ==
  ASSUME NEW e, NEW m \in Nat, NEW m2 \in Nat, m <= m2, Sound(e, m)
  PROVE  Sound(e, m2)
<1>1. 1 .. m \subseteq 1 .. m2
  OBVIOUS
<1>2. Ids(m) \subseteq Ids(m2)
  BY <1>1 DEF Ids
<1>3. Homed(e.ws, m2)
  BY <1>2 DEF Sound, Homed
<1> QED BY <1>1, <1>2, <1>3 DEF Sound

LEMMA BatchSteady ==
  ASSUME Formed, NEW f, Sound(f, minted), ExecuteTracked(f)
  PROVE  /\ native'.order = native.order
         /\ \E g : g = engine' /\ Steady(f, g, minted)
<1>1. Shaped(f)
  BY DEF Sound
<1>2. PICK k \in 0 .. Len(f.out) : /\ native' = Effect(native, SubSeq(f.out, 1, k))
                                   /\ engine' = Left(f, k)
  BY <1>1, BatchIs DEF Formed
<1>3. native'.order = native.order
  BY <1>2, EffectIs DEF Formed
<1>4. PICK g : g = Left(f, k)
  OBVIOUS
<1>5. Steady(f, g, minted)
  BY <1>4, LeftSteady
<1> QED BY <1>2, <1>3, <1>4, <1>5

\* What one observation makes of the engine.
LEMMA ObservationSound ==
  ASSUME Formed, Sound(engine, minted), Registered, NEW late
  PROVE  LET f == Observation(late)
         IN  /\ Sound(f, minted) /\ Aligned(f) /\ f.obs.order = native.order
             /\ Distinct(engine.ws) /\ OneEnters /\ DatableOn(engine, native)
                  => Distinct(f.ws) /\ Dated(f)
<1> DEFINE seen == [order |-> native.order, focus |-> native.focus, at |-> native.at]
<1>1. seen.order = native.order /\ seen.at = native.at
  OBVIOUS
<1>2. Observation(late) = ApplySnapshot(engine, seen, native.sa, config, late)
  BY DEF Observation
<1> HIDE DEF seen
<1>3. Seen(engine, seen, minted) /\ config \in Configs
  BY <1>1 DEF Seen, Formed, Sound, Spaces
<1>4. SinglyOn(engine.obs.at, seen) <=> OneEnters
  BY <1>1 DEF SinglyOn, OneEnters
<1>5. DatableOn(engine, seen) <=> DatableOn(engine, native)
  BY <1>1 DEF DatableOn
<1>6. PICK f : f = Observation(late)
  OBVIOUS
<1>7. /\ Sound(f, minted)
      /\ f.placement = None => InOrder(f, {})
      /\ Distinct(engine.ws) /\ SinglyOn(engine.obs.at, seen) /\ DatableOn(engine, seen)
           => Distinct(f.ws) /\ Dated(f)
  BY <1>2, <1>3, <1>6, SnapshotSound DEF Registered
<1>8. f.obs.order = native.order
  BY <1>6, ObservationIs
<1> QED BY <1>4, <1>5, <1>6, <1>7, <1>8 DEF Aligned

\* The daemon's steps: a command, or an observation, and then its batch.
LEMMA DaemonSteady ==
  ASSUME Formed, Sound(engine, minted), Registered, Daemon
  PROVE  /\ minted' = minted /\ native'.order = native.order
         /\ \E g : /\ g = engine'
                   /\ \/ Steady(engine, g, minted)
                      \/ \E late : Steady(Observation(late), g, minted)
<1> DEFINE Keeps == /\ minted' = minted /\ native'.order = native.order
                    /\ \E g : /\ g = engine'
                              /\ \/ Steady(engine, g, minted)
                                 \/ \E late : Steady(Observation(late), g, minted)
<1>1. ASSUME Refresh PROVE Keeps
  <2>1. PICK late : ExecuteTracked(Observation(late)) /\ UNCHANGED minted
    BY <1>1 DEF Refresh, Observe
  <2>2. PICK f : f = Observation(late)
    OBVIOUS
  <2>3. Sound(f, minted)
    BY <2>2, ObservationSound
  <2>4. native'.order = native.order /\ \E g : g = engine' /\ Steady(f, g, minted)
    BY <2>1, <2>2, <2>3, BatchSteady
  <2> QED BY <2>1, <2>2, <2>4
<1>2. ASSUME NEW f, Steady(engine, f, minted), ExecuteTracked(f), UNCHANGED minted
      PROVE  Keeps
  <2>1. Sound(f, minted)
    BY <1>2 DEF Steady
  <2>2. native'.order = native.order /\ \E g : g = engine' /\ Steady(f, g, minted)
    BY <1>2, <2>1, BatchSteady
  <2> QED BY <1>2, <2>2, SteadyTwice
<1> HIDE DEF Keeps
<1>3. ASSUME NEW n \in Names, FocusCommand(n) PROVE Keeps
  BY <1>2, <1>3, FocusSteady DEF FocusCommand
<1>4. ASSUME NEW w, NEW n \in Names, MoveCommand(w, n) PROVE Keeps
  BY <1>2, <1>4, MoveSteady DEF MoveCommand
<1>5. ASSUME NEW w, NewSpaceCommand(w) PROVE Keeps
  BY <1>2, <1>5, NewSpaceCommandSteady DEF NewSpaceCommand
<1>6. ASSUME NEW a, SpaceCommand(a) PROVE Keeps
  <2>1. Shaped(Emit(engine, a))
    BY SpaceCommandIs DEF Formed
  <2>2. Steady(engine, Emit(engine, a), minted)
    BY <2>1, EmitSteady
  <2> QED BY <1>2, <1>6, <2>2 DEF SpaceCommand
<1>7. ASSUME NEW new \in Configs, Reload(new) PROVE Keeps
  <2>1. PICK g : g = ReloadConfig(engine, new)
    OBVIOUS
  <2>2. Steady(engine, g, minted)
    BY <2>1, ReloadSteady
  <2>3. g = engine' /\ minted' = minted /\ native'.order = native.order
    BY <1>7, <2>1 DEF Reload, world
  <2> QED BY <2>2, <2>3 DEF Keeps
<1>8. Keeps
  BY <1>1, <1>3, <1>4, <1>5, <1>6, <1>7 DEF Daemon
<1> QED BY <1>8 DEF Keeps

LEMMA InitSingle == ASSUME Init PROVE Single
<1>1. PICK e : e = engine
  OBVIOUS
<1>2. Formed
  BY InitFormed
<1>3. /\ DOMAIN e.ws = {} /\ DOMAIN e.external = {} /\ e.awaited = None
      /\ e.obs.order = <<>> /\ e.pendingCreations = <<>>
  BY <1>1 DEF Init, NewEngine
<1>4. ToSet(<<>>) = {} /\ Once(<<>>)
  BY DEF ToSet, Once
<1>5. Lined(e) /\ AwaitedName(e) = {} /\ Observed(e) = {}
  BY <1>3, <1>4 DEF Lined, AwaitedName, Waiting, Observed
<1>6. Sound(e, minted)
  BY <1>1, <1>2, <1>3, <1>4, <1>5 DEF Sound, Formed, Homed
<1>7. Aligned(e) /\ Distinct(e.ws) /\ Dated(e) /\ Claimed(e.ws) = {}
  BY <1>3 DEF Aligned, InOrder, Distinct, Dated, Claimed, ActiveSpaces, RestoreSpaces
<1> QED BY <1>1, <1>2, <1>6, <1>7 DEF Single, Lasting

\* The engine of the next state, and the Spaces there have been by then.
LEMMA NextEngine ==
  ASSUME Lasting, Registered, [Next]_vars
  PROVE  \E g, m : /\ g = engine' /\ m = minted' /\ Sound(g, m)
                   /\ Aligned(g)
<1>1. Formed /\ minted \in Nat
  BY DEF Lasting, Formed
<1>2. CASE Daemon
  <2>1. PICK g : /\ g = engine' /\ minted' = minted
                 /\ \/ Steady(engine, g, minted)
                    \/ \E late : Steady(Observation(late), g, minted)
    BY <1>1, <1>2, DaemonSteady DEF Lasting
  <2>2. ASSUME NEW f, Aligned(f), Steady(f, g, minted)
        PROVE  Sound(g, minted) /\ Aligned(g)
    BY <2>2 DEF Steady
  <2>3. Aligned(engine) /\ \A late : Aligned(Observation(late))
    BY ObservationSound DEF Lasting
  <2> QED BY <2>1, <2>2, <2>3
<1>3. CASE MacOS
  <2>1. engine' = engine /\ minted' \in Nat /\ minted <= minted'
    BY <1>1, <1>3, MacOSIs DEF Strip
  <2> QED BY <1>1, <2>1, SoundGrows DEF Lasting
<1>4. CASE UNCHANGED vars
  BY <1>4 DEF vars, Lasting
<1> QED BY <1>2, <1>3, <1>4 DEF Next

LEMMA NextLasting ==
  ASSUME Lasting, Registered, [Next]_vars
  PROVE  Lasting'
<1>1. PICK g, m : /\ g = engine' /\ m = minted' /\ Sound(g, m)
                  /\ Aligned(g)
  BY NextEngine
<1>2. Formed'
  BY NextFormed DEF Lasting
<1>3. Sound(engine, minted)'
  BY <1>1
<1>4. Aligned(engine)'
  BY <1>1
<1> QED BY <1>2, <1>3, <1>4 DEF Lasting

\* Where a workspace's Spaces are not in sight any more, they are gone for good.
LEMMA ClaimsNext ==
  ASSUME Single, Registered, [Next]_vars
  PROVE  \E g : /\ g = engine'
                /\ Claimed(g.ws) \ FsSpaces \subseteq Observed(g) \cup Gone'
<1>1. Formed /\ Sound(engine, minted) /\ minted \in Nat
  BY DEF Single, Lasting, Formed
<1>2. ASSUME NEW f, Sound(f, minted), f.obs.order = native.order
      PROVE  Claimed(f.ws) \ FsSpaces \subseteq Observed(f) \cup Gone
  <2>1. Observed(f) = Spaces
    BY <1>2 DEF Observed, Spaces
  <2>2. ASSUME NEW n \in DOMAIN f.ws, NEW s \in {Active(f.ws[n]), Restore(f.ws[n])},
               s # None, s \notin FsSpaces
        PROVE  s \in Ids(minted)
    BY <1>2, <2>2 DEF Sound, Homed, Active, Restore
  <2>3. Claimed(f.ws) \ FsSpaces \subseteq Ids(minted)
    BY <2>2 DEF Claimed, ActiveSpaces, RestoreSpaces
  <2> QED BY <2>1, <2>3 DEF Ids, Gone
<1>3. ASSUME NEW f, Sound(f, minted), NEW g, Steady(f, g, minted),
             Claimed(f.ws) \ FsSpaces \subseteq Observed(f) \cup Gone
      PROVE  Claimed(g.ws) \ FsSpaces \subseteq Observed(g) \cup Gone
  BY <1>3 DEF Steady, Ordinary, Observed
<1>4. CASE Daemon
  <2>1. /\ minted' = minted /\ native'.order = native.order
        /\ \E g : /\ g = engine'
                  /\ \/ Steady(engine, g, minted)
                     \/ \E late : Steady(Observation(late), g, minted)
    BY <1>1, <1>4, DaemonSteady
  <2>2. Gone' = Gone
    BY <2>1 DEF Gone, Spaces
  <2>3. \A late : /\ Sound(Observation(late), minted)
                  /\ Observation(late).obs.order = native.order
    BY <1>1, ObservationSound
  <2>4. ASSUME NEW late
        PROVE  Claimed(Observation(late).ws) \ FsSpaces
                 \subseteq Observed(Observation(late)) \cup Gone
    BY <1>2, <2>3
  <2>5. Claimed(engine.ws) \ FsSpaces \subseteq Observed(engine) \cup Gone
    BY DEF Single
  <2> QED BY <1>1, <1>3, <2>1, <2>2, <2>3, <2>4, <2>5
<1>5. CASE MacOS
  <2>1. engine' = engine /\ Strip(native, native', minted, minted')
    BY <1>1, <1>5, MacOSIs
  <2>2. 1 .. minted \subseteq 1 .. minted' /\ \A x \in minted + 1 .. minted' : x \notin 1 .. minted
    BY <1>1, <2>1 DEF Strip
  <2>3. Spaces' \subseteq Spaces \cup FsSpaces \cup minted + 1 .. minted'
    BY <2>1 DEF Strip, Spaces
  <2>4. Gone \subseteq Gone'
    BY <2>2, <2>3 DEF Gone
  <2> QED BY <2>1, <2>4 DEF Single
<1>6. CASE UNCHANGED vars
  <2>1. engine' = engine /\ Gone' = Gone
    BY <1>6 DEF vars, Gone, Spaces
  <2> QED BY <2>1 DEF Single
<1> QED BY <1>4, <1>5, <1>6 DEF Next

LEMMA DistinctNext ==
  ASSUME Single, Registered, OneEnters, [Next]_vars
  PROVE  \E g : g = engine' /\ Distinct(g.ws) /\ Dated(g)
<1>1. /\ Formed /\ Sound(engine, minted) /\ Distinct(engine.ws) /\ Dated(engine)
      /\ Claimed(engine.ws) \ FsSpaces \subseteq Observed(engine) \cup Gone
  BY DEF Single, Lasting
<1>2. DatableOn(engine, native)
  <2>1. ToSet(native.order) = Spaces
    BY DEF Spaces
  <2> QED BY <1>1, <2>1 DEF DatableOn, Dated, Ordinary, Gone
<1>3. \A late : Distinct(Observation(late).ws) /\ Dated(Observation(late))
  BY <1>1, <1>2, ObservationSound
<1>4. ASSUME NEW f, NEW g, Distinct(f.ws), Dated(f), Steady(f, g, minted)
      PROVE  Distinct(g.ws) /\ Dated(g)
  BY <1>4 DEF Steady
<1>5. CASE Daemon
  <2>1. \E g : /\ g = engine'
               /\ \/ Steady(engine, g, minted)
                  \/ \E late : Steady(Observation(late), g, minted)
    BY <1>1, <1>5, DaemonSteady
  <2> QED BY <1>1, <1>3, <1>4, <2>1
<1>6. CASE MacOS
  BY <1>1, <1>6, MacOSIs
<1>7. CASE UNCHANGED vars
  BY <1>1, <1>7 DEF vars
<1> QED BY <1>5, <1>6, <1>7 DEF Next

LEMMA NextSingle ==
  ASSUME Single, Registered, OneEnters, [Next]_vars
  PROVE  Single'
<1>1. Lasting'
  BY NextLasting DEF Single
<1>2. PICK g : /\ g = engine'
               /\ Claimed(g.ws) \ FsSpaces \subseteq Observed(g) \cup Gone'
  BY ClaimsNext
<1>3. g = engine' /\ Distinct(g.ws) /\ Dated(g)
  BY <1>2, DistinctNext
<1>4. (Claimed(engine.ws) \ FsSpaces \subseteq Observed(engine) \cup Gone)'
  BY <1>2
<1>5. Distinct(engine.ws)' /\ Dated(engine)'
  BY <1>3
<1> QED BY <1>1, <1>4, <1>5 DEF Single

\* "its workspaces take its own ordinary Spaces in name order" (workspace.rs:245,
\* remap_after_snapshot): while no placement is pending, the workspaces on ordinary
\* Spaces stand in the order of their numbers, after every command, reload,
\* observation, failed batch and delay, as long as no queued creation is of a
\* workspace that is gone or going.
THEOREM OrderedStripHolds == Spec /\ []Registered => []OrderedStrip
<1>1. Init => Lasting
  BY InitSingle DEF Single
<1>2. Lasting /\ Registered /\ [Next]_vars => Lasting'
  BY NextLasting
<1>3. Lasting => OrderedStrip
  BY DEF Lasting, Aligned, InOrder, OrderedStrip
<1> QED BY <1>1, <1>2, <1>3, PTL DEF Spec

\* "Fullscreen Spaces already backing a logical workspace can never be claimed as
\* somebody else's substitution" (engine.rs:951-953), and what is bound, remapped and
\* adopted is free: no Space backs two workspaces, as the one shown or as the one to
\* return to, as long as two windows do not enter one fullscreen Space between two
\* observations and no queued creation is of a workspace that is gone or going.
THEOREM UniqueBackingHolds == Spec /\ []Registered /\ []OneEnters => []UniqueBacking
<1>1. Init => Single
  BY InitSingle
<1>2. Single /\ Registered /\ OneEnters /\ [Next]_vars => Single'
  BY NextSingle
<1>3. Single => UniqueBacking
  BY DEF Single, Distinct, UniqueBacking
<1> QED BY <1>1, <1>2, <1>3, PTL DEF Spec

\* Where fullscreen windows come one at a time, as the comment at engine.rs:951-953
\* takes for granted, the second premise goes without saying.
COROLLARY OneWindowHolds ==
  ASSUME \A u, v \in Windows : u = v
  PROVE  Spec /\ []Registered => []UniqueBacking
<1>1. OneEnters
  BY DEF OneEnters, SinglyOn
<1> QED BY <1>1, UniqueBackingHolds, PTL

\* With it, what the engine destroys is idle: DestroysIdleHolds, rid of its premise
\* that no Space ever backs two workspaces.
COROLLARY DestroysIdleWhileSingle == Spec /\ []Registered /\ []OneEnters => DestroysIdle
  BY UniqueBackingHolds, DestroysIdleHolds, PTL
=============================================================================
