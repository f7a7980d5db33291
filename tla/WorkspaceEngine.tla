-------------------------- MODULE WorkspaceEngine --------------------------
(***************************************************************************)
(* The workspace lifecycle of the engine (rovr-core/src/engine.rs), as     *)
(* operators on the engine's state.  Every operator is one method: it      *)
(* takes the engine e and returns it changed; what it would do to macOS is *)
(* appended to e.out.  Workspaces.tla runs them.                           *)
(*                                                                         *)
(* e.obs is the observation: the Spaces of the display by position, the    *)
(* focused one, and the Space of each window (None: not observed,          *)
(* Elsewhere: on another display).  Time:                                  *)
(* a deadline is due when the step says so (late, a set of the kinds of    *)
(* timers that have run out).                                              *)
(***************************************************************************)
EXTENDS WorkspaceRegistry, SequencesExt

CONSTANTS
  Windows,
  FsSpaces,   \* the Spaces that are native-fullscreen (or system) Spaces
  Elsewhere,  \* where the windows of another display are
  MaxName     \* bound: the largest workspace number (u32::MAX in the code)

Names == 1 .. MaxName

Create(n)      == [op |-> "create", space |-> None, arg |-> n]
Destroy(s)     == [op |-> "destroy", space |-> s, arg |-> None]
MoveAfter(s, t) == [op |-> "move", space |-> s, arg |-> t]
Focus(s)       == [op |-> "focus", space |-> s, arg |-> None]
MoveWindow(w, s) == [op |-> "window", space |-> s, arg |-> w]

Emit(e, a) == [e EXCEPT !.out = Append(@, a)]

Observed(e) == ToSet(e.obs.order)
Ordinary(e) == Observed(e) \ FsSpaces
Occupied(e) == {e.obs.at[w] : w \in Windows} \ {None}

NewEngine ==
  [obs |-> [order |-> <<>>, focus |-> None, at |-> [w \in Windows |-> None]],
   ws |-> <<>>, capable |-> FALSE, synced |-> FALSE, initialized |-> FALSE,
   pendingCreations |-> <<>>, awaited |-> None,
   pendingDestroy |-> {}, topologyDestroy |-> None, placement |-> None,
   external |-> <<>>, grace |-> {}, pendingFocus |-> <<>>,
   pendingMove |-> <<>>, pendingNewSpace |-> <<>>, lastSpace |-> [w \in Windows |-> None],
   out |-> <<>>]

-----------------------------------------------------------------------------
\* Registry bookkeeping.

RemoveWorkspaces(e, S) ==
  [e EXCEPT !.ws = Without(@, S),
            !.grace = @ \ S,
            !.pendingFocus = SelectSeq(@, LAMBDA n : n \notin S),
            !.pendingMove = SelectSeq(@, LAMBDA m : m.name \notin S)]

ClearStaleBacking(e, n) ==
  IF n \in DOMAIN e.ws THEN [e EXCEPT !.ws[n].backing = None] ELSE e

EnsureDynamicWorkspace(e, n) ==
  IF n \in DOMAIN e.ws THEN e
  ELSE [e EXCEPT !.ws = Over([m \in {n} |-> NewState(FALSE, TRUE)], @)]

QueueCreation(e, n) ==
  IF Contains(e.pendingCreations, n) THEN e
  ELSE [e EXCEPT !.pendingCreations = Append(@, n)]

AwaitedName(e) == IF e.awaited = None THEN {} ELSE {e.awaited.name}

\* The workspaces that wait for a Space of their own.
Waiting(e) == ToSet(e.pendingCreations) \cup AwaitedName(e)

\* Mutant of Reserved: destructions stop nothing.
ReservedByCreation(e) == e.awaited # None \/ e.placement # None

\* Topology reservations that stop another topology mutation.
Reserved(e) ==
  \/ e.awaited # None \/ e.placement # None
  \/ e.pendingDestroy # {} \/ e.topologyDestroy # None

-----------------------------------------------------------------------------
\* Creating Spaces: one at a time, the others wait in FIFO order.

\* The head of the queue is dropped while its workspace is gone or backed; a
\* persistent head waits for the capability.
TryStartNextPendingCreation(e) ==
  LET q == e.pendingCreations
      lives(n) == n \in DOMAIN e.ws /\ Active(e.ws[n]) = None
      gated(n) == ~e.capable /\ n \in DOMAIN e.ws /\ e.ws[n].persistent
      i == SelectInSeq(q, LAMBDA n : lives(n) \/ gated(n))
      rest(k) == [e EXCEPT !.pendingCreations = SubSeq(q, k, Len(q))]
  IN  IF q = <<>> \/ gated(Head(q)) \/ Reserved(e) \/ e.obs.order = <<>> THEN e
      ELSE IF i = 0 THEN rest(Len(q) + 1)
      ELSE IF gated(q[i]) THEN rest(i)
      ELSE Emit([rest(i + 1) EXCEPT !.awaited =
                   [name |-> q[i], before |-> Observed(e), uncertain |-> FALSE]],
                Create(q[i]))

RequestWorkspaceCreation(e, n) ==
  LET known == EnsureDynamicWorkspace(e, n)
  IN  TryStartNextPendingCreation(
        IF n \in AwaitedName(e) THEN known ELSE QueueCreation(known, n))

NoteCreateSpaceFailed(e) == [e EXCEPT !.awaited = None]

\* Mutant of NoteBatchFailed: a failure releases every destruction.
NoteBatchFailedAll(e, unexecuted) ==
  [e EXCEPT !.awaited = IF \E a \in unexecuted : a.op = "create" THEN None ELSE @,
            !.pendingDestroy = {}, !.topologyDestroy = None]
NoteBatchFailed(e, unexecuted) ==
  LET creates  == \E a \in unexecuted : a.op = "create"
      destroys == {a.space : a \in {b \in unexecuted : b.op = "destroy"}}
      e1 == IF creates THEN NoteCreateSpaceFailed(e) ELSE e
  IN  IF destroys = {} THEN e1
      ELSE [e1 EXCEPT !.pendingDestroy = {d \in @ : d.space \notin destroys},
                      !.topologyDestroy = None]

\* Normal backings in the logical order: the order the strip should have.  A
\* new reservation is due at once: nothing has been asked for it.
ReserveLogicalOrder(e) ==
  LET names == Ordered({n \in DOMAIN e.ws : IsNormal(e.ws[n])})
  IN  [e EXCEPT !.placement = [order |-> [i \in DOMAIN names |-> Active(e.ws[names[i]])],
                               asked |-> FALSE]]

\* Mutant of ReleaseAwaited: the reservation stays.
ReleaseAwaitedNever(e) == e

\* A creation not confirmed in time turns uncertain, and is released one more
\* grace later, together with a dynamic workspace that never got its Space.
ReleaseAwaited(e) ==
  LET n == e.awaited.name
      released == [e EXCEPT !.awaited = None]
  IN  IF n \in DOMAIN e.ws /\ e.ws[n].dynamic /\ Active(e.ws[n]) = None
      THEN RemoveWorkspaces(released, {n})
      ELSE released

BindAwaitedDynamicSpaces(e, late) ==
  IF e.awaited = None THEN e
  ELSE IF e.awaited.uncertain /\ "creation" \in late THEN ReleaseAwaited(e)
  ELSE LET n == e.awaited.name
           e1 == [e EXCEPT !.awaited.uncertain = @ \/ "creation" \in late]
           taken == FsSpaces \cup ActiveSpaces(e.ws) \cup e.awaited.before
           fresh == {i \in DOMAIN e.obs.order : e.obs.order[i] \notin taken}
           s == e.obs.order[Min(fresh)]
       IN  IF n \notin DOMAIN e.ws \/ BackingFor(e.ws, n) # None
           THEN [e EXCEPT !.awaited = None]
           ELSE IF fresh = {} THEN e1
           ELSE ReserveLogicalOrder(
                  [e EXCEPT !.awaited = None,
                            !.ws[n].backing = Normal(s),
                            !.external = Without(@, {s}),
                            !.grace = @ \cup {n}])

-----------------------------------------------------------------------------
\* Placing Spaces: native order follows the logical order of the reservation.

ReconcilePlacement(e, late) ==
  IF e.placement = None THEN e
  ELSE LET p == e.placement
           desired == SelectSeq(p.order, LAMBDA s : s \in Observed(e))
           actual == SelectSeq(e.obs.order, LAMBDA s : s \in ToSet(desired))
           i == SelectInSeq([k \in DOMAIN desired |-> k],
                            LAMBDA k : desired[k] # actual[k])
           released == [e EXCEPT !.placement = None]
       IN  IF i = 0 \/ ~e.capable \/ (p.asked /\ "placement" \in late) THEN released
           ELSE IF p.asked /\ "retry" \notin late THEN e
           ELSE Emit([e EXCEPT !.placement.asked = TRUE],
                     IF i = 1 THEN MoveAfter(actual[1], desired[1])
                     ELSE MoveAfter(desired[i], desired[i - 1]))

-----------------------------------------------------------------------------
\* Native fullscreen: a window that leaves a workspace's Space for a fullscreen
\* Space takes the workspace with it; when either is gone the workspace returns.

\* was: the windows' Spaces in the observation before.
Entered(e, was, restore) ==
  {w \in Windows :
     /\ e.obs.at[w] \in FsSpaces \cap Observed(e)
     /\ e.obs.at[w] \notin ActiveSpaces(e.ws)
     /\ (IF was[w] # None THEN was[w] ELSE e.lastSpace[w]) = restore}

Leaves(e, b) == e.obs.at[b.window] = None \/ b.active \notin Observed(e)

ReconcileFullscreen(e, was) ==
  LET back(b) == IF b.restore \in Ordinary(e) THEN Normal(b.restore) ELSE None
      backing(n) ==
        LET b == e.ws[n].backing
        IN  IF IsFullscreen(e.ws[n])
            THEN IF Leaves(e, b) THEN back(b) ELSE b
            ELSE IF b # None /\ Entered(e, was, b.active) # {}
            THEN LET w == CHOOSE v \in Entered(e, was, b.active) :
                            \A u \in Entered(e, was, b.active) : v <= u
                 IN  FullscreenReplacement(e.obs.at[w], b.active, w)
            ELSE b
      left == {n \in DOMAIN e.ws :
                 IsFullscreen(e.ws[n]) /\ Leaves(e, e.ws[n].backing)}
      e1 == [e EXCEPT !.ws = [n \in DOMAIN @ |->
                                [@[n] EXCEPT !.backing = backing(n)]],
                      !.grace = @ \cup left]
  IN  IF left = {} THEN e1 ELSE ReserveLogicalOrder(e1)

NoteWindowSpaces(e) ==
  [e EXCEPT !.lastSpace =
     [w \in Windows |-> IF e.obs.at[w] # None THEN e.obs.at[w] ELSE @[w]]]

-----------------------------------------------------------------------------
\* Native Spaces and logical slots.

\* Workspaces with a creation pending do not consume a native slot.
RemapSlots(e) ==
  LET slots == Ordinary(e) \ DOMAIN e.external
  IN  IF e.placement # None THEN e
      ELSE [e EXCEPT !.ws =
                   Over(RemapAfterSnapshot(Without(@, Waiting(e)), e.obs.order, slots), @)]

\* Ordinary Spaces no workspace claims get a grace before they may be pruned.
GraceUnclaimed(e) ==
  LET unclaimed == Ordinary(e) \ (Claimed(e.ws) \cup DOMAIN e.external)
  IN  [e EXCEPT !.external = Over(@, [s \in unclaimed |-> TRUE])]

\* Adopted Spaces extend the strip after its largest number.
AdoptSpaces(e) ==
  LET order == e.obs.order
      used(s) == s \in DOMAIN e.external /\ (s = e.obs.focus \/ s \in Occupied(e))
      adopt == Chosen(order, {i \in DOMAIN order : used(order[i])})
      last  == IF DOMAIN e.ws = {} THEN 0 ELSE Max(DOMAIN e.ws)
      fit   == {i \in DOMAIN adopt : last + i <= MaxName}
      born  == [n \in {last + i : i \in fit} |->
                  [NewState(FALSE, TRUE) EXCEPT !.backing = Normal(adopt[n - last])]]
  IN  [e EXCEPT !.ws = Over(born, @),
                !.external = Without(@, {adopt[i] : i \in fit})]

ObserveExternalSpaces(e) ==
  LET e1 == [e EXCEPT !.external =
               Without(@, DOMAIN @ \ (Observed(e) \ Claimed(e.ws)))]
      e2 == GraceUnclaimed(e1)
  IN  IF ~e.initialized THEN [e1 EXCEPT !.initialized = TRUE]
      ELSE IF e.awaited # None THEN e2
      ELSE AdoptSpaces(e2)

\* A volatile workspace dies when its Space is empty and not focused; moved
\* are the workspaces this observation has just remapped.
Idle(e, n, moved) ==
  /\ ~e.ws[n].persistent /\ IsNormal(e.ws[n])
  /\ n \notin moved \cup e.grace \cup ToSet(e.pendingFocus)
  /\ \A i \in DOMAIN e.pendingMove : e.pendingMove[i].name # n

\* Mutant of Empty: the focused Space is not spared.
EmptyOrFocused(e, s) ==
  s \in Ordinary(e) \ Occupied(e) /\ \A w \in Windows : e.lastSpace[w] # s

Empty(e, s) ==
  /\ s \in Ordinary(e)
  /\ s # e.obs.focus
  /\ s \notin Occupied(e)
  /\ \A w \in Windows : e.lastSpace[w] # s

DestroyEmptyDynamicWorkspaces(e, moved) ==
  LET idle   == {n \in DOMAIN e.ws : Idle(e, n, moved)}
      empty  == {n \in idle : Empty(e, Active(e.ws[n]))}
      only   == Cardinality(Ordinary(e)) <= 1
      stale  == {n \in idle : e.ws[n].dynamic /\ Active(e.ws[n]) \notin Observed(e)}
                \cup (IF only THEN empty ELSE {})
      e1     == RemoveWorkspaces(e, stale)
      n      == Min(empty)
      s      == Active(e.ws[n])
  IN  IF ~e.capable \/ Reserved(e) \/ e.pendingNewSpace # <<>> THEN e
      ELSE IF only \/ empty = {} THEN e1
      ELSE Emit([e1 EXCEPT !.pendingDestroy = @ \cup {[space |-> s, name |-> n]}],
                Destroy(s))

\* The heads of the two queues of intents; one each per observation.
FulfillPendingFocus(e) ==
  LET n == Head(e.pendingFocus)
      s == BackingFor(e.ws, n)
      popped == [e EXCEPT !.pendingFocus = Tail(@)]
  IN  IF e.pendingFocus = <<>> THEN e
      ELSE IF s # None THEN Emit([popped EXCEPT !.grace = @ \cup {n}], Focus(s))
      ELSE IF n \notin DOMAIN e.ws THEN popped
      ELSE e

FulfillPendingMove(e) ==
  LET m == Head(e.pendingMove)
      s == BackingFor(e.ws, m.name)
      popped == [e EXCEPT !.pendingMove = Tail(@)]
      kept   == [popped EXCEPT !.grace = @ \cup {m.name}]
  IN  IF e.pendingMove = <<>> THEN e
      ELSE IF s # None
      THEN IF e.obs.at[m.window] # None THEN Emit(kept, MoveWindow(m.window, s))
           ELSE kept
      ELSE IF m.name \notin DOMAIN e.ws THEN popped
      ELSE e

FulfillPendingWorkspaceActions(e) ==
  IF e.placement # None THEN e ELSE FulfillPendingMove(FulfillPendingFocus(e))

\* The Space each intent gets: the first that is new since its command, and that
\* no workspace shows and no earlier intent takes.
GivenSpaces(e, intents) ==
  LET order == e.obs.order
      given[j \in DOMAIN intents] ==
        LET taken == FsSpaces \cup ActiveSpaces(e.ws) \cup intents[j].before
                     \cup {given[k] : k \in 1 .. j - 1}
            free  == {i \in DOMAIN order : order[i] \notin taken}
        IN  IF e.obs.at[intents[j].window] = None \/ free = {} THEN None
            ELSE order[Min(free)]
  IN  given

\* Its window goes there, and the focus with it.
Sends(intents, given) ==
  [i \in 1 .. 2 * Len(intents) |->
     LET j == (i + 1) \div 2
     IN  IF i % 2 = 1 THEN MoveWindow(intents[j].window, given[j]) ELSE Focus(given[j])]

\* The oldest intent is dropped when it is due, all whose windows are gone are.
FulfillPendingNewSpaceMoves(e, late) ==
  LET timely == IF "newspace" \in late THEN Tail(e.pendingNewSpace) ELSE e.pendingNewSpace
      given  == GivenSpaces(e, timely)
      sends  == Sends(timely, given)
      waits  == {j \in DOMAIN timely :
                   e.obs.at[timely[j].window] # None /\ given[j] = None}
  IN  IF e.pendingNewSpace = <<>> \/ e.placement # None THEN e
      ELSE [e EXCEPT
              !.out = @ \o Chosen(sends, {i \in DOMAIN sends : sends[i].space # None}),
              !.pendingNewSpace = Chosen(timely, waits)]

\* Mutant of RequestMissing: a creation that failed is not asked for again.
RequestMissingNever(e) == e

RequestMissing(e) ==
  LET missing == EnsurePersistent(e.ws) \ Waiting(e)
  IN  [e EXCEPT !.pendingCreations = @ \o Ordered(missing)]

\* Orphaned Spaces are pruned one at a time, from the last position.
NextTopologyHealAction(e) ==
  LET orphan(s) == /\ s \notin FsSpaces /\ s # e.obs.focus
                   /\ ~(s \in DOMAIN e.external /\ e.external[s])
                   /\ s \notin Claimed(e.ws) \cup Occupied(e)
      orphans == {i \in DOMAIN e.obs.order : orphan(e.obs.order[i])}
  IN  IF \/ ~e.capable \/ e.pendingCreations # <<>> \/ e.pendingNewSpace # <<>>
         \/ Reserved(e)
         \/ orphans = {} \/ Cardinality(Ordinary(e)) <= 1
      THEN None ELSE e.obs.order[Max(orphans)]

Heal(e) ==
  LET s == NextTopologyHealAction(e)
  IN  IF e.out # <<>> \/ s = None THEN e
      ELSE Emit([e EXCEPT !.topologyDestroy = s], Destroy(s))

-----------------------------------------------------------------------------
\* One complete observation, in the order of apply_event.

IsReset(e, seen) ==
  LET old == Ordinary(e)
  IN  /\ old # {}
      /\ ToSet(seen.order) \ FsSpaces # {}
      /\ old \cap ToSet(seen.order) = {}

RequeueAwaited(e) ==
  LET n == e.awaited.name
  IN  IF e.awaited = None THEN e
      ELSE [e EXCEPT !.awaited = None,
                     !.pendingCreations =
                       IF Contains(@, n) THEN @ ELSE <<n>> \o @]

ConfirmDestroys(e) ==
  LET gone == {d \in e.pendingDestroy : d.space \notin Observed(e)}
      e1 == [e EXCEPT !.pendingDestroy = @ \ gone,
                      !.topologyDestroy = IF @ \in Observed(e) THEN @ ELSE None]
  IN  RemoveWorkspaces(e1, {d.name : d \in gone})

\* Volatile workspaces whose Space vanished are retired; persistent ones are
\* queued for recreation.
RetireVanished(e, reset) ==
  LET vanished == {n \in DOMAIN e.ws :
                     Active(e.ws[n]) \notin Observed(e) \cup {None}}
      lost == {n \in vanished : e.ws[n].persistent}
      e1 == RemoveWorkspaces(e, vanished \ lost)
      cleared == [e1 EXCEPT !.ws = [n \in DOMAIN @ |->
                    IF n \in lost THEN [@[n] EXCEPT !.backing = None] ELSE @[n]]]
      queue == Ordered(lost \ ToSet(e.pendingCreations))
  IN  IF reset THEN e
      ELSE [cleared EXCEPT !.pendingCreations = @ \o queue]

\* The timers an observation may find run out.
Running(e) ==
     (IF e.awaited # None THEN {"creation"} ELSE {})
  \cup (IF e.placement # None THEN {"placement", "retry"} ELSE {})
  \cup (IF e.pendingNewSpace # <<>> THEN {"newspace"} ELSE {})
  \cup (IF e.grace # {} THEN {"grace"} ELSE {})
  \cup (IF \E s \in DOMAIN e.external : e.external[s] THEN {"external"} ELSE {})
  \cup (IF \E w \in Windows : e.lastSpace[w] # None THEN {"memory"} ELSE {})

\* The timers that only forget, when they run out.
Expire(e, late) ==
  [e EXCEPT !.grace = IF "grace" \in late THEN {} ELSE @,
            !.external = [s \in DOMAIN @ |-> @[s] /\ "external" \notin late],
            !.lastSpace = IF "memory" \in late THEN [w \in Windows |-> None] ELSE @]

ApplySnapshot(e, seen, capable, config, late) ==
  LET reset == IsReset(e, seen)
      was   == e.obs.at
      void  == [RequeueAwaited(e) EXCEPT !.initialized = FALSE, !.external = <<>>]
      e1 == [Expire(IF reset THEN void ELSE e, late) EXCEPT
               !.obs = seen, !.capable = capable, !.synced = TRUE, !.out = <<>>,
               !.ws = IF e.synced THEN @ ELSE SyncConfig(@, config, FALSE)]
      e2 == NoteWindowSpaces(ReconcileFullscreen(e1, was))
      e3 == RetireVanished(ConfirmDestroys(e2), reset)
      e4 == ObserveExternalSpaces(BindAwaitedDynamicSpaces(e3, late))
      e5 == ReconcilePlacement(e4, late)
      e6 == RemapSlots(e5)
      e7 == DestroyEmptyDynamicWorkspaces(GraceUnclaimed(e6), Moved(e5.ws, e6.ws))
      e8 == RequestMissing(
              FulfillPendingNewSpaceMoves(FulfillPendingWorkspaceActions(e7), late))
  IN  Heal(TryStartNextPendingCreation(e8))

-----------------------------------------------------------------------------
\* Commands.

Backed(e, n) == BackingFor(e.ws, n) \in Observed(e)

FocusWorkspace(e, n) ==
  LET queue(x) == IF Contains(x.pendingFocus, n) THEN x
                  ELSE [x EXCEPT !.pendingFocus = Append(@, n)]
  IN  IF ~Backed(e, n)
      THEN RequestWorkspaceCreation(queue(ClearStaleBacking(e, n)), n)
      ELSE IF e.placement # None THEN queue(e)
      ELSE Emit(e, Focus(Active(e.ws[n])))

MayMove(e, w, n) ==
  /\ e.obs.at[w] \notin FsSpaces \cup {None, Elsewhere}
  /\ BackingFor(e.ws, n) \notin FsSpaces \cap Observed(e)

MoveWindowToWorkspace(e, w, n) ==
  LET m == [window |-> w, name |-> n]
      queue(x) == IF Contains(x.pendingMove, m) THEN x
                  ELSE [x EXCEPT !.pendingMove = Append(@, m)]
  IN  IF ~Backed(e, n)
      THEN RequestWorkspaceCreation(queue(ClearStaleBacking(e, n)), n)
      ELSE IF e.placement # None THEN queue(e)
      ELSE Emit([e EXCEPT !.grace = @ \cup {n}],
                MoveWindow(w, Active(e.ws[n])))

\* What space create asks for reserves nothing.
ByCommand == 0

\* A later command for the same window replaces the earlier one.
MoveWindowToNewSpace(e, w) ==
  LET intents == e.pendingNewSpace
      others  == Chosen(intents, {i \in DOMAIN intents : intents[i].window # w})
  IN  Emit([e EXCEPT !.pendingNewSpace =
              Append(others, [window |-> w, before |-> Observed(e)])],
           Create(ByCommand))

\* Workspaces that die in a reload take their grace and intents with them.
ReloadConfig(e, config) ==
  LET e1 == RemapSlots([e EXCEPT !.ws = SyncConfig(@, config, TRUE)])
      dead == DOMAIN e.ws \ DOMAIN e1.ws
  IN  RemoveWorkspaces(e1, dead)
=============================================================================
