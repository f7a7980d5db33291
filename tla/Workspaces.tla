---------------------------- MODULE Workspaces ----------------------------
(***************************************************************************)
(* Workspaces and native Spaces of one display: the engine's lifecycle     *)
(* (WorkspaceEngine) run by the daemon's state loop (rovr-daemon/src/      *)
(* main.rs) against macOS.  An observation, the actions it decides and the *)
(* failure of some of them are one step: the state loop is one thread and  *)
(* runs a batch to its end or to its first failure.  Between two steps the *)
(* user changes the Spaces, windows come and go, the Dock rebuilds its     *)
(* Spaces, and mutations that were acknowledged land, late or never.       *)
(***************************************************************************)
EXTENDS WorkspaceEngine

CONSTANTS
  Configs,    \* configurations: functions from names to persistent or not
  Kinds,      \* the kinds of commands and of user steps in this instance
  MaxSpace,   \* bound: ordinary Spaces that ever exist
  MaxUser,    \* bound: commands, steps of the user and of the Dock
  MaxFail,    \* bound: batches that fail
  MaxLanding, \* bound: mutations acknowledged and not in effect yet
  Reliable    \* TRUE: an acknowledged mutation takes effect, and before the
              \* timer that waits for it runs out

ASSUME WorkspacesAssumption ==
  /\ Configs \subseteq UNION {[S -> BOOLEAN] : S \in SUBSET Names}
  /\ Windows \subseteq Nat /\ IsFiniteSet(Windows)
  /\ FsSpaces \subseteq Nat
  /\ {MaxName, MaxSpace, MaxUser, MaxFail, MaxLanding} \subseteq Nat
  /\ FsSpaces \cap 1 .. MaxSpace = {}
  /\ {None, Elsewhere} \cap Nat = {}

VARIABLES
  engine,     \* the Engine
  config,     \* the configuration in force
  native,     \* macOS: order, focus and at as in an observation, and sa
  landing,    \* mutations acknowledged and not in effect yet
  minted,     \* ordinary Spaces created so far
  user, failed

world == <<native, landing, minted>>
vars  == <<engine, config, native, landing, minted, user, failed>>

\* The windows of another display, if the instance has one.
Beyond == IF "newspace" \in Kinds THEN {Elsewhere} ELSE {}

Init ==
  /\ engine = NewEngine
  /\ config \in Configs
  /\ \E s \in {1} \cup Beyond :
       native = [order |-> <<1, 2>>, focus |-> 1,
                 at |-> [w \in Windows |-> s], sa |-> TRUE]
  /\ landing = <<>> /\ minted = 2 /\ user = 0 /\ failed = 0

-----------------------------------------------------------------------------
\* macOS.  A Space that is gone leaves its windows and the focus to another.
Spaces == ToSet(native.order)
Users  == Spaces \ FsSpaces

Rest(order, s) == Chosen(order, {i \in DOMAIN order : order[i] # s})

Removed(nat, s) ==
  LET rest == Rest(nat.order, s)
      heir == Head(SelectSeq(rest, LAMBDA t : t \notin FsSpaces))
  IN  [nat EXCEPT !.order = rest,
                  !.focus = IF @ = s THEN heir ELSE @,
                  !.at = [w \in Windows |-> IF @[w] = s THEN heir ELSE @[w]]]

Reordered(nat, s, t) ==
  LET rest == Rest(nat.order, s)
      i    == SelectInSeq(rest, LAMBDA u : u = t)
  IN  IF {s, t} \subseteq ToSet(nat.order)
      THEN [nat EXCEPT !.order = InsertAt(rest, i + 1, s)] ELSE nat

Appended(nat, s) == [nat EXCEPT !.order = Append(@, s)]

\* execute_sa: refused unless the SA that answered can do it.
ThroughSa(nat) == nat.sa

\* What execute can do now: the SA performs the topology mutations; a window
\* is moved and the focus goes to a Space that exists.
Possible(nat, a) ==
  CASE a.op \in {"create", "destroy", "move"} -> ThroughSa(nat)
    [] OTHER -> a.space \in ToSet(nat.order)

\* Focus and window moves take effect at once, and the last of them counts.
Effect(nat, done) ==
  LET focuses == {i \in DOMAIN done : done[i].op = "focus"}
      sent(w) == {i \in DOMAIN done : done[i].op = "window" /\ done[i].arg = w}
      where(I, old) == IF I = {} THEN old ELSE done[Max(I)].space
  IN  [nat EXCEPT !.focus = where(focuses, @),
                  !.at = [w \in Windows |-> where(sent(w), nat.at[w])]]

\* What the SA has acknowledged and not done yet; a move asked for again
\* while it is pending is the same move.
Acknowledged(done) ==
  landing \o Chosen(done, {i \in DOMAIN done :
    \/ done[i].op \in {"create", "destroy"}
    \/ done[i].op = "move" /\ done[i] \notin ToSet(landing)})

\* execute_tracked: the batch runs until an action fails, the failed action and
\* those after it are reported, and nothing is left to execute.
ExecuteTracked(e) ==
  LET out == e.out
  IN  \E k \in 0 .. Len(out) :
        /\ \A i \in 1 .. k : Possible(native, out[i])
        /\ \/ k = Len(out) /\ UNCHANGED failed
           \/ k < Len(out) /\ ~Possible(native, out[k + 1]) /\ UNCHANGED failed
           \/ k < Len(out) /\ failed < MaxFail /\ failed' = failed + 1
        /\ native' = Effect(native, SubSeq(out, 1, k))
        /\ landing' = Acknowledged(SubSeq(out, 1, k))
        /\ Len(landing') <= MaxLanding
        /\ engine' = [(IF k = Len(out) THEN e
                       ELSE NoteBatchFailed(e, ToSet(SubSeq(out, k + 1, Len(out)))))
                       EXCEPT !.out = <<>>]

-----------------------------------------------------------------------------
\* The daemon.

\* The creation's and the placement's timers outlast what they wait for when
\* macOS is reliable.
Waited(kind) ==
  \E i \in DOMAIN landing :
    \/ kind \in {"creation", "newspace"} /\ landing[i].op = "create"
    \/ kind \in {"placement", "retry"} /\ landing[i].op = "move"

MayExpire == {k \in Running(engine) : Reliable => ~Waited(k)}

Observation(late) ==
  ApplySnapshot(engine,
    [order |-> native.order, focus |-> native.focus, at |-> native.at],
    native.sa, config, late)

Observe(late) ==
  /\ ExecuteTracked(Observation(late))
  /\ UNCHANGED <<config, minted, user>>

Refresh == \E late \in SUBSET MayExpire : Observe(late)

Budget(kind) == kind \in Kinds /\ user < MaxUser /\ user' = user + 1

FocusCommand(n) ==
  /\ engine.synced
  /\ Budget("focus")
  /\ ExecuteTracked(FocusWorkspace(engine, n))
  /\ UNCHANGED <<config, minted>>

MoveCommand(w, n) ==
  /\ engine.synced /\ MayMove(engine, w, n)
  /\ Budget("move")
  /\ ExecuteTracked(MoveWindowToWorkspace(engine, w, n))
  /\ UNCHANGED <<config, minted>>

\* space create and space destroy reserve nothing.
UserDestroy(s) == [Destroy(s) EXCEPT !.arg = ByCommand]

\* A window of another display is sent to a new Space of this one.
NewSpaceCommand(w) ==
  /\ engine.synced /\ engine.obs.at[w] = Elsewhere
  /\ Budget("newspace")
  /\ ExecuteTracked(MoveWindowToNewSpace(engine, w))
  /\ UNCHANGED <<config, minted>>

SpaceCommand(a) ==
  /\ engine.synced
  /\ a.op = "destroy" => a.space \in Observed(engine)
  /\ Budget("space")
  /\ ExecuteTracked(Emit(engine, a))
  /\ UNCHANGED <<config, minted>>

\* reload_config; the observation that follows it is a Refresh.
Reload(new) ==
  /\ engine.synced /\ new # config
  /\ Budget("reload")
  /\ config' = new
  /\ engine' = ReloadConfig(engine, new)
  /\ UNCHANGED <<world, failed>>

-----------------------------------------------------------------------------
\* An acknowledged mutation takes effect; it may find its Space gone, or the
\* last of the display, and then does nothing.
Land(i) ==
  LET a == landing[i]
  IN  /\ landing' = RemoveAt(landing, i)
      /\ CASE a.op = "create" ->
                /\ minted < MaxSpace
                /\ minted' = minted + 1
                /\ native' = Appended(native, minted')
           [] a.op = "destroy" ->
                /\ native' = IF a.space \in Users /\ Users # {a.space}
                             THEN Removed(native, a.space) ELSE native
                /\ UNCHANGED minted
           [] OTHER ->
                /\ native' = Reordered(native, a.space, a.arg)
                /\ UNCHANGED minted
  /\ UNCHANGED <<engine, config, user, failed>>

Drop(i) ==
  /\ ~Reliable \/ (landing[i].op = "create" /\ minted = MaxSpace)
  /\ landing' = RemoveAt(landing, i)
  /\ UNCHANGED <<engine, config, native, minted, user, failed>>

\* One step of the user or of the Dock.
ByUser(kind, nat) ==
  /\ Budget(kind)
  /\ native' = nat
  /\ UNCHANGED <<engine, config, landing, failed>>

UserCreatesSpace ==
  /\ minted < MaxSpace /\ minted' = minted + 1
  /\ ByUser("add", Appended(native, minted + 1))

UserRemovesSpace(s) ==
  /\ s \in Users /\ Users # {s}
  /\ ByUser("remove", Removed(native, s)) /\ UNCHANGED minted

UserReordersSpaces(s, t) ==
  /\ {s, t} \subseteq Users /\ s # t
  /\ ByUser("reorder", Reordered(native, s, t)) /\ UNCHANGED minted

UserFocuses(s) ==
  /\ s \in Spaces
  /\ ByUser("windows", [native EXCEPT !.focus = s]) /\ UNCHANGED minted

\* A window opens, moves to another Space or is not observed.
WindowGoes(w, s) ==
  /\ s \in Spaces \cup Beyond \cup {None}
  /\ ByUser("windows", [native EXCEPT !.at[w] = s]) /\ UNCHANGED minted

EntersFullscreen(w, f) ==
  /\ native.at[w] \in Spaces /\ f \in FsSpaces
  /\ ByUser("fullscreen", [native EXCEPT
       !.order = IF f \in Spaces THEN @ ELSE Append(@, f),
       !.at[w] = f, !.focus = f])
  /\ UNCHANGED minted

LeavesFullscreen(f) ==
  /\ f \in Spaces \cap FsSpaces
  /\ ByUser("fullscreen", Removed(native, f)) /\ UNCHANGED minted

\* The Dock restarts: every ordinary Space gets a new id.
DockRebuilds ==
  LET new == [i \in 1 .. Cardinality(Users) |-> minted + i]
  IN  /\ minted + Cardinality(Users) <= MaxSpace
      /\ minted' = minted + Cardinality(Users)
      /\ ByUser("dock", [native EXCEPT !.order = new, !.focus = new[1],
                               !.at = [w \in Windows |-> IF @[w] = Elsewhere THEN @[w] ELSE new[1]]])

SaChanges == ByUser("sa", [native EXCEPT !.sa = ~@]) /\ UNCHANGED minted

Daemon ==
  \/ Refresh
  \/ \E n \in Names : FocusCommand(n)
  \/ \E w \in Windows, n \in Names : MoveCommand(w, n)
  \/ \E w \in Windows : NewSpaceCommand(w)
  \/ SpaceCommand(Create(ByCommand))
  \/ \E s \in Spaces : SpaceCommand(UserDestroy(s))
  \/ \E new \in Configs : Reload(new)

MacOS ==
  \/ \E i \in DOMAIN landing : Land(i) \/ Drop(i)
  \/ UserCreatesSpace \/ DockRebuilds \/ SaChanges
  \/ \E s \in Spaces : UserRemovesSpace(s) \/ UserFocuses(s)
  \/ \E s, t \in Spaces : UserReordersSpaces(s, t)
  \/ \E w \in Windows, s \in Spaces \cup {None, Elsewhere} : WindowGoes(w, s)
  \/ \E w \in Windows, f \in FsSpaces : EntersFullscreen(w, f)
  \/ \E f \in FsSpaces : LeavesFullscreen(f)

Next == Daemon \/ MacOS
Spec == Init /\ [][Next]_vars

\* The state loop observes for ever (this is WF_vars(Observe(MayExpire)), its
\* ENABLED written out), in time every timer runs out, and what has been
\* acknowledged takes effect.
Quiet == Observation(MayExpire) = engine

FairSpec ==
  /\ Spec
  /\ []<>Quiet \/ []<><<Observe(MayExpire)>>_vars
  /\ WF_vars(landing # <<>> /\ (Land(1) \/ Drop(1)))

-----------------------------------------------------------------------------
SpaceIds == 1 .. MaxSpace \cup FsSpaces
Backings == [active : SpaceIds, restore : SpaceIds \cup {None},
             window : Windows \cup {None}]
States   == [persistent : BOOLEAN, dynamic : BOOLEAN,
             backing : Backings \cup {None}]

\* The engine's registry, queues and reservations have the types of their Rust
\* fields, and between two steps no decided action is left unexecuted.
TypeOK ==
  /\ DOMAIN engine.ws \subseteq Names
  /\ \A n \in DOMAIN engine.ws : engine.ws[n] \in States
  /\ engine.pendingCreations \in Seq(Names)
  /\ engine.pendingFocus \in Seq(Names)
  /\ engine.pendingMove \in Seq([window : Windows, name : Names])
  /\ engine.awaited # None =>
       engine.awaited \in [name : Names, before : SUBSET SpaceIds,
                           uncertain : BOOLEAN]
  /\ engine.pendingDestroy \subseteq [space : SpaceIds, name : Names]
  /\ engine.topologyDestroy \in SpaceIds \cup {None}
  /\ engine.placement # None =>
       engine.placement \in [order : Seq(SpaceIds), asked : {TRUE}]
  /\ engine.grace \subseteq Names
  /\ engine.out = <<>>

\* Creations and destructions are serialized: a creation in flight, the
\* destruction of an empty workspace and the repair of an orphan exclude one
\* another, whatever fails, times out or is rebuilt in between.
TopologyMutex ==
  LET e == engine
  IN  Cardinality(e.pendingDestroy)
      + (IF e.topologyDestroy # None THEN 1 ELSE 0)
      + (IF e.awaited # None THEN 1 ELSE 0) <= 1

\* While no placement is pending, the workspaces on ordinary Spaces stand in
\* Mission Control in the order of their numbers, as far as observed: alt-N and
\* the strip agree after creations, adoptions, removals and reorderings.
Position(order, s) == SelectInSeq(order, LAMBDA t : t = s)

OrderedStrip ==
  engine.placement = None =>
    \A m, n \in DOMAIN engine.ws :
      m < n /\ IsNormal(engine.ws[m]) /\ IsNormal(engine.ws[n]) =>
        Position(engine.obs.order, Active(engine.ws[m]))
          < Position(engine.obs.order, Active(engine.ws[n]))

\* Whatever the user, macOS and failures do: an observation that leaves no
\* placement pending has put in that order the workspaces that were not waiting
\* for a Space of their own (remap_slots and all that apply_event does after it).
StripFollows ==
  [][Refresh /\ engine'.placement = None =>
       \A m, n \in DOMAIN engine'.ws \ Waiting(engine) :
         m < n /\ IsNormal(engine'.ws[m]) /\ IsNormal(engine'.ws[n]) =>
           Position(engine'.obs.order, Active(engine'.ws[m]))
             < Position(engine'.obs.order, Active(engine'.ws[n]))]_vars

\* The mutations this step of the daemon has had acknowledged, and the Spaces
\* that the engine decided to destroy.
Issued == SubSeq(landing', Len(landing) + 1, Len(landing'))
Doomed == {a.space : a \in {b \in ToSet(Issued) : b.op = "destroy" /\ b.arg = None}}

\* Nobody is on the Space, and it is not the last.
Vacant(s) == /\ s # native.focus /\ \A w \in Windows : native.at[w] # s
             /\ Users # {s}

\* A Space the engine destroys, as an empty workspace's or as an orphan, is not
\* focused, holds no window, is not where a fullscreen window returns, is not
\* the last, and shows no workspace but the volatile one that dies with it.
DestroysIdle ==
  [][\A s \in Doomed :
       /\ Vacant(s)
       /\ s \notin RestoreSpaces(engine'.ws)
       /\ \A n \in DOMAIN engine'.ws : Active(engine'.ws[n]) = s =>
            /\ ~engine'.ws[n].persistent
            /\ [space |-> s, name |-> n] \in engine'.pendingDestroy]_vars

\* No Space backs two workspaces, as the one shown or as the one to return to:
\* a remap claims unclaimed Spaces, a fullscreen Space is bound once.
UniqueBacking ==
  \A m, n \in DOMAIN engine.ws :
    m # n =>
      ({Active(engine.ws[m]), Restore(engine.ws[m])} \cap
       {Active(engine.ws[n]), Restore(engine.ws[n])}) \subseteq {None}

\* A creation that is not confirmed and a placement that is not observed are
\* given up: neither holds the topology for ever, even if macOS drops what it
\* acknowledged.
NeverWedged ==
  /\ []<>(engine.awaited # None => ~engine.awaited.uncertain)
  /\ []<>(engine.placement = None)
  /\ []<>(engine.pendingNewSpace = <<>>)

\* When commands and windows come to rest and the SA stays up, so does the
\* topology: every persistent workspace has a Space that exists, a window's
\* Space has a workspace as long as there is a number for it, and no reservation
\* and no intent is left.
Settled ==
  /\ engine.awaited = None /\ engine.placement = None
  /\ engine.pendingNewSpace = <<>>
  /\ engine.pendingDestroy = {} /\ engine.topologyDestroy = None
  /\ engine.pendingCreations = <<>>
  /\ \A n \in DOMAIN config : config[n] => BackingFor(engine.ws, n) \in Spaces
  /\ \A w \in Windows : native.at[w] \in Users =>
       native.at[w] \in Claimed(engine.ws) \/ MaxName \in DOMAIN engine.ws

Converges == <>[](native.sa /\ minted < MaxSpace) => <>[]Settled

\* "successful destroys stand until the Space is proven gone (prevents double
\* destruction)" (engine.rs:642-644): the engine's destruction of a Space is not
\* asked for again while the first one is on its way, whatever fails after it.
\* A failing space destroy command is the exception.
NoDoubleDestroy ==
  \A i, j \in DOMAIN landing :
    landing[i].op = "destroy" /\ landing[i].arg = None
    /\ landing[j] = landing[i] => i = j

-----------------------------------------------------------------------------
\* What comments and documents say and the code does not keep.

\* "a delayed successful creation keeps its reservation and can never be
\* duplicated by this path": no second Space is asked for one workspace while
\* the first is on its way.
NoDoubleCreate ==
  \A i, j \in DOMAIN landing :
    landing[i].op = "create" /\ landing[i].arg # ByCommand
    /\ landing[j] = landing[i] => i = j

\* "persistent workspaces recreate missing spaces": a workspace the
\* configuration declares persistent stays in the registry.
PersistentKept ==
  engine.synced => \A n \in DOMAIN config : config[n] => n \in DOMAIN engine.ws

\* "Pending destroys always resolve within a cycle or two ... this gate cannot
\* wedge": the reservation of an empty workspace's destruction is released.
DestroyResolves == engine.pendingDestroy # {} ~> engine.pendingDestroy = {}
=============================================================================
