---------------------------- MODULE Persistence ----------------------------
(***************************************************************************)
(* What the daemon remembers (rovr-core/src/engine.rs save_state,          *)
(* load_state, apply_remap_moves, reload_config; persistence.rs): the      *)
(* layout tree of each Space, the trees that wait under the name of a      *)
(* workspace for its next Space, and the file that holds both across       *)
(* crashes, power losses and restarts that find other Space ids.           *)
(*                                                                         *)
(* One display is modelled, of several: it may be unplugged.  A tree is    *)
(* the number of the command that last arranged it, 0 for the tree a Space *)
(* gets by itself; every Space holds a window, so every observed Space has *)
(* a tree.  The creation protocol is the matter of Workspaces: here a      *)
(* workspace that waits for a Space may be given any new Space.            *)
(***************************************************************************)
EXTENDS WorkspaceRegistry, SequencesExt

CONSTANTS
  SpaceIds,     \* ordinary Spaces, ordered; 0 is the fullscreen one
  FirstStrip,   \* the Spaces of the display at first, in their order
  Configs,      \* the configurations a reload may bring: names, persistent or not
  FirstConfig,
  MaxChanges,   \* bound on what users and macOS do of themselves
  MaxTrees,     \* bound on the commands that arrange a tree
  MaxFaults     \* bound on failed saves and on the daemon's ends

Fullscreen == 0
Torn   == [kind |-> "torn"]
NoFile == [kind |-> "none"]

ASSUME PersistenceAssumption ==
  /\ SpaceIds \subseteq Nat \ {0} /\ IsFiniteSet(SpaceIds)
  /\ FirstStrip \in Seq(SpaceIds) /\ IsInjective(FirstStrip)
  /\ FirstConfig \in Configs /\ \A c \in Configs : DOMAIN c \subseteq Nat
  /\ None \notin SpaceIds \cup {Fullscreen} \cup Seq(SpaceIds)
  /\ None \notin [active : SpaceIds \cup {Fullscreen},
                  restore : SpaceIds \cup {None}, window : {None}]
  /\ MaxChanges \in Nat /\ MaxTrees \in Nat /\ MaxFaults \in Nat

VARIABLES
  strip, full,   \* macOS: the ordinary Spaces; the Space a fullscreen window left
  config,
  pc,            \* the daemon: "down", "idle" or a step of save_state
  obs,           \* observed; obs.strip = None: no complete observation yet
  ws, layouts,   \* the registry, and the trees of Spaces
  parked,        \* restored_workspace_layouts
  queued,        \* workspaces with a creation pending or awaited
  tmp, file,     \* the files, as a process sees them
  survivors,     \* what a power loss may leave of file
  trying,        \* what save_state is writing
  saved, tried,  \* history: the last save that succeeded, and attempts since
  trees, changes, faults

world  == <<strip, full>>
engine == <<obs, ws, layouts, parked, queued>>
disk   == <<tmp, file, survivors, trying, saved, tried>>
bounds == <<trees, changes, faults>>
vars   == <<world, config, pc, engine, disk, bounds>>

Blind == [strip |-> None, full |-> None]

Init ==
  /\ strip = FirstStrip /\ full = None
  /\ config = FirstConfig
  /\ pc = "down" /\ obs = Blind
  /\ ws = <<>> /\ layouts = <<>> /\ parked = <<>> /\ queued = {}
  /\ tmp = [content |-> NoFile, synced |-> TRUE]
  /\ file = NoFile /\ survivors = {NoFile} /\ trying = NoFile
  /\ saved = NoFile /\ tried = {}
  /\ trees = 0 /\ changes = 0 /\ faults = 0

---------------------------------------------------------------------------
(* macOS and the user. *)

\* save_state looks at neither, so nothing is lost by not moving under it.
World == /\ pc \in {"down", "idle", "reload"}
         /\ changes < MaxChanges /\ changes' = changes + 1
         /\ UNCHANGED <<config, pc, engine, disk, trees, faults>>

AddSpace ==
  /\ World /\ strip # <<>>
  /\ \E s \in SpaceIds \ ToSet(strip) :
       strip' = Append(strip, s) /\ UNCHANGED full

RemoveSpace ==
  /\ World /\ Len(strip) > 1
  /\ \E i \in DOMAIN strip : strip' = RemoveAt(strip, i) /\ UNCHANGED full

Reorder ==
  /\ World /\ Len(strip) > 1
  /\ strip' = Reverse(strip) /\ UNCHANGED full

\* The Dock, or a display plugged in again, brings Spaces with other ids.
Rebuild ==
  /\ World /\ full = None
  /\ \E S \in SUBSET (SpaceIds \ ToSet(strip)) \ {{}} :
       strip' \in SetToSeqs(S)
  /\ UNCHANGED full

Unplug == /\ World /\ strip # <<>>
          /\ strip' = <<>> /\ full' = None

GoFullscreen ==
  /\ World /\ full = None
  /\ \E s \in ToSet(strip) : full' = s
  /\ UNCHANGED strip

LeaveFullscreen == /\ World /\ full # None
                   /\ full' = None /\ UNCHANGED strip

---------------------------------------------------------------------------
(* One complete observation (apply_event): the registry changes, and the   *)
(* trees follow it.  m is what the engine holds: [ws, layouts, parked,     *)
(* queued].                                                                *)

Memory == [ws |-> ws, layouts |-> layouts, parked |-> parked, queued |-> queued]

\* No Space of the observation before is left.
IsReset(old, new) ==
  /\ old.strip \notin {None, <<>>} /\ new.strip # <<>>
  /\ ToSet(old.strip) \cap ToSet(new.strip) = {}

Seen(o) == IF o.strip = None THEN {}
           ELSE ToSet(o.strip) \cup (IF o.full = None THEN {} ELSE {Fullscreen})

\* The set of displays changed: names of the configuration are added, and the
\* workspaces of a display that is gone go.
SyncDisplays(m, old, new) ==
  IF new.strip = <<>> THEN [m EXCEPT !.ws = <<>>]
  ELSE IF old.strip \in {None, <<>>}
  THEN [m EXCEPT !.ws = SyncConfig(@, config, FALSE)]
  ELSE m

\* A workspace goes fullscreen with its window, and returns to its Space, if
\* that is still there.
ReconcileFullscreen(m, old, new) ==
  LET back(b) == IF b.restore \in ToSet(new.strip) THEN Normal(b.restore) ELSE None
      next(b) ==
        IF b = None THEN b
        ELSE IF b.restore # None THEN IF new.full = None THEN back(b) ELSE b
        ELSE IF /\ new.full = b.active /\ old.full = None /\ b.active \in Seen(old)
             THEN FullscreenReplacement(Fullscreen, b.active, None)
        ELSE b
  IN  [m EXCEPT !.ws = [n \in DOMAIN m.ws |-> [m.ws[n] EXCEPT !.backing = next(@)]]]

Lost(m, new) ==
  {n \in DOMAIN m.ws : Active(m.ws[n]) \notin Seen(new) \cup {None}}

\* remove_workspace.
RemoveWorkspaces(m, S) ==
  [m EXCEPT !.layouts = Without(@, {Active(m.ws[n]) : n \in S}),
            !.parked  = Without(@, S),
            !.queued  = @ \ S,
            !.ws      = Without(@, S)]

\* Mutants of ClearStaleBackings: the tree stays where it was; it is copied.
ClearStaleUnparked(m, S) ==
  [m EXCEPT !.queued = @ \cup S,
            !.ws = [n \in DOMAIN @ |-> IF n \in S THEN [@[n] EXCEPT !.backing = None]
                                       ELSE @[n]]]
ClearStaleCopied(m, S) ==
  LET had == {n \in S : Active(m.ws[n]) \in DOMAIN m.layouts}
  IN  [ClearStaleUnparked(m, S) EXCEPT
         !.parked = Over([n \in had |-> m.layouts[Active(m.ws[n])]], @)]

\* clear_stale_backing of each: its tree is parked under its name, and a new
\* Space is requested.
ClearStaleBackings(m, S) ==
  LET had == {n \in S : Active(m.ws[n]) \in DOMAIN m.layouts}
  IN  [m EXCEPT
         !.parked  = Over([n \in had |-> m.layouts[Active(m.ws[n])]], @),
         !.layouts = Without(@, {Active(m.ws[n]) : n \in S}),
         !.queued  = @ \cup S,
         !.ws = [n \in DOMAIN @ |-> IF n \in S THEN [@[n] EXCEPT !.backing = None]
                                    ELSE @[n]]]

\* A volatile workspace goes with its Space, a persistent one waits for
\* another, and when every Space changed all keep what they have.
RetireLost(m, old, new) ==
  LET lost == Lost(m, new)
      volatile == {n \in lost : ~m.ws[n].persistent}
  IN  IF IsReset(old, new) THEN m
      ELSE ClearStaleBackings(RemoveWorkspaces(m, volatile), lost \ volatile)

\* bound: a queued workspace and the Space it is given, or None.
BindAwaited(m, bound) ==
  IF bound = None THEN m
  ELSE [m EXCEPT !.ws[bound.name].backing = Normal(bound.space),
                 !.queued = @ \ {bound.name}]

\* Workspaces with a creation pending take no Space, and Spaces that are not
\* adopted yet are taken by none.
RemapSlots(m, o, external) ==
  [m EXCEPT !.ws = Over(RemapAfterSnapshot(Without(@, m.queued), o.strip,
                                           ToSet(o.strip) \ external), @)]

\* Mutant of ApplyRemapMoves: trees stay with the ids of Spaces.
ApplyNoMoves(m, was, new) == m

\* The tree of a Space that is gone goes with its workspace, to the new Space
\* or under the name.
ApplyRemapMoves(m, was, new) ==
  LET from(n) == Active(was[n])
      moved == {n \in Moved(was, m.ws) : from(n) \in DOMAIN m.layouts \ Seen(new)}
      homed == {n \in moved : Active(m.ws[n]) # None}
      to    == {Active(m.ws[n]) : n \in homed}
      mover(s) == CHOOSE n \in homed : Active(m.ws[n]) = s
  IN  [m EXCEPT
         !.layouts = Over([s \in to |-> m.layouts[from(mover(s))]],
                          Without(@, {from(n) : n \in moved})),
         !.parked  = Over([n \in moved \ homed |-> m.layouts[from(n)]], @)]

\* A parked tree goes to the Space its workspace has now.
Reattach(m) ==
  LET homed == {n \in DOMAIN m.parked : BackingFor(m.ws, n) # None}
      to    == {Active(m.ws[n]) : n \in homed}
      owner(s) == CHOOSE n \in homed : Active(m.ws[n]) = s
  IN  [m EXCEPT !.layouts = Over([s \in to |-> m.parked[owner(s)]], @),
                !.parked  = Without(@, homed)]

\* ensure_persistent, and the trees apply_layout gives to Spaces without one.
Settle(m, o) ==
  [m EXCEPT !.queued  = @ \cup EnsurePersistent(m.ws),
            !.layouts = Over(@, [s \in ToSet(o.strip) |-> 0])]

Before(m, o, bound) ==
  BindAwaited(RetireLost(ReconcileFullscreen(SyncDisplays(m, obs, o), obs, o), obs, o), bound)

\* Binding reserves the logical order, and nothing is remapped before the Spaces
\* are in it.
InOrder(m, o) ==
  \A n, k \in DOMAIN m.ws :
    n < k /\ IsNormal(m.ws[n]) /\ IsNormal(m.ws[k]) =>
      SelectInSeq(o.strip, LAMBDA s : s = Active(m.ws[n]))
        < SelectInSeq(o.strip, LAMBDA s : s = Active(m.ws[k]))

\* placing: a reorder of ours is under way, and nothing is remapped.
After(m, o, external, placing) ==
  Settle(Reattach(IF placing THEN m
                  ELSE ApplyRemapMoves(RemapSlots(m, o, external), m.ws, o)), o)

SetMemory(m) ==
  /\ ws' = m.ws /\ layouts' = m.layouts /\ parked' = m.parked /\ queued' = m.queued

Observe ==
  LET now == [strip |-> strip, full |-> full]
      m0  == Before(Memory, now, None)
      free == ToSet(strip) \ Claimed(m0.ws)
  IN  /\ pc \in {"idle", "reload"}
      /\ pc' = IF pc = "reload" THEN "save" ELSE pc
      /\ \E bound \in {None} \cup [name : queued \cap DOMAIN m0.ws, space : free \ Seen(obs)],
            external \in SUBSET free, placing \in BOOLEAN,
            stale \in SUBSET (m0.queued \ DOMAIN m0.ws) :
           /\ placing => ~IsReset(obs, now) /\ obs # Blind
           /\ obs = Blind => external = {}
           /\ bound # None => /\ ~IsReset(obs, now) /\ bound.space \notin external
                              /\ placing \/ InOrder(Before(Memory, now, bound), now)
           /\ LET m == After(Before(Memory, now, bound), now, external, placing)
              IN  SetMemory([m EXCEPT !.queued = @ \ stale])
      /\ obs' = now
      /\ UNCHANGED <<world, config, disk, bounds>>

---------------------------------------------------------------------------
(* Saving. *)

\* The trees of workspaces go under their names; a workspace in fullscreen
\* owns the tree of the Space it returns to.
HomeOf(n) == IF Restore(ws[n]) # None THEN Restore(ws[n]) ELSE Active(ws[n])

\* Mutant of Persisted: trees go by the Space that is shown.
PersistedByActive ==
  LET owners == {n \in DOMAIN ws : Active(ws[n]) \in DOMAIN layouts}
  IN  [kind |-> "state",
       layouts |-> Without(layouts, {Active(ws[n]) : n \in owners}),
       named |-> Over([n \in owners |-> layouts[Active(ws[n])]], parked),
       ws |-> [n \in DOMAIN ws |-> [ws[n] EXCEPT !.backing = None]]]

Persisted ==
  LET owners == {n \in DOMAIN ws : HomeOf(n) \in DOMAIN layouts}
  IN  [kind |-> "state",
       layouts |-> Without(layouts, {HomeOf(n) : n \in owners}),
       named |-> [n \in owners \cup DOMAIN parked |->
                    IF n \in owners THEN layouts[HomeOf(n)] ELSE parked[n]],
       ws |-> [n \in DOMAIN ws |-> [ws[n] EXCEPT !.backing = None]]]

\* save_state begins with the temporary file, cut to nothing.
Create ==
  /\ pc = "save"
  /\ trying' = Persisted /\ tried' = tried \cup {trying'}
  /\ tmp' = [content |-> Torn, synced |-> FALSE]
  /\ pc' = "created"
  /\ UNCHANGED <<world, config, engine, file, survivors, saved, bounds>>

Write ==
  /\ pc = "created"
  /\ tmp' = [content |-> trying, synced |-> FALSE]
  /\ pc' = "written"
  /\ UNCHANGED <<world, config, engine, file, survivors, trying, saved, tried, bounds>>

\* Mutant of Sync: the data is left to the cache.
SyncNothing ==
  /\ pc = "written" /\ pc' = "synced"
  /\ UNCHANGED <<world, config, engine, disk, bounds>>
Sync ==
  /\ pc = "written"
  /\ tmp' = [tmp EXCEPT !.synced = TRUE]
  /\ pc' = "synced"
  /\ UNCHANGED <<world, config, engine, file, survivors, trying, saved, tried, bounds>>

\* The rename is seen at once; a power loss may undo it, and finds the new
\* content whole only if it was synced.
Rename ==
  /\ pc = "synced"
  /\ file' = tmp.content
  /\ survivors' = survivors \cup {file'} \cup (IF tmp.synced THEN {} ELSE {Torn})
  /\ tmp' = [content |-> NoFile, synced |-> TRUE]
  /\ pc' = "renamed"
  /\ UNCHANGED <<world, config, engine, trying, saved, tried, bounds>>

SyncDir ==
  /\ pc = "renamed"
  /\ survivors' = {file}
  /\ saved' = file /\ tried' = {} /\ trying' = NoFile
  /\ pc' = "idle"
  /\ UNCHANGED <<world, config, engine, tmp, file, bounds>>

\* A step of it fails: save_state returns, persist_state only logs.
SaveFails ==
  /\ pc \in {"save", "created", "written", "synced", "renamed"}
  /\ faults < MaxFaults /\ faults' = faults + 1
  /\ pc' = "idle" /\ trying' = NoFile
  /\ UNCHANGED <<world, config, engine, tmp, file, survivors, saved, tried, trees, changes>>

---------------------------------------------------------------------------
(* Commands, and the daemon's life. *)

\* A layout command rewrites the tree of a Space, and saves.
Arrange ==
  /\ pc = "idle" /\ trees < MaxTrees
  /\ \E s \in DOMAIN layouts \cap ToSet(IF obs = Blind THEN <<>> ELSE obs.strip) :
       layouts' = [layouts EXCEPT ![s] = trees + 1]
  /\ trees' = trees + 1
  /\ pc' = "save"
  /\ UNCHANGED <<world, config, obs, ws, parked, queued, disk, changes, faults>>

\* Workspaces the configuration drops take their trees with them, but the tree
\* of a Space another workspace has taken over stays with the Space.
Reload ==
  /\ pc = "idle" /\ obs # Blind
  /\ changes < MaxChanges /\ changes' = changes + 1
  /\ \E c \in Configs \ {config}, placing \in BOOLEAN,
       external \in SUBSET (ToSet(obs.strip) \ Claimed(ws)) :
       LET synced == [Memory EXCEPT !.ws = IF obs.strip = <<>> THEN <<>>
                                            ELSE SyncConfig(ws, c, TRUE)]
           remapped == IF placing THEN synced ELSE RemapSlots(synced, obs, external)
           dead == DOMAIN ws \ DOMAIN remapped.ws
           gone == {Active(ws[n]) : n \in dead} \ Claimed(remapped.ws)
       IN  /\ config' = c
           /\ SetMemory([remapped EXCEPT !.layouts = Without(@, gone),
                                         !.parked  = Without(@, dead)])
  /\ pc' = "reload"
  /\ UNCHANGED <<world, obs, disk, trees, faults>>

\* The observation that follows a reload fails, and nothing is saved.
ReloadFails ==
  /\ pc = "reload" /\ pc' = "idle"
  /\ UNCHANGED <<world, config, engine, disk, bounds>>

\* The state a daemon starts from: no Space is remembered as a workspace's.
Load ==
  /\ pc = "down"
  /\ obs' = Blind /\ queued' = {}
  /\ LET c == file
         fresh == c.kind # "state"
     IN  /\ ws'      = IF fresh THEN <<>> ELSE c.ws
         /\ layouts' = IF fresh THEN <<>> ELSE c.layouts
         /\ parked'  = IF fresh THEN <<>> ELSE c.named
  /\ pc' = "idle"
  /\ UNCHANGED <<world, config, disk, bounds>>

Stop == /\ pc # "down" /\ faults < MaxFaults
        /\ faults' = faults + 1
        /\ pc' = "down" /\ trying' = NoFile
        /\ obs' = Blind /\ ws' = <<>> /\ layouts' = <<>> /\ parked' = <<>> /\ queued' = {}

\* A signal: the state loop saves, and leaves (which is Crash).
Shutdown == /\ pc = "idle" /\ faults + 1 < MaxFaults
            /\ faults' = faults + 1
            /\ pc' = "save"
            /\ UNCHANGED <<world, config, engine, disk, trees, changes>>

Crash == /\ Stop
         /\ UNCHANGED <<world, config, tmp, file, survivors, saved, tried, trees, changes>>

\* Everything not synced may be lost, and macOS comes back with the ids it likes.
PowerLoss ==
  /\ Stop
  /\ \E c \in survivors : file' = c /\ survivors' = {c}
  /\ tmp' = [content |-> NoFile, synced |-> TRUE]
  /\ full' = None
  /\ strip' \in {strip, Reverse(strip)}
  /\ UNCHANGED <<config, saved, tried, trees, changes>>

Next ==
  \/ AddSpace \/ RemoveSpace \/ Reorder \/ Rebuild \/ Unplug
  \/ GoFullscreen \/ LeaveFullscreen
  \/ Observe \/ Arrange \/ Reload \/ ReloadFails
  \/ Create \/ Write \/ Sync \/ Rename \/ SyncDir \/ SaveFails
  \/ Load \/ Shutdown \/ Crash \/ PowerLoss

Spec == Init /\ [][Next]_vars

---------------------------------------------------------------------------
(* Properties. *)

Trees == 0 .. MaxTrees

\* Every variable has the shape the code gives it.
TypeOK ==
  /\ strip \in Seq(SpaceIds) /\ full \in SpaceIds \cup {None}
  /\ pc \in {"down", "idle", "reload", "save", "created", "written", "synced", "renamed"}
  /\ DOMAIN layouts \subseteq SpaceIds \cup {Fullscreen} /\ Range(layouts) \subseteq Trees
  /\ Range(parked) \subseteq Trees
  /\ queued \cup DOMAIN ws \subseteq UNION {DOMAIN c : c \in Configs}

\* save_state: "a crash or power loss mid-save must never truncate the live
\* state file": whatever happens, a restart finds the last state that was saved
\* or a later one whose save was under way or failed at the very end, whole.
SavedOrSaving == survivors \cup {file} \subseteq {saved} \cup tried

\* An arrangement the user made is in one place: one Space's tree, or parked
\* under one name.
OneHome ==
  /\ \A s, t \in DOMAIN layouts : layouts[s] = layouts[t] => layouts[s] = 0 \/ s = t
  /\ \A n, o \in DOMAIN parked : parked[n] = parked[o] => parked[n] = 0 \/ n = o
  /\ Range(layouts) \cap Range(parked) \subseteq {0}

\* The tree of a workspace, wherever it is.
TreeOf(w, l, p, n) ==
  LET home == IF Restore(w[n]) # None THEN Restore(w[n]) ELSE Active(w[n])
  IN  IF home \in DOMAIN l THEN l[home] ELSE IF n \in DOMAIN p THEN p[n] ELSE None

Own(n) == TreeOf(ws, layouts, parked, n)

\* save_state: "workspace-owned trees are persisted under the stable workspace
\* name so they survive SpaceId churn": what a restart will park for a workspace
\* is its tree, and no Space keeps a second one, in fullscreen too.
SavesEveryTree ==
  pc = "created" =>
    \A n \in DOMAIN ws : Own(n) # None =>
      /\ n \in DOMAIN trying.named /\ trying.named[n] = Own(n)
      /\ HomeOf(n) \notin DOMAIN trying.layouts

\* apply_remap_moves, clear_stale_backing: an observation that finds a Space
\* gone moves its tree with its workspace, to another Space or under its name;
\* the tree of a Space that is still there stays, whoever has the Space now,
\* unless a tree comes home.  (A workspace in fullscreen is left out.)
TreesStay ==
  [][obs' # Blind /\ pc' # "reload" =>
       /\ \A n \in DOMAIN ws \cap DOMAIN ws' :
            ~IsFullscreen(ws[n]) /\ HomeOf(n) \notin Seen(obs') =>
              Own(n) = None \/ TreeOf(ws', layouts', parked', n) \in
                {Own(n)} \cup (IF n \in DOMAIN parked THEN {parked[n]} ELSE {})
       /\ \A s \in DOMAIN layouts \cap Seen(obs) \cap Seen(obs') :
            \/ trees' # trees \/ s \notin Claimed(ws')
            \/ \E n \in DOMAIN parked : BackingFor(ws', n) = s
            \/ layouts'[s] = layouts[s]]_vars

=============================================================================
