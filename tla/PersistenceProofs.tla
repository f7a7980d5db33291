------------------------- MODULE PersistenceProofs -------------------------
(***************************************************************************)
(* Theorems about Persistence, for any Spaces, configurations and bounds.  *)
(***************************************************************************)
EXTENDS Persistence, FiniteSetTheorems, SequenceTheorems, TLAPS

\* The steps that leave the files and save_state alone.
Elsewhere ==
  \/ AddSpace \/ RemoveSpace \/ Reorder \/ Rebuild \/ Unplug
  \/ GoFullscreen \/ LeaveFullscreen
  \/ Observe \/ Arrange \/ Reload \/ ReloadFails \/ Load \/ Shutdown

Saving == {"created", "written", "synced"}

LEMMA ElsewhereIsElsewhere ==
  ASSUME Elsewhere
  PROVE  pc \notin Saving /\ pc' \notin Saving /\ UNCHANGED disk
<1>1. CASE AddSpace \/ RemoveSpace \/ Reorder \/ Rebuild \/ Unplug \/ GoFullscreen \/ LeaveFullscreen
  BY <1>1 DEF AddSpace, RemoveSpace, Reorder, Rebuild, Unplug, GoFullscreen, LeaveFullscreen,
    World, Saving
<1>2. CASE Observe
  <2>1. UNCHANGED disk /\ pc \in {"idle", "reload"} /\ pc' \in {pc, "save"}
    BY <1>2 DEF Observe
  <2> QED BY <2>1 DEF Saving
<1>3. CASE Arrange \/ ReloadFails \/ Load \/ Shutdown
  BY <1>3 DEF Arrange, ReloadFails, Load, Shutdown, Saving
<1>4. CASE Reload
  BY <1>4 DEF Reload, Saving
<1> QED BY <1>1, <1>2, <1>3, <1>4 DEF Elsewhere

-----------------------------------------------------------------------------
(* What a power loss may find was saved, or an attempt since; the file that  *)
(* is renamed into place is the attempt, whole and synced.                   *)

FilesWhole == survivors \cup {file} \subseteq {saved} \cup tried

TmpWhole ==
  /\ pc \in Saving  => trying \in tried
  /\ pc = "written" => tmp = [content |-> trying, synced |-> FALSE]
  /\ pc = "synced"  => tmp = [content |-> trying, synced |-> TRUE]

LEMMA InitWhole == ASSUME Init PROVE FilesWhole /\ TmpWhole
  BY DEF Init, FilesWhole, TmpWhole, Saving

LEMMA NextWhole ==
  ASSUME FilesWhole, TmpWhole, [Next]_vars
  PROVE  FilesWhole' /\ TmpWhole'
<1>1. CASE Elsewhere
  BY <1>1, ElsewhereIsElsewhere DEF FilesWhole, TmpWhole, disk, Saving
<1>2. CASE Create
  BY <1>2 DEF Create, FilesWhole, TmpWhole, Saving
<1>3. CASE Write
  BY <1>3 DEF Write, FilesWhole, TmpWhole, Saving
<1>4. CASE Sync
  <2>1. tmp = [content |-> trying, synced |-> FALSE]
    BY <1>4 DEF Sync, TmpWhole
  <2>2. tmp' = [content |-> trying, synced |-> TRUE]
    BY <1>4, <2>1 DEF Sync
  <2> QED BY <1>4, <2>2 DEF Sync, FilesWhole, TmpWhole, Saving
<1>5. CASE Rename
  <2>1. tmp = [content |-> trying, synced |-> TRUE] /\ trying \in tried
    BY <1>5 DEF Rename, TmpWhole, Saving
  <2>2. file' = trying /\ survivors' = survivors \cup {trying}
    BY <1>5, <2>1 DEF Rename
  <2> QED BY <1>5, <2>1, <2>2 DEF Rename, FilesWhole, TmpWhole, Saving
<1>6. CASE SyncDir \/ SaveFails
  BY <1>6 DEF SyncDir, SaveFails, FilesWhole, TmpWhole, Saving
<1>7. CASE Crash \/ PowerLoss
  <2>1. pc' = "down" /\ UNCHANGED <<saved, tried>>
    BY <1>7 DEF Crash, PowerLoss, Stop
  <2>2. survivors' \cup {file'} \subseteq survivors \cup {file}
    BY <1>7 DEF Crash, PowerLoss
  <2> QED BY <2>1, <2>2 DEF FilesWhole, TmpWhole, Saving
<1>8. CASE UNCHANGED vars
  BY <1>8 DEF vars, disk, FilesWhole, TmpWhole
<1> QED
  BY <1>1, <1>2, <1>3, <1>4, <1>5, <1>6, <1>7, <1>8 DEF Next, Elsewhere

\* Wherever the daemon or the machine stops, a restart finds the last state that
\* was saved or a later one, whole (save_state: write, sync, rename).
THEOREM SavedOrSavingHolds == Spec => []SavedOrSaving
<1>1. Init => FilesWhole /\ TmpWhole
  BY InitWhole
<1>2. FilesWhole /\ TmpWhole /\ [Next]_vars => FilesWhole' /\ TmpWhole'
  BY NextWhole
<1>3. FilesWhole => SavedOrSaving
  BY DEF FilesWhole, SavedOrSaving
<1> QED BY <1>1, <1>2, <1>3, PTL DEF Spec

-----------------------------------------------------------------------------
(* What is written is what the engine holds: it cannot change under          *)
(* save_state.                                                               *)

WritesMemory == pc = "created" => trying = Persisted

LEMMA NextWrites == ASSUME WritesMemory, [Next]_vars PROVE WritesMemory'
<1>1. CASE Create
  <2>1. trying' = Persisted /\ UNCHANGED <<ws, layouts, parked>>
    BY <1>1 DEF Create, engine
  <2> QED BY <2>1 DEF WritesMemory, Persisted, HomeOf
<1>2. CASE Elsewhere
  BY <1>2, ElsewhereIsElsewhere DEF WritesMemory, Saving
<1>3. CASE Write \/ Sync \/ Rename \/ SyncDir \/ SaveFails \/ Crash \/ PowerLoss
  BY <1>3 DEF Write, Sync, Rename, SyncDir, SaveFails, Crash, PowerLoss, Stop, WritesMemory
<1>4. CASE UNCHANGED vars
  BY <1>4 DEF vars, engine, disk, WritesMemory, Persisted, HomeOf
<1> QED BY <1>1, <1>2, <1>3, <1>4 DEF Next, Elsewhere

\* A workspace that has a tree, in memory or parked, is saved with it under its
\* name, and its Space with none.
LEMMA PersistedHasEveryTree ==
  ASSUME NEW n \in DOMAIN ws, Own(n) # None
  PROVE  /\ n \in DOMAIN Persisted.named /\ Persisted.named[n] = Own(n)
         /\ HomeOf(n) \notin DOMAIN Persisted.layouts
<1> DEFINE owners == {o \in DOMAIN ws : HomeOf(o) \in DOMAIN layouts}
<1>1. Persisted.named = [o \in owners \cup DOMAIN parked |->
                           IF o \in owners THEN layouts[HomeOf(o)] ELSE parked[o]]
  BY DEF Persisted
<1>2. Persisted.layouts = Without(layouts, {HomeOf(o) : o \in owners})
  BY DEF Persisted
<1>3. Own(n) = IF HomeOf(n) \in DOMAIN layouts THEN layouts[HomeOf(n)]
               ELSE IF n \in DOMAIN parked THEN parked[n] ELSE None
  BY DEF Own, TreeOf, HomeOf
<1>4. n \in DOMAIN Persisted.named /\ Persisted.named[n] = Own(n)
  <2>1. CASE HomeOf(n) \in DOMAIN layouts
    BY <1>1, <1>3, <2>1
  <2>2. CASE HomeOf(n) \notin DOMAIN layouts
    BY <1>1, <1>3, <2>2
  <2> QED BY <2>1, <2>2
<1>5. HomeOf(n) \notin DOMAIN Persisted.layouts
  BY <1>2 DEF Without
<1> QED BY <1>4, <1>5

\* What a restart will park for a workspace is its tree, and no Space keeps a
\* second one (save_state), for any registry, trees and fullscreen Spaces.
THEOREM SavesEveryTreeHolds == Spec => []SavesEveryTree
<1>1. Init => WritesMemory
  BY DEF Init, WritesMemory
<1>2. WritesMemory /\ [Next]_vars => WritesMemory'
  BY NextWrites
<1>3. WritesMemory => SavesEveryTree
  BY PersistedHasEveryTree DEF WritesMemory, SavesEveryTree
<1> QED BY <1>1, <1>2, <1>3, PTL DEF Spec

-----------------------------------------------------------------------------
(* The registry: no Space backs two workspaces, as the one shown or as the   *)
(* one to return to.                                                         *)

Distinct(q) == q \in Seq(SpaceIds) /\ IsInjective(q)

NormalBackings     == [active : SpaceIds, restore : {None}, window : {None}]
FullscreenBackings == [active : {Fullscreen}, restore : SpaceIds, window : {None}]

Typed(st) ==
  /\ DOMAIN st = {"persistent", "dynamic", "backing"}
  /\ st.backing \in {None} \cup NormalBackings \cup FullscreenBackings

Homes(st) == {Active(st), Restore(st)} \ {None}

\* w: a registry; q: workspaces that wait for a Space.
Registry(w, q) ==
  /\ DOMAIN w \subseteq Nat
  /\ \A n \in DOMAIN w : Typed(w[n])
  /\ \A m, n \in DOMAIN w : m # n => Homes(w[m]) \cap Homes(w[n]) = {}
  /\ \A n \in DOMAIN w \cap q : w[n].backing = None

LEMMA NoneIsNone ==
  /\ None \notin SpaceIds /\ None # Fullscreen /\ None \notin Seq(SpaceIds)
  /\ None \notin NormalBackings /\ None \notin FullscreenBackings
  /\ Fullscreen \notin SpaceIds
<1>1. NormalBackings \cup FullscreenBackings \subseteq
        [active : SpaceIds \cup {Fullscreen}, restore : SpaceIds \cup {None}, window : {None}]
  BY DEF NormalBackings, FullscreenBackings
<1> QED BY <1>1, PersistenceAssumption DEF Fullscreen

\* A workspace waits, is on an ordinary Space or on the fullscreen one.
LEMMA TypedIs ==
  ASSUME NEW st, Typed(st)
  PROVE  \/ /\ st.backing = None /\ Active(st) = None /\ Restore(st) = None
            /\ Homes(st) = {} /\ ~IsNormal(st) /\ ~IsFullscreen(st)
         \/ /\ st.backing \in NormalBackings /\ st.backing # None
            /\ Active(st) \in SpaceIds /\ Restore(st) = None
            /\ Homes(st) = {Active(st)} /\ IsNormal(st) /\ ~IsFullscreen(st)
         \/ /\ st.backing \in FullscreenBackings /\ st.backing # None
            /\ Active(st) = Fullscreen /\ Restore(st) \in SpaceIds
            /\ Homes(st) = {Fullscreen, Restore(st)} /\ ~IsNormal(st) /\ IsFullscreen(st)
<1>1. CASE st.backing = None
  BY <1>1 DEF Active, Restore, Homes, IsNormal, IsFullscreen
<1>2. CASE st.backing \in NormalBackings
  <2>1. /\ st.backing # None /\ st.backing.active \in SpaceIds /\ st.backing.restore = None
    BY <1>2, NoneIsNone DEF NormalBackings
  <2>2. Active(st) \in SpaceIds /\ Restore(st) = None /\ IsNormal(st) /\ ~IsFullscreen(st)
    BY <2>1 DEF Active, Restore, IsNormal, IsFullscreen
  <2>3. Homes(st) = {Active(st)}
    BY <2>2, NoneIsNone DEF Homes
  <2> QED BY <1>2, <2>1, <2>2, <2>3
<1>3. CASE st.backing \in FullscreenBackings
  <2>1. /\ st.backing # None /\ st.backing.active = Fullscreen
        /\ st.backing.restore \in SpaceIds /\ st.backing.restore # None
    BY <1>3, NoneIsNone DEF FullscreenBackings
  <2>2. /\ Active(st) = Fullscreen /\ Restore(st) \in SpaceIds
        /\ ~IsNormal(st) /\ IsFullscreen(st)
    BY <2>1 DEF Active, Restore, IsNormal, IsFullscreen
  <2>3. Homes(st) = {Fullscreen, Restore(st)}
    BY <2>2, NoneIsNone DEF Homes
  <2> QED BY <1>3, <2>1, <2>2, <2>3
<1> QED BY <1>1, <1>2, <1>3 DEF Typed

LEMMA NormalTyped ==
  ASSUME NEW st, Typed(st), NEW s \in SpaceIds,
         NEW new, new = [st EXCEPT !.backing = Normal(s)]
  PROVE  /\ Typed(new) /\ new.backing # None
         /\ Active(new) = s /\ Homes(new) = {s} /\ ~IsFullscreen(new)
<1>1. Normal(s) \in NormalBackings
  BY DEF Normal, NormalBackings
<1>2. DOMAIN new = {"persistent", "dynamic", "backing"} /\ new.backing = Normal(s)
  BY DEF Typed
<1>3. Typed(new)
  BY <1>1, <1>2 DEF Typed
<1>4. /\ new.backing # None /\ Active(new) = s /\ Restore(new) = None
      /\ ~IsFullscreen(new)
  BY <1>1, <1>2, NoneIsNone DEF Active, Restore, Normal, IsFullscreen
<1>5. Homes(new) = {s}
  BY <1>4, NoneIsNone DEF Homes
<1> QED BY <1>3, <1>4, <1>5

LEMMA ClearedTyped ==
  ASSUME NEW st, Typed(st), NEW new, new = [st EXCEPT !.backing = None]
  PROVE  Typed(new) /\ new.backing = None /\ Homes(new) = {} /\ ~IsFullscreen(new)
<1>1. DOMAIN new = {"persistent", "dynamic", "backing"} /\ new.backing = None
  BY DEF Typed
<1>2. Typed(new)
  BY <1>1 DEF Typed
<1>3. Homes(new) = {} /\ ~IsFullscreen(new)
  BY <1>1 DEF Homes, Active, Restore, IsFullscreen
<1> QED BY <1>1, <1>2, <1>3

-----------------------------------------------------------------------------
(* Operators.                                                                *)

LEMMA OverIs ==
  ASSUME NEW f, NEW g
  PROVE  /\ DOMAIN Over(f, g) = DOMAIN f \cup DOMAIN g
         /\ \A x \in DOMAIN f : Over(f, g)[x] = f[x]
         /\ \A x \in DOMAIN g \ DOMAIN f : Over(f, g)[x] = g[x]
  BY DEF Over

\* Numbers of one set have different places.
LEMMA RankInjective ==
  ASSUME NEW S \in SUBSET Nat, NEW x \in S, NEW y \in S, Rank(S, x) = Rank(S, y)
  PROVE  x = y
<1> DEFINE below(z) == {e \in S : e <= z}
<1>1. ASSUME NEW u \in S, NEW v \in S, u < v, Rank(S, u) = Rank(S, v) PROVE FALSE
  <2>0. S \subseteq Nat /\ u \in Nat /\ v \in Nat
    OBVIOUS
  <2>1. IsFiniteSet(below(v))
    <3>1. ASSUME NEW e \in below(v) PROVE e \in 0 .. v
      <4>1. e \in Nat /\ e <= v
        BY <2>0
      <4> QED BY <2>0, <4>1
    <3>2. IsFiniteSet(0 .. v)
      BY <2>0, FS_Interval
    <3> HIDE DEF below
    <3>3. below(v) \subseteq 0 .. v
      BY <3>1
    <3> QED BY <3>2, <3>3, FS_Subset
  <2>2. below(u) \subseteq below(v) /\ v \in below(v) /\ v \notin below(u)
    <3>1. ASSUME NEW e \in below(u) PROVE e \in below(v)
      <4>1. e \in S /\ e \in Nat /\ e <= u
        BY <2>0
      <4> QED BY <1>1, <2>0, <4>1
    <3>2. v \in below(v) /\ v \notin below(u)
      BY <1>1, <2>0
    <3> HIDE DEF below
    <3> QED BY <3>1, <3>2
  <2>3. Cardinality(below(u)) = Cardinality(below(v))
    BY <1>1 DEF Rank
  <2> HIDE DEF below
  <2> QED BY <2>1, <2>2, <2>3, FS_Subset
<1>2. x \in Nat /\ y \in Nat
  OBVIOUS
<1> QED BY <1>1, <1>2

\* No Space is given to two workspaces, and nobody else's backing changes.
LEMMA SeatedIs ==
  ASSUME NEW w, DOMAIN w \subseteq Nat, \A n \in DOMAIN w : Typed(w[n]),
         NEW order, Distinct(order), NEW moving, moving \subseteq DOMAIN w,
         NEW slots, slots \subseteq DOMAIN order
  PROVE  LET v == Seated(w, order, moving, slots)
         IN  /\ DOMAIN v = DOMAIN w
             /\ \A n \in DOMAIN w \ moving : v[n] = w[n]
             /\ \A n \in DOMAIN w : Typed(v[n])
             /\ \A n \in moving : Homes(v[n]) \subseteq {order[i] : i \in slots}
             /\ \A n \in moving : ~IsFullscreen(v[n])
             /\ \A m, n \in moving : m # n => Homes(v[m]) \cap Homes(v[n]) = {}
<1> DEFINE v == Seated(w, order, moving, slots)
           seat(n) == {i \in slots : Rank(slots, i) = Rank(moving, n)}
           pick(n) == CHOOSE i \in seat(n) : TRUE
<1>1. /\ v = [n \in DOMAIN w |->
                IF n \notin moving THEN w[n]
                ELSE [w[n] EXCEPT !.backing =
                        IF seat(n) = {} THEN None ELSE Normal(order[pick(n)])]]
  BY DEF Seated
<1>2. /\ DOMAIN v = DOMAIN w
      /\ \A n \in DOMAIN w \ moving : v[n] = w[n]
      /\ \A n \in moving : seat(n) = {} => v[n] = [w[n] EXCEPT !.backing = None]
      /\ \A n \in moving : seat(n) # {} =>
           v[n] = [w[n] EXCEPT !.backing = Normal(order[pick(n)])]
  BY <1>1
<1>3. DOMAIN order = 1 .. Len(order) /\ slots \subseteq Nat /\ moving \subseteq Nat
      /\ \A i \in slots : order[i] \in SpaceIds
  BY LenProperties, ElementOfSeq DEF Distinct
<1>4. \A n \in moving : seat(n) # {} =>
        pick(n) \in slots /\ Rank(slots, pick(n)) = Rank(moving, n)
  OBVIOUS
<1>5. \A m, n \in moving : m # n /\ seat(m) # {} /\ seat(n) # {} =>
        order[pick(m)] # order[pick(n)]
  <2> SUFFICES ASSUME NEW m \in moving, NEW n \in moving, seat(m) # {}, seat(n) # {},
                      order[pick(m)] = order[pick(n)]
               PROVE  m = n
    OBVIOUS
  <2>1. pick(m) \in slots /\ pick(n) \in slots
        /\ Rank(slots, pick(m)) = Rank(moving, m) /\ Rank(slots, pick(n)) = Rank(moving, n)
    BY <1>4
  <2> HIDE DEF pick, seat
  <2>2. pick(m) = pick(n)
    BY <2>1 DEF Distinct, IsInjective
  <2> QED BY <1>3, <2>1, <2>2, RankInjective
<1> HIDE DEF v, seat, pick
<1>6. ASSUME NEW n \in moving
      PROVE  /\ Typed(v[n]) /\ ~IsFullscreen(v[n])
             /\ Homes(v[n]) = IF seat(n) = {} THEN {} ELSE {order[pick(n)]}
  <2>1. Typed(w[n])
    OBVIOUS
  <2>2. CASE seat(n) = {}
    <3>1. v[n] = [w[n] EXCEPT !.backing = None]
      BY <1>2, <2>2
    <3> QED BY <2>1, <2>2, <3>1, ClearedTyped
  <2>3. CASE seat(n) # {}
    <3>1. v[n] = [w[n] EXCEPT !.backing = Normal(order[pick(n)])]
      BY <1>2, <2>3
    <3>2. order[pick(n)] \in SpaceIds
      BY <1>3, <1>4, <2>3
    <3> QED BY <2>1, <2>3, <3>1, <3>2, NormalTyped
  <2> QED BY <2>2, <2>3
<1>7. \A n \in DOMAIN w : Typed(v[n])
  BY <1>2, <1>6
<1>8. \A n \in moving : Homes(v[n]) \subseteq {order[i] : i \in slots}
  BY <1>4, <1>6
<1>9. \A m, n \in moving : m # n => Homes(v[m]) \cap Homes(v[n]) = {}
  BY <1>5, <1>6
<1> QED BY <1>2, <1>6, <1>7, <1>8, <1>9 DEF v

-----------------------------------------------------------------------------
(* Trees.  l: the trees of Spaces; p: the parked ones; k: the last command   *)
(* that arranged one.                                                        *)

Housed(l, p, k) ==
  /\ k \in Nat /\ None \notin DOMAIN l
  /\ \A s \in DOMAIN l : l[s] \in 0 .. k
  /\ \A n \in DOMAIN p : p[n] \in 0 .. k
  /\ \A s, t \in DOMAIN l : l[s] = l[t] /\ l[s] # 0 => s = t
  /\ \A n, o \in DOMAIN p : p[n] = p[o] /\ p[n] # 0 => n = o
  /\ \A s \in DOMAIN l, n \in DOMAIN p : l[s] = p[n] => l[s] = 0

\* Trees of Spaces R go to Spaces T, the tree of f[s] to s, and under names N.
Leave(l, p, R, T, N, f, g, l2, p2) ==
  /\ None \notin T
  /\ f \in [T -> DOMAIN l \cap R] /\ IsInjective(f)
  /\ g \in [N -> DOMAIN l \cap R] /\ IsInjective(g)
  /\ \A s \in T, n \in N : f[s] # g[n]
  /\ DOMAIN l2 \subseteq T \cup (DOMAIN l \ R)
  /\ \A s \in DOMAIN l2 : l2[s] = IF s \in T THEN l[f[s]] ELSE l[s]
  /\ DOMAIN p2 \subseteq N \cup DOMAIN p
  /\ \A n \in DOMAIN p2 : p2[n] = IF n \in N THEN l[g[n]] ELSE p[n]

LEMMA TreesLeave ==
  ASSUME NEW l, NEW p, NEW k, Housed(l, p, k), NEW R, NEW T, NEW N, NEW f, NEW g,
         NEW l2, NEW p2, Leave(l, p, R, T, N, f, g, l2, p2)
  PROVE  Housed(l2, p2, k)
<1>0. /\ None \notin T /\ IsInjective(f) /\ IsInjective(g)
      /\ DOMAIN f = T /\ DOMAIN g = N
      /\ \A s \in T : f[s] \in DOMAIN l \cap R
      /\ \A n \in N : g[n] \in DOMAIN l \cap R
      /\ \A s \in T, n \in N : f[s] # g[n]
      /\ DOMAIN l2 \subseteq T \cup (DOMAIN l \ R)
      /\ \A s \in DOMAIN l2 : l2[s] = IF s \in T THEN l[f[s]] ELSE l[s]
      /\ DOMAIN p2 \subseteq N \cup DOMAIN p
      /\ \A n \in DOMAIN p2 : p2[n] = IF n \in N THEN l[g[n]] ELSE p[n]
  BY DEF Leave
<1>1. \A s \in DOMAIN l2 :
        \/ s \in T /\ f[s] \in DOMAIN l \cap R /\ l2[s] = l[f[s]]
        \/ s \in DOMAIN l \ R /\ l2[s] = l[s]
  BY <1>0
<1>2. \A n \in DOMAIN p2 :
        \/ n \in N /\ g[n] \in DOMAIN l \cap R /\ p2[n] = l[g[n]]
        \/ n \in DOMAIN p /\ p2[n] = p[n]
  BY <1>0
<1>3. \A s, t \in T : f[s] = f[t] => s = t
  BY <1>0 DEF IsInjective
<1>4. \A n, o \in N : g[n] = g[o] => n = o
  BY <1>0 DEF IsInjective
<1>5. k \in Nat /\ None \notin DOMAIN l2
  BY <1>0 DEF Housed
<1>6. \A s \in DOMAIN l2 : l2[s] \in 0 .. k
  BY <1>1 DEF Housed
<1>7. \A n \in DOMAIN p2 : p2[n] \in 0 .. k
  BY <1>2 DEF Housed
<1>8. \A s, t \in DOMAIN l2 : l2[s] = l2[t] /\ l2[s] # 0 => s = t
  BY <1>0, <1>1, <1>3 DEF Housed
<1>9. \A n, o \in DOMAIN p2 : p2[n] = p2[o] /\ p2[n] # 0 => n = o
  BY <1>0, <1>2, <1>4 DEF Housed
<1>10. \A s \in DOMAIN l2, n \in DOMAIN p2 : l2[s] = p2[n] => l2[s] = 0
  BY <1>0, <1>1, <1>2 DEF Housed
<1> QED BY <1>5, <1>6, <1>7, <1>8, <1>9, <1>10 DEF Housed

\* Parked trees go to Spaces T, each to one.
Return(l, p, R, T, f, l2, p2) ==
  /\ None \notin T /\ f \in [T -> DOMAIN p \cap R] /\ IsInjective(f)
  /\ DOMAIN l2 \subseteq T \cup DOMAIN l
  /\ \A s \in DOMAIN l2 : l2[s] = IF s \in T THEN p[f[s]] ELSE l[s]
  /\ DOMAIN p2 \subseteq DOMAIN p \ R /\ \A n \in DOMAIN p2 : p2[n] = p[n]

LEMMA TreesReturn ==
  ASSUME NEW l, NEW p, NEW k, Housed(l, p, k), NEW R, NEW T, NEW f, NEW l2, NEW p2,
         Return(l, p, R, T, f, l2, p2)
  PROVE  Housed(l2, p2, k)
<1>0. /\ None \notin T /\ IsInjective(f) /\ DOMAIN f = T
      /\ \A s \in T : f[s] \in DOMAIN p \cap R
      /\ DOMAIN l2 \subseteq T \cup DOMAIN l
      /\ \A s \in DOMAIN l2 : l2[s] = IF s \in T THEN p[f[s]] ELSE l[s]
      /\ DOMAIN p2 \subseteq DOMAIN p \ R /\ \A n \in DOMAIN p2 : p2[n] = p[n]
  BY DEF Return
<1>1. \A s \in DOMAIN l2 :
        \/ s \in T /\ f[s] \in DOMAIN p \cap R /\ l2[s] = p[f[s]]
        \/ s \in DOMAIN l /\ l2[s] = l[s]
  BY <1>0
<1>2. \A s, t \in T : f[s] = f[t] => s = t
  BY <1>0 DEF IsInjective
<1>3. k \in Nat /\ None \notin DOMAIN l2
  BY <1>0 DEF Housed
<1>4. \A s \in DOMAIN l2 : l2[s] \in 0 .. k
  BY <1>1 DEF Housed
<1>5. \A s, t \in DOMAIN l2 : l2[s] = l2[t] /\ l2[s] # 0 => s = t
  BY <1>0, <1>1, <1>2 DEF Housed
<1>6. \A s \in DOMAIN l2, n \in DOMAIN p2 : l2[s] = p2[n] => l2[s] = 0
  BY <1>0, <1>1 DEF Housed
<1>7. /\ \A n \in DOMAIN p2 : p2[n] \in 0 .. k
      /\ \A n, o \in DOMAIN p2 : p2[n] = p2[o] /\ p2[n] # 0 => n = o
  BY <1>0 DEF Housed
<1> QED BY <1>3, <1>4, <1>5, <1>6, <1>7 DEF Housed

-----------------------------------------------------------------------------
(* The steps of an observation, on what the engine holds.                    *)

Memories == {"ws", "layouts", "parked", "queued"}

\* shown: the Space a fullscreen window left, as the engine has observed it.
Held(m, k, shown) ==
  /\ DOMAIN m = Memories
  /\ Registry(m.ws, m.queued) /\ Housed(m.layouts, m.parked, k)
  /\ \A n \in DOMAIN m.ws : IsFullscreen(m.ws[n]) => shown # None

LEMMA WithoutHeld ==
  ASSUME NEW m, NEW k, NEW shown, Held(m, k, shown), NEW S, NEW T, NEW U, NEW q,
         q \subseteq m.queued,
         NEW v, v = [m EXCEPT !.layouts = Without(@, S), !.parked = Without(@, T),
                              !.queued = q, !.ws = Without(@, U)]
  PROVE  Held(v, k, shown)
<1>1. /\ DOMAIN v = Memories /\ v.ws = Without(m.ws, U) /\ v.queued = q
      /\ v.layouts = Without(m.layouts, S) /\ v.parked = Without(m.parked, T)
  BY DEF Held, Memories
<1>2. Registry(v.ws, v.queued)
  BY <1>1 DEF Held, Registry, Without
<1>3. Housed(v.layouts, v.parked, k)
  BY <1>1 DEF Held, Housed, Without
<1>4. \A n \in DOMAIN v.ws : IsFullscreen(v.ws[n]) => shown # None
  BY <1>1 DEF Held, Without
<1> QED BY <1>1, <1>2, <1>3, <1>4 DEF Held

LEMMA RemoveHeld ==
  ASSUME NEW m, NEW k, NEW shown, Held(m, k, shown), NEW S
  PROVE  Held(RemoveWorkspaces(m, S), k, shown)
  BY WithoutHeld DEF RemoveWorkspaces

\* Two workspaces show different Spaces.
LEMMA ActiveApart ==
  ASSUME NEW w, NEW q, Registry(w, q), NEW m \in DOMAIN w, NEW n \in DOMAIN w,
         Active(w[m]) = Active(w[n]), Active(w[m]) # None
  PROVE  m = n
<1>1. Active(w[m]) \in Homes(w[m]) /\ Active(w[m]) \in Homes(w[n])
  BY DEF Homes
<1> QED BY <1>1 DEF Registry

LEMMA SyncConfigIs ==
  ASSUME NEW w, NEW q, Registry(w, q), NEW c, DOMAIN c \subseteq Nat, NEW prune \in BOOLEAN
  PROVE  LET v == SyncConfig(w, c, prune)
         IN  /\ Registry(v, q)
             /\ \A n \in DOMAIN v : IsFullscreen(v[n]) => n \in DOMAIN w /\ IsFullscreen(w[n])
             /\ \A n \in DOMAIN v \cap DOMAIN w : v[n].backing = w[n].backing
<1> DEFINE v == SyncConfig(w, c, prune)
<1>1. \A n \in DOMAIN v : n \in DOMAIN w \/ n \in DOMAIN c
  BY DEF SyncConfig
<1>2. ASSUME NEW n \in DOMAIN v, n \in DOMAIN w
      PROVE  Typed(v[n]) /\ v[n].backing = w[n].backing
  <2>1. Typed(w[n])
    BY <1>2 DEF Registry
  <2>2. v[n] = w[n] \/ v[n] = [w[n] EXCEPT !.persistent = c[n], !.dynamic = FALSE]
    BY <1>2 DEF SyncConfig
  <2>3. DOMAIN v[n] = DOMAIN w[n] /\ v[n].backing = w[n].backing
    BY <2>1, <2>2 DEF Typed
  <2> QED BY <2>1, <2>3 DEF Typed
<1>3. ASSUME NEW n \in DOMAIN v, n \notin DOMAIN w
      PROVE  Typed(v[n]) /\ v[n].backing = None
  <2>1. v[n] = NewState(c[n], FALSE)
    BY <1>1, <1>3 DEF SyncConfig
  <2> QED BY <2>1 DEF NewState, Typed
<1>4. \A n \in DOMAIN v : n \in DOMAIN w => Homes(v[n]) = Homes(w[n])
  BY <1>2 DEF Homes, Active, Restore
<1>5. \A n \in DOMAIN v : n \notin DOMAIN w => Homes(v[n]) = {}
  BY <1>3 DEF Homes, Active, Restore
<1>6. DOMAIN v \subseteq Nat
  BY <1>1 DEF Registry
<1> HIDE DEF v
<1>7. \A m, n \in DOMAIN v : m # n => Homes(v[m]) \cap Homes(v[n]) = {}
  BY <1>4, <1>5 DEF Registry
<1>8. Registry(v, q)
  BY <1>2, <1>3, <1>6, <1>7 DEF Registry
<1>9. \A n \in DOMAIN v : IsFullscreen(v[n]) => n \in DOMAIN w /\ IsFullscreen(w[n])
  BY <1>2, <1>3 DEF IsFullscreen
<1> QED BY <1>2, <1>8, <1>9 DEF v

LEMMA SetRegistryHeld ==
  ASSUME NEW m, NEW k, NEW shown, NEW was, Held(m, k, was), NEW w, Registry(w, m.queued),
         \A n \in DOMAIN w : IsFullscreen(w[n]) => shown # None,
         NEW v, v = [m EXCEPT !.ws = w]
  PROVE  Held(v, k, shown)
<1>1. /\ DOMAIN v = Memories /\ v.ws = w /\ v.queued = m.queued
      /\ v.layouts = m.layouts /\ v.parked = m.parked
  BY DEF Held, Memories
<1> QED BY <1>1 DEF Held

LEMMA EmptyRegistry == ASSUME NEW q PROVE Registry(<<>>, q) /\ DOMAIN <<>> = {}
<1>1. DOMAIN <<>> = {}
  OBVIOUS
<1> QED BY <1>1 DEF Registry

Seeing(o) == Distinct(o.strip) /\ o.full \in SpaceIds \cup {None}

LEMMA SyncHeld ==
  ASSUME NEW m, NEW k, NEW old, NEW new, Held(m, k, old.full), DOMAIN config \subseteq Nat
  PROVE  Held(SyncDisplays(m, old, new), k, old.full)
<1>1. CASE new.strip = <<>>
  <2>1. SyncDisplays(m, old, new) = [m EXCEPT !.ws = <<>>]
    BY <1>1 DEF SyncDisplays
  <2> QED BY <2>1, EmptyRegistry, SetRegistryHeld
<1>2. CASE new.strip # <<>> /\ old.strip \in {None, <<>>}
  <2>1. SyncDisplays(m, old, new) = [m EXCEPT !.ws = SyncConfig(m.ws, config, FALSE)]
    BY <1>2 DEF SyncDisplays
  <2>2. /\ Registry(SyncConfig(m.ws, config, FALSE), m.queued)
        /\ \A n \in DOMAIN SyncConfig(m.ws, config, FALSE) :
             IsFullscreen(SyncConfig(m.ws, config, FALSE)[n]) => old.full # None
    BY SyncConfigIs DEF Held
  <2> QED BY <2>1, <2>2, SetRegistryHeld
<1>3. CASE new.strip # <<>> /\ old.strip \notin {None, <<>>}
  BY <1>3 DEF SyncDisplays
<1> QED BY <1>1, <1>2, <1>3

LEMMA FullscreenHeld ==
  ASSUME NEW m, NEW k, NEW old, NEW new, Held(m, k, old.full), Seeing(new)
  PROVE  Held(ReconcileFullscreen(m, old, new), k, new.full)
<1> DEFINE back(b) == IF b.restore \in ToSet(new.strip) THEN Normal(b.restore) ELSE None
           next(b) ==
             IF b = None THEN b
             ELSE IF b.restore # None THEN IF new.full = None THEN back(b) ELSE b
             ELSE IF /\ new.full = b.active /\ old.full = None /\ b.active \in Seen(old)
                  THEN FullscreenReplacement(Fullscreen, b.active, None)
             ELSE b
           w == m.ws
           v == [n \in DOMAIN w |-> [w[n] EXCEPT !.backing = next(@)]]
           left(n) == old.full = None /\ new.full = Active(w[n])
                      /\ Homes(v[n]) = {Fullscreen, Active(w[n])} /\ Active(w[n]) \in SpaceIds
<1>1. ReconcileFullscreen(m, old, new) = [m EXCEPT !.ws = v]
  BY DEF ReconcileFullscreen
<1>2. ASSUME NEW n \in DOMAIN w
      PROVE  /\ Typed(v[n])
             /\ w[n].backing = None => v[n].backing = None
             /\ Homes(v[n]) \subseteq Homes(w[n]) \/ left(n)
             /\ IsFullscreen(v[n]) => new.full # None
  <2>1. Typed(w[n])
    BY DEF Held, Registry
  <2>2. v[n] = [w[n] EXCEPT !.backing = next(w[n].backing)]
    OBVIOUS
  <2>3. CASE w[n].backing = None
    <3>1. v[n] = [w[n] EXCEPT !.backing = None]
      BY <2>2, <2>3
    <3> HIDE DEF v
    <3> QED BY <2>1, <2>3, <3>1, ClearedTyped
  <2>4. CASE w[n].backing \in NormalBackings
    <3>1. /\ w[n].backing # None /\ w[n].backing.restore = None
          /\ w[n].backing.active \in SpaceIds
      BY <2>4, NoneIsNone DEF NormalBackings
    <3>2. Active(w[n]) = w[n].backing.active /\ Restore(w[n]) = None /\ ~IsFullscreen(w[n])
      BY <3>1 DEF Active, Restore, IsFullscreen
    <3>3. CASE new.full = w[n].backing.active /\ old.full = None
               /\ w[n].backing.active \in Seen(old)
      <4>1. v[n].backing = FullscreenReplacement(Fullscreen, w[n].backing.active, None)
            /\ DOMAIN v[n] = {"persistent", "dynamic", "backing"}
        BY <2>1, <2>2, <3>1, <3>3 DEF Typed
      <4> HIDE DEF v, next
      <4>2. v[n].backing \in FullscreenBackings
        BY <3>1, <4>1 DEF FullscreenReplacement, FullscreenBackings
      <4>3. Typed(v[n])
        BY <4>1, <4>2 DEF Typed
      <4>4. v[n].backing # None /\ Active(v[n]) = Fullscreen /\ Restore(v[n]) = Active(w[n])
        BY <3>2, <4>1, <4>2, NoneIsNone DEF FullscreenReplacement, Active, Restore
      <4>5. Homes(v[n]) = {Fullscreen, Active(w[n])}
        BY <3>1, <3>2, <4>4, NoneIsNone DEF Homes
      <4>6. new.full # None
        BY <3>1, <3>3, NoneIsNone
      <4> QED BY <3>1, <3>2, <3>3, <4>3, <4>5, <4>6
    <3>4. CASE ~(new.full = w[n].backing.active /\ old.full = None
                 /\ w[n].backing.active \in Seen(old))
      <4>1. next(w[n].backing) = w[n].backing
        BY <3>1, <3>4
      <4>2. v[n].backing = w[n].backing /\ DOMAIN v[n] = DOMAIN w[n]
        BY <2>1, <2>2, <4>1 DEF Typed
      <4> HIDE DEF v, left
      <4>3. Typed(v[n]) /\ Homes(v[n]) = Homes(w[n]) /\ ~IsFullscreen(v[n])
        BY <2>1, <3>2, <4>2 DEF Typed, Homes, Active, Restore, IsFullscreen
      <4> QED BY <3>1, <4>3
    <3> QED BY <3>3, <3>4
  <2>5. CASE w[n].backing \in FullscreenBackings
    <3>1. /\ w[n].backing # None /\ w[n].backing.restore # None
          /\ w[n].backing.restore \in SpaceIds
      BY <2>5, NoneIsNone DEF FullscreenBackings
    <3>2. Restore(w[n]) = w[n].backing.restore /\ Restore(w[n]) \in Homes(w[n])
      BY <3>1 DEF Restore, Homes
    <3>3. CASE new.full # None
      <4>1. next(w[n].backing) = w[n].backing
        BY <3>1, <3>3
      <4>2. v[n].backing = w[n].backing /\ DOMAIN v[n] = DOMAIN w[n]
        BY <2>1, <2>2, <4>1 DEF Typed
      <4> HIDE DEF v, left
      <4>3. Typed(v[n]) /\ Homes(v[n]) = Homes(w[n])
        BY <2>1, <4>2 DEF Typed, Homes, Active, Restore
      <4> QED BY <3>1, <3>3, <4>3
    <3>4. CASE new.full = None /\ w[n].backing.restore \in ToSet(new.strip)
      <4>1. v[n] = [w[n] EXCEPT !.backing = Normal(w[n].backing.restore)]
        BY <2>2, <3>1, <3>4
      <4> HIDE DEF v, left
      <4>2. Typed(v[n]) /\ Homes(v[n]) = {Restore(w[n])} /\ ~IsFullscreen(v[n])
        BY <2>1, <3>1, <3>2, <4>1, NormalTyped
      <4> QED BY <3>1, <3>2, <4>2
    <3>5. CASE new.full = None /\ w[n].backing.restore \notin ToSet(new.strip)
      <4>1. v[n] = [w[n] EXCEPT !.backing = None]
        BY <2>2, <3>1, <3>5
      <4> HIDE DEF v, left
      <4> QED BY <2>1, <4>1, ClearedTyped
    <3> QED BY <3>3, <3>4, <3>5
  <2> QED BY <2>1, <2>3, <2>4, <2>5 DEF Typed
<1>3. DOMAIN v = DOMAIN w
  OBVIOUS
<1> HIDE DEF v
<1>4. ASSUME NEW a \in DOMAIN w, NEW b \in DOMAIN w, a # b, Homes(v[b]) \subseteq Homes(w[b])
      PROVE  Homes(v[a]) \cap Homes(v[b]) = {}
  <2>1. Homes(w[a]) \cap Homes(w[b]) = {}
    BY <1>4 DEF Held, Registry
  <2>2. CASE Homes(v[a]) \subseteq Homes(w[a])
    BY <1>4, <2>1, <2>2
  <2>3. CASE left(a)
    <3>1. Active(w[a]) \in Homes(w[a])
      BY <2>3, NoneIsNone DEF Homes
    <3>2. ~IsFullscreen(w[b]) /\ Typed(w[b])
      BY <2>3 DEF Held, Registry
    <3>3. Homes(w[b]) \subseteq SpaceIds
      BY <3>2, TypedIs
    <3> QED BY <1>4, <2>1, <2>3, <3>1, <3>3, NoneIsNone
  <2> QED BY <1>2, <2>2, <2>3
<1>5. ASSUME NEW a \in DOMAIN w, NEW b \in DOMAIN w, a # b
      PROVE  Homes(v[a]) \cap Homes(v[b]) = {}
  <2>1. CASE Homes(v[a]) \subseteq Homes(w[a]) \/ Homes(v[b]) \subseteq Homes(w[b])
    BY <1>4, <1>5, <2>1
  <2>2. CASE left(a) /\ left(b)
    <3>1. Active(w[a]) = Active(w[b]) /\ Active(w[a]) # None
      BY <2>2, NoneIsNone
    <3> QED BY <1>5, <3>1, ActiveApart DEF Held
  <2> QED BY <1>2, <2>1, <2>2
<1>6. Registry(v, m.queued)
  BY <1>2, <1>3, <1>5 DEF Held, Registry
<1> QED BY <1>1, <1>2, <1>3, <1>6, SetRegistryHeld

\* The Spaces workspaces S show, and whose tree each of them has.
LEMMA ShownTrees ==
  ASSUME NEW m, NEW k, NEW shown, Held(m, k, shown), NEW S, S \subseteq DOMAIN m.ws,
         \A n \in S : Active(m.ws[n]) \in DOMAIN m.layouts,
         NEW g, g = [n \in S |-> Active(m.ws[n])]
  PROVE  IsInjective(g)
<1>1. None \notin DOMAIN m.layouts /\ Registry(m.ws, m.queued)
  BY DEF Held, Housed
<1>2. \A a, b \in S : Active(m.ws[a]) = Active(m.ws[b]) => a = b
  BY <1>1, ActiveApart
<1> QED BY <1>2 DEF IsInjective

LEMMA ClearHeld ==
  ASSUME NEW m, NEW k, NEW shown, Held(m, k, shown), NEW S, S \subseteq DOMAIN m.ws
  PROVE  Held(ClearStaleBackings(m, S), k, shown)
<1> DEFINE v == ClearStaleBackings(m, S)
           l == m.layouts
           p == m.parked
           w == m.ws
           had == {n \in S : Active(w[n]) \in DOMAIN l}
           gone == {Active(w[n]) : n \in S}
           g == [n \in had |-> Active(w[n])]
           nowhere == {}
           f == [s \in nowhere |-> s]
<1>1. /\ DOMAIN v = Memories
      /\ v.parked = Over([n \in had |-> l[Active(w[n])]], p)
      /\ v.layouts = Without(l, gone) /\ v.queued = m.queued \cup S
      /\ v.ws = [n \in DOMAIN w |-> IF n \in S THEN [w[n] EXCEPT !.backing = None] ELSE w[n]]
  BY DEF Held, Memories, ClearStaleBackings
<1>2. /\ DOMAIN v.parked \subseteq had \cup DOMAIN p
      /\ \A n \in DOMAIN v.parked : v.parked[n] = IF n \in had THEN l[g[n]] ELSE p[n]
  BY <1>1 DEF Over
<1>3. /\ DOMAIN v.layouts \subseteq nowhere \cup (DOMAIN l \ gone)
      /\ \A s \in DOMAIN v.layouts : v.layouts[s] = IF s \in nowhere THEN l[f[s]] ELSE l[s]
  BY <1>1 DEF Without
<1>4. IsInjective(g)
  BY ShownTrees
<1>5. /\ g \in [had -> DOMAIN l \cap gone]
      /\ f \in [nowhere -> DOMAIN l \cap gone] /\ IsInjective(f)
      /\ None \notin nowhere /\ \A s \in nowhere, n \in had : f[s] # g[n]
  BY DEF IsInjective
<1>6. Housed(l, p, k)
  BY DEF Held
<1>7. /\ DOMAIN v.ws = DOMAIN w
      /\ \A n \in S : v.ws[n] = [w[n] EXCEPT !.backing = None]
      /\ \A n \in DOMAIN w \ S : v.ws[n] = w[n]
  BY <1>1
<1> HIDE DEF v, g, f, had, gone, nowhere
<1>8. Housed(v.layouts, v.parked, k)
  <2>1. Leave(l, p, gone, nowhere, had, f, g, v.layouts, v.parked)
    BY <1>2, <1>3, <1>4, <1>5 DEF Leave
  <2> QED BY <1>6, <2>1, TreesLeave
<1>9. \A n \in S : Typed(w[n])
  BY DEF Held, Registry
<1>10. \A n \in S : Typed(v.ws[n]) /\ v.ws[n].backing = None /\ Homes(v.ws[n]) = {}
                    /\ ~IsFullscreen(v.ws[n])
  BY <1>7, <1>9, ClearedTyped
<1>11. Registry(v.ws, v.queued)
  <2>1. DOMAIN v.ws \subseteq Nat /\ \A n \in DOMAIN v.ws : Typed(v.ws[n])
    BY <1>7, <1>10 DEF Held, Registry
  <2>2. \A a, b \in DOMAIN v.ws : a # b => Homes(v.ws[a]) \cap Homes(v.ws[b]) = {}
    BY <1>7, <1>10 DEF Held, Registry
  <2>3. \A n \in DOMAIN v.ws \cap v.queued : v.ws[n].backing = None
    BY <1>1, <1>7, <1>10 DEF Held, Registry
  <2> QED BY <2>1, <2>2, <2>3 DEF Registry
<1>12. \A n \in DOMAIN v.ws : IsFullscreen(v.ws[n]) => shown # None
  BY <1>7, <1>10 DEF Held
<1> QED BY <1>1, <1>8, <1>11, <1>12 DEF Held, v

LEMMA RetireHeld ==
  ASSUME NEW m, NEW k, NEW shown, Held(m, k, shown), NEW old, NEW new
  PROVE  Held(RetireLost(m, old, new), k, shown)
<1> DEFINE lost == Lost(m, new)
           volatile == {n \in lost : ~m.ws[n].persistent}
           rest == RemoveWorkspaces(m, volatile)
<1>1. RetireLost(m, old, new) \in {m, ClearStaleBackings(rest, lost \ volatile)}
  BY DEF RetireLost
<1>2. Held(rest, k, shown)
  BY RemoveHeld
<1>3. lost \ volatile \subseteq DOMAIN rest.ws
  BY DEF Lost, RemoveWorkspaces, Without, Held, Memories
<1> HIDE DEF rest, volatile
<1> QED BY <1>1, <1>2, <1>3, ClearHeld

LEMMA BindHeld ==
  ASSUME NEW m, NEW k, NEW shown, Held(m, k, shown), NEW bound,
         bound # None => /\ bound.name \in DOMAIN m.ws
                         /\ bound.space \in SpaceIds \ Claimed(m.ws)
  PROVE  Held(BindAwaited(m, bound), k, shown)
<1>1. CASE bound = None
  BY <1>1 DEF BindAwaited
<1>2. CASE bound # None
  <2> DEFINE v == BindAwaited(m, bound)
             n == bound.name
             s == bound.space
             w == m.ws
  <2>1. /\ DOMAIN v = Memories /\ v.layouts = m.layouts /\ v.parked = m.parked
        /\ v.queued = m.queued \ {n}
        /\ v.ws = [w EXCEPT ![n].backing = Normal(s)]
    BY <1>2 DEF BindAwaited, Held, Memories
  <2>2. /\ DOMAIN v.ws = DOMAIN w /\ v.ws[n] = [w[n] EXCEPT !.backing = Normal(s)]
        /\ \A o \in DOMAIN w \ {n} : v.ws[o] = w[o]
    BY <1>2, <2>1
  <2> HIDE DEF v
  <2>3. Typed(w[n])
    BY <1>2 DEF Held, Registry
  <2>4. Typed(v.ws[n]) /\ Homes(v.ws[n]) = {s} /\ ~IsFullscreen(v.ws[n])
    BY <1>2, <2>2, <2>3, NormalTyped
  <2>5. \A o \in DOMAIN w : s \notin Homes(w[o])
    BY <1>2 DEF Claimed, ActiveSpaces, RestoreSpaces, Homes
  <2>6. Registry(v.ws, v.queued)
    <3>1. DOMAIN v.ws \subseteq Nat /\ \A o \in DOMAIN v.ws : Typed(v.ws[o])
      BY <2>2, <2>4 DEF Held, Registry
    <3>2. \A a, b \in DOMAIN v.ws : a # b => Homes(v.ws[a]) \cap Homes(v.ws[b]) = {}
      BY <2>2, <2>4, <2>5 DEF Held, Registry
    <3>3. \A o \in DOMAIN v.ws \cap v.queued : v.ws[o].backing = None
      BY <2>1, <2>2 DEF Held, Registry
    <3> QED BY <3>1, <3>2, <3>3 DEF Registry
  <2>7. \A o \in DOMAIN v.ws : IsFullscreen(v.ws[o]) => shown # None
    BY <2>2, <2>4 DEF Held
  <2> QED BY <2>1, <2>6, <2>7 DEF Held, v
<1> QED BY <1>1, <1>2

LEMMA RemapHeld ==
  ASSUME NEW m, NEW k, NEW shown, Held(m, k, shown), NEW o, Seeing(o), NEW external
  PROVE  /\ Held(RemapSlots(m, o, external), k, shown)
         /\ DOMAIN RemapSlots(m, o, external).ws = DOMAIN m.ws
<1> DEFINE v == RemapSlots(m, o, external)
           w == m.ws
           free == Without(w, m.queued)
           moving == {n \in DOMAIN free : ~IsFullscreen(free[n])}
           slots == {i \in DOMAIN o.strip :
                       o.strip[i] \in (ToSet(o.strip) \ external) \ RestoreSpaces(free)}
           seated == Seated(free, o.strip, moving, slots)
<1>1. /\ DOMAIN v = Memories /\ v.layouts = m.layouts /\ v.parked = m.parked
      /\ v.queued = m.queued /\ v.ws = Over(seated, w)
  BY DEF RemapSlots, RemapAfterSnapshot, Held, Memories
<1>2. /\ DOMAIN free = DOMAIN w \ m.queued /\ \A n \in DOMAIN free : free[n] = w[n]
  BY DEF Without
<1>3. DOMAIN w \subseteq Nat /\ \A n \in DOMAIN w : Typed(w[n])
  BY DEF Held, Registry
<1>4. moving \subseteq DOMAIN free /\ slots \subseteq DOMAIN o.strip
  OBVIOUS
<1>5. DOMAIN free \subseteq Nat /\ \A n \in DOMAIN free : Typed(free[n])
  BY <1>2, <1>3
<1>6. \A i \in slots : o.strip[i] \in SpaceIds /\ o.strip[i] \notin RestoreSpaces(free)
  <2>1. \A i \in DOMAIN o.strip : o.strip[i] \in SpaceIds
    BY LenProperties, ElementOfSeq DEF Seeing, Distinct
  <2> QED BY <2>1
<1>7. \A n \in DOMAIN w \ moving : n \in m.queued \/ IsFullscreen(w[n])
  BY <1>2
<1> HIDE DEF free, slots, moving
<1>8. /\ DOMAIN seated = DOMAIN free
      /\ \A n \in DOMAIN free \ moving : seated[n] = free[n]
      /\ \A n \in DOMAIN free : Typed(seated[n])
      /\ \A n \in moving : Homes(seated[n]) \subseteq {o.strip[i] : i \in slots}
      /\ \A n \in moving : ~IsFullscreen(seated[n])
      /\ \A a, b \in moving : a # b => Homes(seated[a]) \cap Homes(seated[b]) = {}
  BY <1>4, <1>5, SeatedIs DEF Seeing
<1> HIDE DEF seated, v
<1>9. /\ DOMAIN v.ws = DOMAIN w
      /\ \A n \in DOMAIN w \ moving : v.ws[n] = w[n]
      /\ \A n \in moving : v.ws[n] = seated[n]
  <2>1. DOMAIN v.ws = DOMAIN w
    BY <1>1, <1>2, <1>8 DEF Over
  <2>2. \A n \in DOMAIN free : v.ws[n] = seated[n]
    BY <1>1, <1>8 DEF Over
  <2>3. \A n \in DOMAIN w \ DOMAIN free : v.ws[n] = w[n]
    BY <1>1, <1>8 DEF Over
  <2> QED BY <1>2, <1>4, <1>8, <2>1, <2>2, <2>3
<1>10. \A n \in DOMAIN v.ws : Typed(v.ws[n])
  BY <1>3, <1>4, <1>8, <1>9
<1>11. ASSUME NEW a \in moving, NEW b \in DOMAIN w \ moving
       PROVE  Homes(v.ws[a]) \cap Homes(v.ws[b]) = {}
  <2>1. Typed(w[b]) /\ v.ws[b] = w[b]
    BY <1>3, <1>9
  <2>2. CASE b \in m.queued
    <3>1. w[b].backing = None
      BY <2>2 DEF Held, Registry
    <3> QED BY <2>1, <3>1, TypedIs
  <2>3. CASE b \notin m.queued
    <3>1. IsFullscreen(w[b]) /\ b \in DOMAIN free /\ free[b] = w[b]
      BY <1>2, <1>7, <2>3
    <3>2. Homes(w[b]) = {Fullscreen, Restore(w[b])} /\ Restore(w[b]) \in SpaceIds
      BY <2>1, <3>1, TypedIs
    <3>3. Restore(w[b]) \in RestoreSpaces(free)
      BY <3>1, <3>2, NoneIsNone DEF RestoreSpaces
    <3>4. \A i \in slots : o.strip[i] # Fullscreen /\ o.strip[i] # Restore(w[b])
      BY <1>6, <3>3, NoneIsNone
    <3> QED BY <1>8, <1>9, <2>1, <3>2, <3>4
  <2> QED BY <2>2, <2>3
<1>12. Registry(v.ws, v.queued)
  <2>1. ASSUME NEW a \in DOMAIN w, NEW b \in DOMAIN w, a # b
        PROVE  Homes(v.ws[a]) \cap Homes(v.ws[b]) = {}
    <3>1. CASE a \in moving /\ b \in moving
      BY <1>8, <1>9, <2>1, <3>1
    <3>2. CASE a \notin moving /\ b \notin moving
      BY <1>9, <2>1, <3>2 DEF Held, Registry
    <3> QED BY <1>11, <2>1, <3>1, <3>2
  <2>2. \A n \in DOMAIN v.ws \cap v.queued : v.ws[n].backing = None
    BY <1>1, <1>2, <1>4, <1>9 DEF Held, Registry
  <2> QED BY <1>3, <1>9, <1>10, <2>1, <2>2 DEF Registry
<1>13. \A n \in DOMAIN v.ws : IsFullscreen(v.ws[n]) => shown # None
  BY <1>8, <1>9 DEF Held
<1> QED BY <1>1, <1>9, <1>12, <1>13 DEF Held, v

LEMMA MovesHeld ==
  ASSUME NEW m, NEW k, NEW shown, Held(m, k, shown),
         NEW was, NEW q, Registry(was, q), DOMAIN was = DOMAIN m.ws, NEW new
  PROVE  Held(ApplyRemapMoves(m, was, new), k, shown)
<1> DEFINE v == ApplyRemapMoves(m, was, new)
           l == m.layouts
           from(n) == Active(was[n])
           moved == {n \in Moved(was, m.ws) : from(n) \in DOMAIN l \ Seen(new)}
           homed == {n \in moved : Active(m.ws[n]) # None}
           to == {Active(m.ws[n]) : n \in homed}
           mover(s) == CHOOSE n \in homed : Active(m.ws[n]) = s
           R == {from(n) : n \in moved}
           f == [s \in to |-> from(mover(s))]
           g == [n \in moved \ homed |-> from(n)]
<1>1. /\ DOMAIN v = Memories /\ v.ws = m.ws /\ v.queued = m.queued
      /\ v.layouts = Over([s \in to |-> l[from(mover(s))]], Without(l, R))
      /\ v.parked = Over([n \in moved \ homed |-> l[from(n)]], m.parked)
  BY DEF ApplyRemapMoves, Held, Memories
<1>2. /\ DOMAIN v.layouts \subseteq to \cup (DOMAIN l \ R)
      /\ \A s \in DOMAIN v.layouts : v.layouts[s] = IF s \in to THEN l[f[s]] ELSE l[s]
  BY <1>1 DEF Over, Without
<1>3. /\ DOMAIN v.parked \subseteq (moved \ homed) \cup DOMAIN m.parked
      /\ \A n \in DOMAIN v.parked :
           v.parked[n] = IF n \in moved \ homed THEN l[g[n]] ELSE m.parked[n]
  BY <1>1 DEF Over
<1>4. \A n \in moved : n \in DOMAIN was /\ from(n) \in DOMAIN l \cap R
  BY DEF Moved
<1>5. \A s \in to : mover(s) \in homed /\ Active(m.ws[mover(s)]) = s
  OBVIOUS
<1>6. None \notin to
  OBVIOUS
<1>7. \A s \in to : f[s] = from(mover(s))
  OBVIOUS
<1>8. \A n \in moved \ homed : g[n] = from(n)
  OBVIOUS
<1>9. homed \subseteq moved /\ DOMAIN f = to /\ DOMAIN g = moved \ homed
  OBVIOUS
<1>10. f = [s \in to |-> f[s]] /\ g = [n \in moved \ homed |-> g[n]]
  OBVIOUS
<1> HIDE DEF v, moved, homed, to, mover, R, f, g
<1>11. \A a, b \in moved : from(a) = from(b) => a = b
  <2>1. None \notin DOMAIN l
    BY DEF Held, Housed
  <2> QED BY <1>4, <2>1, ActiveApart
<1>12. f \in [to -> DOMAIN l \cap R] /\ g \in [moved \ homed -> DOMAIN l \cap R]
  <2>1. \A s \in to : f[s] \in DOMAIN l \cap R
    BY <1>4, <1>5, <1>7, <1>9
  <2>2. \A n \in moved \ homed : g[n] \in DOMAIN l \cap R
    BY <1>4, <1>8
  <2> QED BY <1>10, <2>1, <2>2
<1>13. IsInjective(f)
  <2>1. ASSUME NEW s \in to, NEW t \in to, f[s] = f[t] PROVE s = t
    <3>1. mover(s) = mover(t)
      BY <1>5, <1>7, <1>9, <1>11, <2>1
    <3> QED BY <1>5, <3>1
  <2> QED BY <1>9, <2>1 DEF IsInjective
<1>14. IsInjective(g)
  BY <1>8, <1>9, <1>11 DEF IsInjective
<1>15. \A s \in to, n \in moved \ homed : f[s] # g[n]
  BY <1>5, <1>7, <1>8, <1>9, <1>11
<1>16. Housed(v.layouts, v.parked, k)
  <2>1. Leave(l, m.parked, R, to, moved \ homed, f, g, v.layouts, v.parked)
    BY <1>2, <1>3, <1>6, <1>12, <1>13, <1>14, <1>15 DEF Leave
  <2> QED BY <2>1, TreesLeave DEF Held
<1> QED BY <1>1, <1>16 DEF Held, v

LEMMA ReattachHeld ==
  ASSUME NEW m, NEW k, NEW shown, Held(m, k, shown)
  PROVE  Held(Reattach(m), k, shown)
<1> DEFINE v == Reattach(m)
           p == m.parked
           homed == {n \in DOMAIN p : BackingFor(m.ws, n) # None}
           to == {Active(m.ws[n]) : n \in homed}
           owner(s) == CHOOSE n \in homed : Active(m.ws[n]) = s
           f == [s \in to |-> owner(s)]
<1>1. /\ DOMAIN v = Memories /\ v.ws = m.ws /\ v.queued = m.queued
      /\ v.layouts = Over([s \in to |-> p[owner(s)]], m.layouts)
      /\ v.parked = Without(p, homed)
  BY DEF Reattach, Held, Memories
<1>2. /\ DOMAIN v.layouts \subseteq to \cup DOMAIN m.layouts
      /\ \A s \in DOMAIN v.layouts : v.layouts[s] = IF s \in to THEN p[f[s]] ELSE m.layouts[s]
  BY <1>1 DEF Over
<1>3. DOMAIN v.parked \subseteq DOMAIN p \ homed /\ \A n \in DOMAIN v.parked : v.parked[n] = p[n]
  BY <1>1 DEF Without
<1>4. \A s \in to : owner(s) \in homed /\ Active(m.ws[owner(s)]) = s
  OBVIOUS
<1>5. None \notin to
  BY DEF BackingFor
<1>6. f \in [to -> DOMAIN p \cap homed]
  BY <1>4
<1>7. IsInjective(f)
  BY <1>4 DEF IsInjective
<1> HIDE DEF v, homed, to, f
<1>8. Return(m.layouts, p, homed, to, f, v.layouts, v.parked)
  BY <1>2, <1>3, <1>5, <1>6, <1>7 DEF Return
<1>9. Housed(v.layouts, v.parked, k)
  BY <1>8, TreesReturn DEF Held
<1> QED BY <1>1, <1>9 DEF Held, v

LEMMA SettleHeld ==
  ASSUME NEW m, NEW k, NEW shown, Held(m, k, shown), NEW o, Seeing(o)
  PROVE  Held(Settle(m, o), k, shown)
<1> DEFINE v == Settle(m, o)
<1>1. /\ DOMAIN v = Memories /\ v.ws = m.ws /\ v.parked = m.parked
      /\ v.queued = m.queued \cup EnsurePersistent(m.ws)
      /\ v.layouts = Over(m.layouts, [s \in ToSet(o.strip) |-> 0])
  BY DEF Settle, Held, Memories
<1> HIDE DEF v
<1>2. Registry(v.ws, v.queued)
  <2>1. \A n \in DOMAIN m.ws : Active(m.ws[n]) = None => m.ws[n].backing = None
    BY TypedIs, NoneIsNone DEF Held, Registry
  <2>2. \A n \in DOMAIN v.ws \cap v.queued : v.ws[n].backing = None
    BY <1>1, <2>1 DEF EnsurePersistent, Held, Registry
  <2> QED BY <1>1, <2>2 DEF Held, Registry
<1>3. Housed(v.layouts, v.parked, k)
  <2>1. \A i \in DOMAIN o.strip : o.strip[i] \in SpaceIds
    BY LenProperties, ElementOfSeq DEF Seeing, Distinct
  <2>2. None \notin ToSet(o.strip)
    BY <2>1, NoneIsNone DEF ToSet
  <2>3. /\ DOMAIN v.layouts = DOMAIN m.layouts \cup ToSet(o.strip)
        /\ \A s \in DOMAIN v.layouts :
             v.layouts[s] = IF s \in DOMAIN m.layouts THEN m.layouts[s] ELSE 0
    BY <1>1 DEF Over
  <2> QED BY <1>1, <2>2, <2>3 DEF Held, Housed
<1> QED BY <1>1, <1>2, <1>3 DEF Held, v

\* One whole observation.
LEMMA BeforeHeld ==
  ASSUME NEW m, NEW k, Held(m, k, obs.full), DOMAIN config \subseteq Nat,
         NEW o, Seeing(o), NEW bound,
         bound # None => /\ bound.name \in DOMAIN Before(m, o, None).ws
                         /\ bound.space \in SpaceIds \ Claimed(Before(m, o, None).ws)
  PROVE  Held(Before(m, o, bound), k, o.full)
<1> DEFINE a == SyncDisplays(m, obs, o)
           b == ReconcileFullscreen(a, obs, o)
           c == RetireLost(b, obs, o)
<1>1. Held(a, k, obs.full)
  BY SyncHeld
<1> HIDE DEF a
<1>2. Held(b, k, o.full)
  BY <1>1, FullscreenHeld
<1> HIDE DEF b
<1>3. Held(c, k, o.full)
  BY <1>2, RetireHeld
<1> HIDE DEF c
<1>4. Before(m, o, None) = c /\ Before(m, o, bound) = BindAwaited(c, bound)
  BY DEF Before, BindAwaited, a, b, c
<1> QED BY <1>3, <1>4, BindHeld

LEMMA AfterHeld ==
  ASSUME NEW m, NEW k, NEW o, Held(m, k, o.full), Seeing(o), NEW external, NEW placing
  PROVE  Held(After(m, o, external, placing), k, o.full)
<1> DEFINE a == RemapSlots(m, o, external)
           b == IF placing THEN m ELSE ApplyRemapMoves(a, m.ws, o)
<1>1. Held(a, k, o.full) /\ DOMAIN a.ws = DOMAIN m.ws
  BY RemapHeld
<1> HIDE DEF a
<1>2. Held(b, k, o.full)
  BY <1>1, MovesHeld DEF Held
<1>3. After(m, o, external, placing) = Settle(Reattach(b), o)
  BY DEF After, a, b
<1> HIDE DEF b
<1> QED BY <1>2, <1>3, ReattachHeld, SettleHeld

-----------------------------------------------------------------------------
(* macOS: a strip shows no Space twice.                                      *)

\* What RemoveAt leaves.
LEMMA WithoutAt ==
  ASSUME NEW s \in Seq(SpaceIds), NEW i \in 1 .. Len(s)
  PROVE  /\ RemoveAt(s, i) \in Seq(SpaceIds) /\ Len(RemoveAt(s, i)) = Len(s) - 1
         /\ \A j \in 1 .. Len(RemoveAt(s, i)) :
              RemoveAt(s, i)[j] = IF j < i THEN s[j] ELSE s[j + 1]
<1> DEFINE a == SubSeq(s, 1, i - 1)
           b == SubSeq(s, i + 1, Len(s))
           rest == RemoveAt(s, i)
<1>1. Len(s) \in Nat /\ i \in Int /\ 1 <= i /\ i <= Len(s)
  BY LenProperties
<1>2. \A j \in 1 .. Len(s) : s[j] \in SpaceIds
  BY ElementOfSeq
<1>3. /\ a \in Seq(SpaceIds) /\ Len(a) = i - 1
      /\ \A j \in 1 .. i - 1 : a[j] = s[j]
  <2>1. \A j \in 1 .. i - 1 : s[j] \in SpaceIds
    BY <1>1, <1>2
  <2>2. /\ a \in Seq(SpaceIds) /\ Len(a) = IF 1 <= i - 1 THEN i - 1 - 1 + 1 ELSE 0
        /\ \A j \in 1 .. i - 1 - 1 + 1 : a[j] = s[1 + j - 1]
    BY <1>1, <2>1, SubSeqProperties
  <2> HIDE DEF a
  <2> QED BY <1>1, <2>2
<1>4. /\ b \in Seq(SpaceIds) /\ Len(b) = Len(s) - i
      /\ \A j \in 1 .. Len(s) - i : b[j] = s[j + i]
  <2>1. \A j \in i + 1 .. Len(s) : s[j] \in SpaceIds
    BY <1>1, <1>2
  <2>2. /\ b \in Seq(SpaceIds)
        /\ Len(b) = IF i + 1 <= Len(s) THEN Len(s) - (i + 1) + 1 ELSE 0
        /\ \A j \in 1 .. Len(s) - (i + 1) + 1 : b[j] = s[i + 1 + j - 1]
    BY <1>1, <2>1, SubSeqProperties
  <2> HIDE DEF b
  <2> QED BY <1>1, <2>2
<1>5. rest = a \o b
  BY DEF RemoveAt
<1> HIDE DEF a, b, rest
<1>6. /\ rest \in Seq(SpaceIds) /\ Len(rest) = Len(a) + Len(b)
      /\ \A j \in 1 .. Len(a) + Len(b) :
           rest[j] = IF j <= Len(a) THEN a[j] ELSE b[j - Len(a)]
  BY <1>3, <1>4, <1>5, ConcatProperties
<1>7. Len(rest) = Len(s) - 1
  BY <1>1, <1>3, <1>4, <1>6
<1>8. ASSUME NEW j \in 1 .. Len(rest)
      PROVE  rest[j] = IF j < i THEN s[j] ELSE s[j + 1]
  <2>1. j \in 1 .. Len(a) + Len(b) /\ j \in Int /\ 1 <= j /\ j <= Len(s) - 1
    BY <1>1, <1>6, <1>7
  <2>2. rest[j] = IF j <= i - 1 THEN a[j] ELSE b[j - (i - 1)]
    BY <1>3, <1>6, <2>1
  <2>3. CASE j < i
    <3>1. j \in 1 .. i - 1
      BY <1>1, <2>1, <2>3
    <3> QED BY <1>3, <2>2, <2>3, <3>1
  <2>4. CASE ~(j < i)
    <3>1. j - (i - 1) \in 1 .. Len(s) - i /\ j - (i - 1) + i = j + 1 /\ ~(j <= i - 1)
      BY <1>1, <2>1, <2>4
    <3>2. b[j - (i - 1)] = s[j - (i - 1) + i]
      BY <1>4, <3>1
    <3> QED BY <2>2, <2>4, <3>1, <3>2
  <2> QED BY <2>3, <2>4
<1> QED BY <1>6, <1>7, <1>8 DEF rest

LEMMA StripChanges ==
  ASSUME NEW q, Distinct(q)
  PROVE  /\ \A s \in SpaceIds \ ToSet(q) : Distinct(Append(q, s))
         /\ \A i \in DOMAIN q : Distinct(RemoveAt(q, i))
         /\ Distinct(Reverse(q))
         /\ \A S \in SUBSET SpaceIds : \A r \in SetToSeqs(S) : Distinct(r)
         /\ Distinct(<<>>)
<1>1. /\ Len(q) \in Nat /\ DOMAIN q = 1 .. Len(q) /\ q \in Seq(SpaceIds)
      /\ \A i \in 1 .. Len(q) : q[i] \in SpaceIds
      /\ \A i, j \in 1 .. Len(q) : q[i] = q[j] => i = j
  BY LenProperties, ElementOfSeq DEF Distinct, IsInjective
<1>2. ASSUME NEW s \in SpaceIds \ ToSet(q) PROVE Distinct(Append(q, s))
  <2> DEFINE r == Append(q, s)
  <2>1. /\ r \in Seq(SpaceIds) /\ Len(r) = Len(q) + 1
        /\ \A i \in 1 .. Len(q) : r[i] = q[i]
        /\ r[Len(q) + 1] = s
    BY <1>1, AppendProperties
  <2> HIDE DEF r
  <2>2. \A i \in 1 .. Len(q) : r[i] # s
    BY <1>1, <2>1 DEF ToSet
  <2>3. DOMAIN r = 1 .. Len(q) + 1
    BY <2>1, LenProperties
  <2>4. \A i \in 1 .. Len(q) + 1 : i \in 1 .. Len(q) \/ i = Len(q) + 1
    BY <1>1
  <2>5. IsInjective(r)
    BY <1>1, <2>1, <2>2, <2>3, <2>4 DEF IsInjective
  <2> QED BY <2>1, <2>5 DEF Distinct, r
<1>3. ASSUME NEW i \in DOMAIN q PROVE Distinct(RemoveAt(q, i))
  <2> DEFINE r == RemoveAt(q, i)
  <2>1. /\ r \in Seq(SpaceIds) /\ Len(r) = Len(q) - 1 /\ i \in 1 .. Len(q)
        /\ \A j \in 1 .. Len(r) : r[j] = IF j < i THEN q[j] ELSE q[j + 1]
    BY <1>1, WithoutAt
  <2> HIDE DEF r
  <2>2. DOMAIN r = 1 .. Len(q) - 1
    BY <2>1, LenProperties
  <2>3. ASSUME NEW j \in 1 .. Len(q) - 1, NEW h \in 1 .. Len(q) - 1, r[j] = r[h]
        PROVE  j = h
    <3>1. PICK x \in 1 .. Len(q) : r[j] = q[x] /\ x = IF j < i THEN j ELSE j + 1
      BY <1>1, <2>1
    <3>2. PICK y \in 1 .. Len(q) : r[h] = q[y] /\ y = IF h < i THEN h ELSE h + 1
      BY <1>1, <2>1
    <3>3. x = y
      BY <1>1, <2>3, <3>1, <3>2
    <3> QED BY <1>1, <2>1, <3>1, <3>2, <3>3
  <2> QED BY <2>1, <2>2, <2>3 DEF Distinct, IsInjective, r
<1>4. Distinct(Reverse(q))
  <2> DEFINE r == Reverse(q)
  <2>1. r = [i \in 1 .. Len(q) |-> q[(Len(q) - i) + 1]]
    BY DEF Reverse
  <2>2. \A i \in 1 .. Len(q) : (Len(q) - i) + 1 \in 1 .. Len(q)
    BY <1>1
  <2>3. r \in [1 .. Len(q) -> SpaceIds]
    BY <1>1, <2>1, <2>2
  <2>4. r \in Seq(SpaceIds)
    BY <1>1, <2>3
  <2>5. ASSUME NEW i \in 1 .. Len(q), NEW j \in 1 .. Len(q), r[i] = r[j] PROVE i = j
    <3>1. (Len(q) - i) + 1 = (Len(q) - j) + 1
      BY <1>1, <2>1, <2>2, <2>5
    <3> QED BY <1>1, <3>1
  <2> QED BY <2>3, <2>4, <2>5 DEF Distinct, IsInjective
<1>5. ASSUME NEW S \in SUBSET SpaceIds, NEW r \in SetToSeqs(S) PROVE Distinct(r)
  <2>1. Cardinality(S) \in Nat
    <3>1. IsFiniteSet(S)
      BY FS_Subset, PersistenceAssumption
    <3> QED BY <3>1, FS_CardinalityType
  <2>2. /\ r \in [1 .. Cardinality(S) -> S]
        /\ \A i, j \in 1 .. Cardinality(S) : i # j => r[i] # r[j]
    BY DEF SetToSeqs
  <2> QED BY <2>1, <2>2 DEF Distinct, IsInjective
<1>6. Distinct(<<>>)
  BY EmptySeq DEF Distinct, IsInjective
<1> QED BY <1>2, <1>3, <1>4, <1>5, <1>6

-----------------------------------------------------------------------------
(* The inductive invariant: the registry shares no Space, a tree has one     *)
(* home, in memory and in every file, and no tree is newer than the last     *)
(* command.                                                                  *)

WholeFile(c, k) ==
  c.kind = "state" => Housed(c.layouts, c.named, k) /\ Registry(c.ws, DOMAIN c.ws)

Watched ==
  /\ Distinct(strip) /\ full \in SpaceIds \cup {None}
  /\ obs = Blind \/ Seeing(obs)
  /\ config \in Configs

Homely ==
  /\ Watched
  /\ trees \in Nat /\ Held(Memory, trees, obs.full)
  /\ \A c \in {tmp.content, file, trying} \cup survivors : WholeFile(c, trees)

LEMMA NothingHoused == ASSUME NEW k \in Nat PROVE Housed(<<>>, <<>>, k)
  BY EmptyRegistry DEF Housed

LEMMA NoState == ASSUME NEW k PROVE WholeFile(NoFile, k) /\ WholeFile(Torn, k)
  BY DEF WholeFile, NoFile, Torn

LEMMA InitHomely == ASSUME Init PROVE Homely
<1>1. Watched
  BY PersistenceAssumption DEF Init, Watched, Distinct, Blind
<1>2. Held(Memory, 0, obs.full)
  BY EmptyRegistry, NothingHoused DEF Init, Memory, Held, Memories
<1> QED BY <1>1, <1>2, NoState DEF Init, Homely

\* Later commands make no tree older.
LEMMA LaterHoused ==
  ASSUME NEW l, NEW p, NEW k, Housed(l, p, k)
  PROVE  Housed(l, p, k + 1)
<1>1. k \in Nat /\ \A x : x \in 0 .. k => x \in 0 .. k + 1
  BY DEF Housed
<1> QED BY <1>1 DEF Housed

\* What save_state writes.
LEMMA PersistedWhole == ASSUME Homely PROVE WholeFile(Persisted, trees)
<1> DEFINE owners == {n \in DOMAIN ws : HomeOf(n) \in DOMAIN layouts}
           R == {HomeOf(n) : n \in owners}
           g == [n \in owners |-> HomeOf(n)]
           nowhere == {}
           f == [s \in nowhere |-> s]
           named == Persisted.named
           rest == Persisted.layouts
           bare == Persisted.ws
<1>1. /\ named = [n \in owners \cup DOMAIN parked |->
                    IF n \in owners THEN layouts[HomeOf(n)] ELSE parked[n]]
      /\ rest = Without(layouts, R)
      /\ bare = [n \in DOMAIN ws |-> [ws[n] EXCEPT !.backing = None]]
  BY DEF Persisted
<1>2. Registry(ws, queued) /\ Housed(layouts, parked, trees)
  BY DEF Homely, Held, Memory
<1>3. \A n \in owners : HomeOf(n) \in Homes(ws[n])
  BY <1>2 DEF Housed, HomeOf, Homes
<1>4. \A m, n \in owners : HomeOf(m) = HomeOf(n) => m = n
  BY <1>2, <1>3 DEF Registry
<1>5. /\ g \in [owners -> DOMAIN layouts \cap R] /\ IsInjective(g)
      /\ f \in [nowhere -> DOMAIN layouts \cap R] /\ IsInjective(f)
      /\ None \notin nowhere /\ \A s \in nowhere, n \in owners : f[s] # g[n]
  BY <1>4 DEF IsInjective
<1>6. /\ DOMAIN named \subseteq owners \cup DOMAIN parked
      /\ \A n \in DOMAIN named : named[n] = IF n \in owners THEN layouts[g[n]] ELSE parked[n]
  BY <1>1
<1>7. /\ DOMAIN rest \subseteq nowhere \cup (DOMAIN layouts \ R)
      /\ \A s \in DOMAIN rest : rest[s] = IF s \in nowhere THEN layouts[f[s]] ELSE layouts[s]
  BY <1>1 DEF Without
<1>8. DOMAIN bare = DOMAIN ws /\ \A n \in DOMAIN ws : bare[n] = [ws[n] EXCEPT !.backing = None]
  BY <1>1
<1> HIDE DEF owners, R, g, f, nowhere, named, rest, bare
<1>9. Housed(rest, named, trees)
  <2>1. Leave(layouts, parked, R, nowhere, owners, f, g, rest, named)
    BY <1>5, <1>6, <1>7 DEF Leave
  <2> QED BY <1>2, <2>1, TreesLeave
<1>10. \A n \in DOMAIN bare : Typed(bare[n]) /\ bare[n].backing = None /\ Homes(bare[n]) = {}
  BY <1>2, <1>8, ClearedTyped DEF Registry
<1>11. Registry(bare, DOMAIN bare)
  BY <1>2, <1>8, <1>10 DEF Registry
<1> QED BY <1>9, <1>11 DEF WholeFile, rest, named, bare

\* The steps of macOS and the user.
MacOSMoves ==
  \/ AddSpace \/ RemoveSpace \/ Reorder \/ Rebuild \/ Unplug
  \/ GoFullscreen \/ LeaveFullscreen

LEMMA WorldHomely == ASSUME Homely, MacOSMoves PROVE Homely'
<1>1. UNCHANGED <<config, engine, disk, trees>>
  BY DEF MacOSMoves, AddSpace, RemoveSpace, Reorder, Rebuild, Unplug, GoFullscreen,
    LeaveFullscreen, World
<1>2. Distinct(strip) /\ full \in SpaceIds \cup {None}
  BY DEF Homely, Watched
<1>3. \A s \in ToSet(strip) : s \in SpaceIds
  BY <1>2, LenProperties, ElementOfSeq DEF Distinct, ToSet
<1>4. Distinct(strip') /\ full' \in SpaceIds \cup {None}
  <2>1. CASE AddSpace
    BY <1>2, <2>1, StripChanges DEF AddSpace
  <2>2. CASE RemoveSpace
    BY <1>2, <2>2, StripChanges DEF RemoveSpace
  <2>3. CASE Reorder
    BY <1>2, <2>3, StripChanges DEF Reorder
  <2>4. CASE Rebuild
    BY <1>2, <2>4, StripChanges DEF Rebuild
  <2>5. CASE Unplug
    BY <1>2, <2>5, StripChanges DEF Unplug
  <2>6. CASE GoFullscreen \/ LeaveFullscreen
    BY <1>2, <1>3, <2>6 DEF GoFullscreen, LeaveFullscreen
  <2> QED BY <2>1, <2>2, <2>3, <2>4, <2>5, <2>6 DEF MacOSMoves
<1>5. Memory' = Memory
  BY <1>1 DEF Memory, engine
<1> QED BY <1>1, <1>4, <1>5 DEF Homely, Watched, engine, disk

\* What is in memory afterwards is m.
LEMMA SetMemoryHeld ==
  ASSUME NEW m, NEW k, NEW shown, Held(m, k, shown), NEW q, q \subseteq m.queued,
         SetMemory([m EXCEPT !.queued = q])
  PROVE  Held(Memory', k, shown)
<1> DEFINE v == [m EXCEPT !.queued = q]
<1>1. /\ v.ws = m.ws /\ v.layouts = m.layouts /\ v.parked = m.parked /\ v.queued = q
  BY DEF Held, Memories
<1>2. ws' = m.ws /\ layouts' = m.layouts /\ parked' = m.parked /\ queued' = q
  BY <1>1 DEF SetMemory
<1>3. /\ DOMAIN Memory' = Memories
      /\ Memory'.ws = m.ws /\ Memory'.layouts = m.layouts
      /\ Memory'.parked = m.parked /\ Memory'.queued = q
  BY <1>2 DEF Memory, Memories
<1>4. Registry(m.ws, q)
  BY DEF Held, Registry
<1> QED BY <1>3, <1>4 DEF Held

LEMMA ObserveHomely == ASSUME Homely, Observe PROVE Homely'
<1> DEFINE now == [strip |-> strip, full |-> full]
           m0 == Before(Memory, now, None)
           free == ToSet(strip) \ Claimed(m0.ws)
<1>1. PICK bound \in {None} \cup [name : queued \cap DOMAIN m0.ws, space : free \ Seen(obs)],
           external \in SUBSET free, placing \in BOOLEAN,
           stale \in SUBSET (m0.queued \ DOMAIN m0.ws) :
        LET m == After(Before(Memory, now, bound), now, external, placing)
        IN  SetMemory([m EXCEPT !.queued = @ \ stale])
  BY DEF Observe
<1>2. UNCHANGED <<world, config, disk, bounds>> /\ obs' = now
  BY DEF Observe
<1> DEFINE m == After(Before(Memory, now, bound), now, external, placing)
<1>3. Seeing(now) /\ now.full = full /\ now.strip = strip
  BY DEF Homely, Watched, Seeing
<1>4. DOMAIN config \subseteq Nat
  BY PersistenceAssumption DEF Homely, Watched
<1>5. \A s \in ToSet(strip) : s \in SpaceIds
  BY LenProperties, ElementOfSeq DEF Homely, Watched, Distinct, ToSet
<1>6. bound # None => bound.name \in DOMAIN m0.ws /\ bound.space \in SpaceIds \ Claimed(m0.ws)
  BY <1>5
<1>7. Held(Memory, trees, obs.full)
  BY DEF Homely
<1> HIDE DEF now, m0, free
<1>8. Held(Before(Memory, now, bound), trees, now.full)
  BY <1>3, <1>4, <1>6, <1>7, BeforeHeld DEF m0
<1>9. Held(m, trees, now.full)
  BY <1>3, <1>8, AfterHeld
<1>10. SetMemory([m EXCEPT !.queued = m.queued \ stale])
  BY <1>1
<1> HIDE DEF m
<1>11. Held(Memory', trees, now.full)
  BY <1>9, <1>10, SetMemoryHeld
<1> QED BY <1>2, <1>3, <1>11 DEF Homely, Watched, Seeing, world, disk, bounds

LEMMA ArrangeHomely == ASSUME Homely, Arrange PROVE Homely'
<1>1. PICK s \in DOMAIN layouts : layouts' = [layouts EXCEPT ![s] = trees + 1]
  BY DEF Arrange
<1>2. trees' = trees + 1 /\ UNCHANGED <<world, config, obs, ws, parked, queued, disk>>
  BY DEF Arrange
<1>3. trees \in Nat /\ Housed(layouts, parked, trees) /\ Registry(ws, queued)
      /\ \A n \in DOMAIN ws : IsFullscreen(ws[n]) => obs.full # None
  BY DEF Homely, Held, Memory
<1>4. /\ DOMAIN layouts' = DOMAIN layouts /\ layouts'[s] = trees + 1
      /\ \A t \in DOMAIN layouts \ {s} : layouts'[t] = layouts[t]
  BY <1>1
<1>5. Housed(layouts', parked', trees')
  <2>1. Housed(layouts, parked, trees + 1)
    BY <1>3, LaterHoused
  <2>2. \A t \in DOMAIN layouts : layouts[t] \in Nat /\ layouts[t] # trees + 1
    BY <1>3 DEF Housed
  <2>3. \A n \in DOMAIN parked : parked[n] \in Nat /\ parked[n] # trees + 1
    BY <1>3 DEF Housed
  <2>4. trees + 1 \in 0 .. trees + 1 /\ trees + 1 \in Nat
    BY <1>3
  <2>5. Housed(layouts', parked, trees + 1)
    BY <1>4, <2>1, <2>2, <2>3, <2>4 DEF Housed
  <2> QED BY <1>2, <2>5
<1>6. Held(Memory', trees', obs'.full)
  BY <1>2, <1>3, <1>5 DEF Memory, Held, Memories
<1>7. \A c : WholeFile(c, trees) => WholeFile(c, trees')
  BY <1>2, LaterHoused DEF WholeFile
<1> QED BY <1>2, <1>3, <1>6, <1>7 DEF Homely, Watched, world, disk

LEMMA ReloadHomely == ASSUME Homely, Reload PROVE Homely'
<1>1. PICK c \in Configs \ {config}, placing \in BOOLEAN,
           external \in SUBSET (ToSet(obs.strip) \ Claimed(ws)) :
        LET synced == [Memory EXCEPT !.ws = IF obs.strip = <<>> THEN <<>>
                                             ELSE SyncConfig(ws, c, TRUE)]
            remapped == IF placing THEN synced ELSE RemapSlots(synced, obs, external)
            dead == DOMAIN ws \ DOMAIN remapped.ws
            gone == {Active(ws[n]) : n \in dead} \ Claimed(remapped.ws)
        IN  /\ config' = c
            /\ SetMemory([remapped EXCEPT !.layouts = Without(@, gone),
                                          !.parked  = Without(@, dead)])
  BY DEF Reload
<1> DEFINE synced == [Memory EXCEPT !.ws = IF obs.strip = <<>> THEN <<>>
                                            ELSE SyncConfig(ws, c, TRUE)]
           remapped == IF placing THEN synced ELSE RemapSlots(synced, obs, external)
           dead == DOMAIN ws \ DOMAIN remapped.ws
           gone == {Active(ws[n]) : n \in dead} \ Claimed(remapped.ws)
           v == [remapped EXCEPT !.layouts = Without(@, gone), !.parked = Without(@, dead)]
<1>2. UNCHANGED <<world, obs, disk, trees>> /\ obs # Blind
  BY DEF Reload
<1>3. Held(Memory, trees, obs.full)
  BY DEF Homely
<1>4. Held(synced, trees, obs.full)
  <2>1. CASE obs.strip = <<>>
    BY <1>3, <2>1, EmptyRegistry, SetRegistryHeld
  <2>2. CASE obs.strip # <<>>
    <3>1. DOMAIN c \subseteq Nat /\ Registry(ws, queued)
          /\ \A n \in DOMAIN ws : IsFullscreen(ws[n]) => obs.full # None
      BY <1>3, PersistenceAssumption DEF Held, Memory
    <3>2. /\ Registry(SyncConfig(ws, c, TRUE), queued)
          /\ \A n \in DOMAIN SyncConfig(ws, c, TRUE) :
               IsFullscreen(SyncConfig(ws, c, TRUE)[n]) => obs.full # None
      BY <3>1, SyncConfigIs
    <3>3. Memory.queued = queued
      BY DEF Memory
    <3>4. synced = [Memory EXCEPT !.ws = SyncConfig(ws, c, TRUE)]
      BY <2>2
    <3> QED BY <1>3, <3>2, <3>3, <3>4, SetRegistryHeld
  <2> QED BY <2>1, <2>2
<1> HIDE DEF synced
<1>5. Held(remapped, trees, obs.full)
  <2>1. CASE placing
    BY <1>4, <2>1
  <2>2. CASE ~placing
    <3>1. Seeing(obs)
      BY <1>2 DEF Homely, Watched
    <3> QED BY <1>4, <2>2, <3>1, RemapHeld
  <2> QED BY <2>1, <2>2
<1>6. config' = c /\ SetMemory(v)
  BY <1>1 DEF synced
<1> HIDE DEF remapped, dead, gone
<1>7. /\ DOMAIN v = Memories /\ v.ws = remapped.ws /\ v.queued = remapped.queued
      /\ v.layouts = Without(remapped.layouts, gone)
      /\ v.parked = Without(remapped.parked, dead)
  BY <1>5 DEF Held, Memories
<1>8. Housed(v.layouts, v.parked, trees)
  BY <1>5, <1>7 DEF Held, Housed, Without
<1>9. Held(v, trees, obs.full)
  BY <1>5, <1>7, <1>8 DEF Held
<1> HIDE DEF v
<1>10. Memory' = [ws |-> v.ws, layouts |-> v.layouts, parked |-> v.parked, queued |-> v.queued]
  BY <1>6 DEF SetMemory, Memory
<1>11. Held(Memory', trees, obs.full)
  BY <1>9, <1>10 DEF Held, Memories
<1> QED BY <1>2, <1>6, <1>11 DEF Homely, Watched, world, disk

LEMMA LoadHomely == ASSUME Homely, Load PROVE Homely'
<1>1. UNCHANGED <<world, config, disk, bounds>> /\ obs' = Blind /\ queued' = {}
  BY DEF Load
<1>2. WholeFile(file, trees) /\ trees \in Nat
  BY DEF Homely
<1>3. Registry(ws', {}) /\ Housed(layouts', parked', trees)
      /\ \A n \in DOMAIN ws' : ~IsFullscreen(ws'[n])
  <2>1. CASE file.kind # "state"
    <3>1. ws' = <<>> /\ layouts' = <<>> /\ parked' = <<>>
      BY <2>1 DEF Load
    <3>2. Housed(<<>>, <<>>, trees)
      BY <1>2, NothingHoused
    <3> QED BY <3>1, <3>2, EmptyRegistry
  <2>2. CASE file.kind = "state"
    <3>1. ws' = file.ws /\ layouts' = file.layouts /\ parked' = file.named
      BY <2>2 DEF Load
    <3>2. Registry(file.ws, DOMAIN file.ws) /\ Housed(file.layouts, file.named, trees)
      BY <1>2, <2>2 DEF WholeFile
    <3>3. Registry(file.ws, {}) /\ \A n \in DOMAIN file.ws : ~IsFullscreen(file.ws[n])
      BY <3>2 DEF Registry, IsFullscreen
    <3> QED BY <3>1, <3>2, <3>3
  <2> QED BY <2>1, <2>2
<1>4. Held(Memory', trees, obs'.full)
  BY <1>1, <1>3 DEF Memory, Held, Memories
<1> QED BY <1>1, <1>4 DEF Homely, Watched, world, disk, bounds

\* The daemon goes; with the machine, what it had not synced goes too.
LEMMA StopHomely == ASSUME Homely, Crash \/ PowerLoss PROVE Homely'
<1>1. /\ obs' = Blind /\ ws' = <<>> /\ layouts' = <<>> /\ parked' = <<>> /\ queued' = {}
      /\ trying' = NoFile /\ UNCHANGED <<config, trees>>
  BY DEF Crash, PowerLoss, Stop
<1>2. trees \in Nat
  BY DEF Homely
<1>3. Held(Memory', trees', obs'.full)
  <2>1. Housed(<<>>, <<>>, trees)
    BY <1>2, NothingHoused
  <2> QED BY <1>1, <2>1, EmptyRegistry DEF Memory, Held, Memories
<1>4. Distinct(strip') /\ full' \in SpaceIds \cup {None}
  <2>1. Distinct(strip) /\ full \in SpaceIds \cup {None}
    BY DEF Homely, Watched
  <2> QED BY <2>1, StripChanges DEF Crash, PowerLoss, world
<1>5. \A c \in {tmp'.content, file', trying'} \cup survivors' :
        c \in {tmp.content, file, NoFile} \cup survivors
  BY <1>1 DEF Crash, PowerLoss
<1> QED BY <1>1, <1>2, <1>3, <1>4, <1>5, NoState DEF Homely, Watched

SaveSteps == Create \/ Write \/ Sync \/ Rename \/ SyncDir \/ SaveFails

LEMMA SaveHomely == ASSUME Homely, TmpWhole, SaveSteps PROVE Homely'
<1>1. UNCHANGED <<world, config, engine, trees>>
  BY DEF SaveSteps, Create, Write, Sync, Rename, SyncDir, SaveFails, bounds
<1>2. WholeFile(Persisted, trees) /\ WholeFile(NoFile, trees) /\ WholeFile(Torn, trees)
  BY PersistedWhole, NoState
<1>3. \A c \in {tmp'.content, file', trying'} \cup survivors' :
        c \in {tmp.content, file, trying, Persisted, NoFile, Torn} \cup survivors
  <2>1. CASE Create
    BY <2>1 DEF Create
  <2>2. CASE Write
    BY <2>2 DEF Write
  <2>3. CASE Sync
    <3>1. tmp = [content |-> trying, synced |-> FALSE]
      BY <2>3 DEF Sync, TmpWhole
    <3>2. tmp' = [content |-> trying, synced |-> TRUE]
      BY <2>3, <3>1 DEF Sync
    <3> QED BY <2>3, <3>2 DEF Sync
  <2>4. CASE Rename
    BY <2>4 DEF Rename
  <2>5. CASE SyncDir \/ SaveFails
    BY <2>5 DEF SyncDir, SaveFails
  <2> QED BY <2>1, <2>2, <2>3, <2>4, <2>5 DEF SaveSteps
<1>4. Memory' = Memory
  BY <1>1 DEF Memory, engine
<1> QED BY <1>1, <1>2, <1>3, <1>4 DEF Homely, Watched, world, engine

LEMMA NextHomely == ASSUME Homely, TmpWhole, [Next]_vars PROVE Homely'
<1>1. CASE ReloadFails \/ Shutdown \/ UNCHANGED vars
  <2>1. UNCHANGED <<world, config, engine, disk, trees>>
    BY <1>1 DEF ReloadFails, Shutdown, vars, bounds
  <2>2. Memory' = Memory
    BY <2>1 DEF Memory, engine
  <2> QED BY <2>1, <2>2 DEF Homely, Watched, world, engine, disk
<1> QED
  BY <1>1, WorldHomely, ObserveHomely, ArrangeHomely, ReloadHomely, LoadHomely, StopHomely,
    SaveHomely DEF Next, MacOSMoves, SaveSteps

\* An arrangement the user made has one home, a Space's tree or a parked one
\* (clear_stale_backing, apply_remap_moves, reattach, save_state, load_state),
\* for any Spaces, configurations and bounds, across crashes and restarts.
THEOREM OneHomeHolds == Spec => []OneHome
<1>1. Init => Homely /\ FilesWhole /\ TmpWhole
  BY InitHomely, InitWhole
<1>2. Homely /\ FilesWhole /\ TmpWhole /\ [Next]_vars => Homely' /\ FilesWhole' /\ TmpWhole'
  BY NextHomely, NextWhole
<1>3. Homely => OneHome
  BY DEF Homely, Held, Memory, Housed, OneHome, Range
<1> QED BY <1>1, <1>2, <1>3, PTL DEF Spec

\* No Space backs two workspaces, shown or returned to.
Unshared ==
  \A m, n \in DOMAIN ws : m # n => Homes(ws[m]) \cap Homes(ws[n]) = {}

\* remap_after_snapshot, bind_awaited_dynamic_spaces, reconcile_fullscreen: a
\* Space backs at most one workspace, whatever the user, the Dock and reloads do
\* to Spaces, as long as one window at a time is in fullscreen.
THEOREM UnsharedHolds == Spec => []Unshared
<1>1. Init => Homely /\ FilesWhole /\ TmpWhole
  BY InitHomely, InitWhole
<1>2. Homely /\ FilesWhole /\ TmpWhole /\ [Next]_vars => Homely' /\ FilesWhole' /\ TmpWhole'
  BY NextHomely, NextWhole
<1>3. Homely => Unshared
  BY DEF Homely, Held, Memory, Registry, Unshared
<1> QED BY <1>1, <1>2, <1>3, PTL DEF Spec
=============================================================================
