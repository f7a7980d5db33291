------------------------------- MODULE Layout -------------------------------
(***************************************************************************)
(* The BSP layout of the engine (rovr-core/src/layout.rs, engine.rs) and   *)
(* the commands of the daemon that change it (rovr-daemon/src/main.rs).    *)
(*                                                                         *)
(* seen is where the last observation found the windows: the next one may  *)
(* find them anywhere.  A step of the daemon is a command with the         *)
(* observation that follows it; the observation may fail, and then the     *)
(* trees have changed but no frame has been computed for them (missed      *)
(* counts such commands).                                                  *)
(*                                                                         *)
(* Gaps and padding are zero, a resize is given in tenths of the split it  *)
(* moves.  Fullscreen, minimized and rule-floated windows are tiled or not *)
(* exactly like floating ones and are not told apart from them.            *)
(***************************************************************************)
EXTENDS BspTree

CONSTANTS
  Windows,    \* window ids
  Spaces,
  None,
  Size,       \* width and height of every display
  Ratios,     \* what set-ratio is asked for, in tenths
  Deltas,     \* what resize is asked for, outward or inward, in tenths
  MaxEdits,   \* bound: commands that change the layout
  MaxRefresh, \* bound: observations without a command
  MaxMissed   \* bound: commands without an observation, since the last one

ASSUME LayoutConstants ==
  /\ Windows \subseteq Nat /\ IsFiniteSet(Windows) /\ None \notin Windows \cup Spaces
  /\ Size \in Nat \ {0} /\ Ratios \subseteq Int /\ Deltas \subseteq Nat \ {0}
  /\ {MaxEdits, MaxRefresh, MaxMissed} \subseteq Nat

VARIABLES
  seen,       \* engine.observed: the Space of each window
  floating,   \* the windows with desired.floating
  closing,    \* engine.pending_close
  trees,      \* engine.layouts
  frames,     \* desired.windows[].frame
  missed,
  edits,      \* how many there have been
  refreshes

vars == <<seen, floating, closing, trees, frames, missed, edits, refreshes>>

Area == [x |-> 0, y |-> 0, w |-> Size, h |-> Size]
Places == Spaces \cup {None}
OutOrIn == Deltas \cup {-d : d \in Deltas}

Init ==
  /\ seen = [w \in Windows |-> None]
  /\ floating = {} /\ closing = {}
  /\ trees = [s \in Spaces |-> EmptyTree]
  /\ frames = [w \in Windows |-> None]
  /\ missed = 0 /\ edits = 0 /\ refreshes = 0

-----------------------------------------------------------------------------
\* Observation.

\* The windows a synced tree holds: the tiled ones and those about to close.
TreeMembers(at, s, floats, gone) ==
  {w \in Windows : at[w] = s /\ (w \notin floats \/ w \in gone)}

\* apply_layout on trees t: a tree is synced while its Space has tiled windows.
ApplyLayout(t, at, floats, gone) ==
  LET tiled == {w \in Windows : at[w] # None} \ (floats \cup gone)
      synced(s) == IF \E w \in tiled : at[w] = s
                   THEN SyncWithWindows(t[s], TreeMembers(at, s, floats, gone))
                   ELSE t[s]
  IN  /\ trees' = [s \in Spaces |-> synced(s)]
      /\ frames' = [w \in Windows |-> IF w \in tiled
                                      THEN Placement(trees'[at[w]], w, Area)
                                      ELSE None]

\* A complete observation, of the windows at at: what is gone is forgotten, the
\* layout is applied, and a close that was pending has had its effect on it.
Observed(t, at, floats, gone) ==
  LET there == {w \in Windows : at[w] # None}
  IN  /\ seen' = at
      /\ floating' = floats \cap there
      /\ ApplyLayout(t, at, floats \cap there, gone \cap there)
      /\ closing' = {}
      /\ missed' = 0

\* The snapshot that should follow a command fails.
Unobserved(t, floats, gone) ==
  /\ missed < MaxMissed /\ missed' = missed + 1
  /\ floating' = floats /\ closing' = gone /\ trees' = t
  /\ frames' = [w \in Windows |-> IF w \in floats THEN None ELSE frames[w]]
  /\ UNCHANGED seen

\* A command is followed by an observation.  What else has moved by then is
\* the same as a failed one and the next.
Follow(t, floats, gone) ==
  /\ edits < MaxEdits /\ edits' = edits + 1 /\ UNCHANGED refreshes
  /\ Observed(t, seen, floats, gone) \/ Unobserved(t, floats, gone)

Refresh ==
  /\ \E at \in [Windows -> Places] : Observed(trees, at, floating, closing)
  /\ refreshes < MaxRefresh /\ refreshes' = refreshes + 1 /\ UNCHANGED edits

-----------------------------------------------------------------------------
\* Commands.

Retree(s, t) == Follow([trees EXCEPT ![s] = t], floating, closing)

RotateLayout(s)  == Retree(s, Rotate(trees[s]))
MirrorLayout(s)  == Retree(s, Mirror(trees[s]))
BalanceLayout(s) == Retree(s, Balance(trees[s]))
SetSplitRatio(s, r) == Retree(s, SetRatio(trees[s], r))

\* Any tree with both windows will do, not the one of their Space.
SwapWindows(a, b) ==
  \E s \in Spaces :
    /\ a # b /\ {a, b} \subseteq Leaves(trees[s])
    /\ Retree(s, Swap(trees[s], a, b))

\* Any tree with the target will do, too.
WarpWindow(w, target) ==
  \E s \in Spaces :
    /\ w # target /\ seen[w] # None /\ seen[target] # None
    /\ target \in Leaves(trees[s])
    /\ Retree(s, Warp(trees[s], w, target))

\* closest_window_in_direction goes by the real frames, so any window of the
\* same Space, floating or not, may be the nearest one that way.
Neighbours(w) == {v \in Windows \ {w} : seen[w] # None /\ seen[v] = seen[w]}
SwapWindowsDirection(from) == \E target \in Neighbours(from) : SwapWindows(from, target)
WarpWindowDirection(from)  == \E target \in Neighbours(from) : WarpWindow(from, target)

\* Without a boundary to move this is a one-shot change of the real frame.
ResizeWindowEdge(w, edge, delta) ==
  \E s \in Spaces :
    /\ seen[w] = s /\ w \notin floating /\ w \in Leaves(trees[s])
    /\ Facing(trees[s], w, edge) # {}
    /\ Retree(s, ResizeEdge(trees[s], w, edge, delta))

ToggleFloat(w) ==
  /\ seen[w] # None
  /\ Follow(trees, IF w \in floating THEN floating \ {w} ELSE floating \cup {w}, closing)

\* The close is asked for and takes effect before the observation, or later,
\* or never (the application asks whether to save).  When the request fails
\* the mark is cleared and nothing has changed.
CloseWindow(w) ==
  /\ seen[w] # None
  /\ Follow(trees, floating, closing \cup {w})

Next ==
  \/ Refresh
  \/ \E s \in Spaces : RotateLayout(s) \/ MirrorLayout(s) \/ BalanceLayout(s)
  \/ \E s \in Spaces, r \in Ratios : SetSplitRatio(s, r)
  \/ \E a, b \in Windows : SwapWindows(a, b) \/ WarpWindow(a, b)
  \/ \E w \in Windows, e \in Edges, d \in OutOrIn : ResizeWindowEdge(w, e, d)
  \/ \E w \in Windows : SwapWindowsDirection(w) \/ WarpWindowDirection(w)
  \/ \E w \in Windows : ToggleFloat(w) \/ CloseWindow(w)

Symmetry == Permutations(Spaces)

Spec == Init /\ [][Next]_vars

-----------------------------------------------------------------------------
\* Properties.

Rects == [x : 0 .. Size, y : 0 .. Size, w : 0 .. Size, h : 0 .. Size]
Shown(s) == {w \in Windows : seen[w] = s /\ frames[w] # None}

\* Types; and every tree is a binary tree that has every window once.
TypeOK ==
  /\ seen \in [Windows -> Places]
  /\ floating \subseteq Windows /\ closing \subseteq Windows
  /\ \A s \in Spaces : WellFormed(trees[s], Windows)
  /\ \A w \in Windows : frames[w] = None \/ frames[w] \in Rects
  /\ missed \in 0 .. MaxMissed /\ edits \in 0 .. MaxEdits
  /\ refreshes \in 0 .. MaxRefresh

\* After an observation the tree of a Space with tiled windows has all of them
\* and no window of another Space, whatever commands did to which tree
\* (apply_layout, engine.rs swap_windows and warp_window).
TreesMatch ==
  missed = 0 => \A s \in Spaces : Shown(s) # {} =>
    /\ {w \in Windows : seen[w] = s} \ floating \subseteq Leaves(trees[s])
    /\ \A w \in Leaves(trees[s]) : seen[w] = s

Apart(f, g) == \/ f.x + f.w <= g.x \/ g.x + g.w <= f.x
               \/ f.y + f.h <= g.y \/ g.y + g.h <= f.y
Inside(x, y, f) == f.x <= x /\ x < f.x + f.w /\ f.y <= y /\ y < f.y + f.h

\* The frames' borders cut the display into cells, and the corner of each is in
\* a frame.
Filled(s) ==
  LET X == {0} \cup UNION {{frames[w].x, frames[w].x + frames[w].w} : w \in Shown(s)}
      Y == {0} \cup UNION {{frames[w].y, frames[w].y + frames[w].h} : w \in Shown(s)}
  IN  \A x \in X \ {Size}, y \in Y \ {Size} :
        \E w \in Shown(s) : Inside(x, y, frames[w])

\* The frames of a Space never overlap, and together they fill the display
\* unless the slot of a window about to close is left open (bsp.rs placements).
Tiling ==
  \A s \in Spaces :
    /\ \A u, v \in Shown(s) : u # v => Apart(frames[u], frames[v])
    /\ missed = 0 /\ Shown(s) # {} /\ Leaves(trees[s]) \subseteq Shown(s) => Filled(s)

\* Every tree in use shows the windows it holds, where they are.
Settled ==
  /\ missed = 0 /\ closing = {}
  /\ \A w \in Windows \ floating : seen[w] # None => frames[w] # None
  /\ \A s \in Spaces : Shown(s) # {} => Leaves(trees[s]) = Shown(s)

\* Is frame g beyond the edge of frame f?
Beyond(f, edge, g) ==
  CASE edge = "east"  -> g.x >= f.x + f.w
    [] edge = "west"  -> g.x + g.w <= f.x
    [] edge = "south" -> g.y >= f.y + f.h
    [] edge = "north" -> g.y + g.h <= f.y

\* A resize moves the boundary on which the edge lies: no window beyond the
\* edge grows and no other one shrinks when the edge moves outward, and the
\* other way round (bsp.rs resize_edge: "the nearest BSP split boundary").
EdgeMoves ==
  [][Settled /\ missed' = 0 => \A w \in Windows, e \in Edges, d \in OutOrIn :
       ResizeWindowEdge(w, e, d) => \A v \in Shown(seen[w]) :
            LET before == frames[v].w * frames[v].h
                after  == frames'[v].w * frames'[v].h
            IN  IF Beyond(frames[w], e, frames[v]) = (d > 0)
                THEN after <= before ELSE after >= before]_vars

Order == INSTANCE WindowOrder WITH order <- [s \in Spaces |-> LeafOrder(trees[s])]

\* Trees implement lists: no command or observation reorders more than it says.
KeepsOrder == Order!Spec

\* "Excluded from placement so the remaining windows retile instantly"
\* (engine.rs, pending_close): the windows that are shown fill the display.
RetilesAtOnce ==
  missed = 0 => \A s \in Spaces : Shown(s) # {} => Filled(s)
=============================================================================
