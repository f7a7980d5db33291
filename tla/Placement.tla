----------------------------- MODULE Placement -----------------------------
(***************************************************************************)
(* Which windows the engine places, where, and what it asks macOS for      *)
(* (rovr-core: layout.rs, reconcile.rs, the window policy of engine.rs;    *)
(* rovr-layout: the stateless layouts; rovr-layout-plugin: what is taken   *)
(* from a plugin).  An observation rebuilds the desired frames and Spaces  *)
(* from the rules, the scratchpads, the floating windows and the layouts;  *)
(* the reconciler turns the difference into actions; a batch is executed   *)
(* in order, and ends at its first failure.  Meanwhile the user moves,     *)
(* renames, minimizes, opens and closes windows.                           *)
(*                                                                         *)
(* Every Space backs a workspace here or none; Workspaces says which does, *)
(* and Layout is about the BSP trees, which these layouts do not have.     *)
(* Lengths are integers that the areas' divisions keep exact.              *)
(***************************************************************************)
EXTENDS Integers, Sequences, FiniteSets, SequencesExt, FiniteSetsExt

CONSTANTS
  Windows,    \* a set of numbers
  AppOf,      \* each window's application
  DisplayOf,  \* each Space's display
  NameOf,     \* the workspace of each Space, or None
  FrameOf,    \* each display's frame
  ConfigOf,   \* the configurations a file may hold, by name
  Malformed,  \* the patterns that are no regular expression
  Disks,      \* what the directory of plugins may hold: sets of files
  Titles, Untitled, \* the titles a window may take, and the one it opens with
  Answers,    \* what a plugin may answer
  Orders,     \* the orders a hash map may give the windows in
  Loose,      \* a frame no layout gives: where the user drops a window
  Centered,   \* the 800x600 frame a scratchpad shows its window in
  MaxUser,    \* bound on what the user does
  MaxFaults,  \* bound on actions macOS fails
  None

\* The windows by number.
InOrder  == SetToSortSeq(Windows, <)
Spaces   == DOMAIN DisplayOf
Displays == DOMAIN FrameOf
Configs  == DOMAIN ConfigOf
Pads     == UNION {DOMAIN ConfigOf[c].pads : c \in Configs}

\* What a rule selects windows by, None for any.
Selectors == {"app", "title", "workspace"}

\* A rule of the file: its selectors, and what it does.
IsRule(r) ==
  /\ DOMAIN r = Selectors \cup {"float", "ignore", "target"}
  /\ {r.float, r.ignore} \subseteq BOOLEAN

\* A scratchpad: what it takes.
IsPad(p) == DOMAIN p = {"app", "title"}

\* A workspace's own settings.
IsOwn(o) == DOMAIN o = {"layout", "plugin"}

\* A configuration: what every workspace starts from, the lengths, and those.
IsConfig(c) ==
  /\ DOMAIN c = {"workspaces", "general", "gap", "padding", "screen", "shadow", "rules", "pads"}
  /\ {c.gap, c.padding, c.screen} \subseteq Int /\ c.shadow \in BOOLEAN
  /\ IsOwn(c.general) /\ \A n \in DOMAIN c.workspaces : IsOwn(c.workspaces[n])
  /\ \A i \in DOMAIN c.rules : IsRule(c.rules[i])
  /\ \A n \in DOMAIN c.pads : IsPad(c.pads[n])

ASSUME PlacementAssumption ==
  /\ \A c \in Configs : IsConfig(ConfigOf[c])
  /\ Windows \subseteq Nat /\ IsFiniteSet(Windows)
  /\ Untitled \in Titles \ Malformed
  /\ MaxUser \in Nat /\ MaxFaults \in Nat

VARIABLES
  win,        \* the windows as they are
  observed,   \* the windows as the last observation saw them
  desired,    \* DesiredState: each window's Space, frame and floating flag
  config, insetsOff, open,  \* the configuration, the insets, the open scratchpads
  plugins,    \* the names of the plugins that are loaded
  shadowed,   \* shadow_applied
  turn,       \* the state loop's: to observe, or to act on what it observed
  batch,      \* the actions that are left to execute
  healing,    \* whether a failed action ends the batch, after a reload
  users, faults

cfg    == ConfigOf[config]
policy == <<config, insetsOff, open, plugins>>
vars   == <<win, observed, desired, policy, shadowed, turn, batch, healing, users, faults>>

Fresh(s) == [space |-> s, frame |-> Loose, title |-> Untitled, managed |-> TRUE,
             minimized |-> FALSE, shadow |-> TRUE]

---------------------------------------------------------------------------
(* What is loaded at the start and at every reload. *)

\* validate: nothing negative, no workspace that is not declared, no pattern
\* that does not compile.
Valid(c) ==
  /\ {c.gap, c.padding, c.screen} \subseteq Nat
  /\ \A r \in ToSet(c.rules) :
       /\ {r.workspace, r.target} \subseteq DOMAIN c.workspaces \cup {None}
       /\ {r.app, r.title} \cap Malformed = {}

Abi == 1

\* The manifest beside a module, else what the file's name says.
Manifest(f) == IF f.manifest = None THEN [name |-> f.stem, abi |-> Abi] ELSE f.manifest

Loads(f) == f.wasm /\ f.compiles /\ Manifest(f).abi = Abi /\ Manifest(f).name # ""

\* load_plugins_from_disk: a file that does not load, or whose name is taken, is
\* passed over.
Registered(files) == {Manifest(f).name : f \in {g \in files : Loads(g)}}

Init ==
  /\ win = [w \in Windows |-> Fresh(CHOOSE s \in Spaces : NameOf[s] # None)]
  /\ observed = [w \in Windows |-> None] /\ desired = [w \in Windows |-> None]
  /\ config \in {c \in Configs : Valid(ConfigOf[c])} /\ insetsOff = FALSE /\ open = {}
  /\ plugins \in {Registered(files) : files \in Disks}
  /\ shadowed = [w \in Windows |-> None]
  /\ turn = "observe" /\ batch = <<>> /\ healing = "no" /\ users = 0 /\ faults = 0

---------------------------------------------------------------------------
(* Which windows are placed. *)

\* Predicate: all of the rule's selectors match.
Matches(r, w, o) ==
  /\ r.app \in {None, AppOf[w]}
  /\ r.title \in {None, o.title}
  /\ r.workspace \in {None, NameOf[o.space]}

Ignored(c, w, o) == \E i \in DOMAIN c.rules : c.rules[i].ignore /\ Matches(c.rules[i], w, o)

\* backing_for, on the window's own display.
BackingFor(d, name) ==
  LET S == {s \in Spaces : DisplayOf[s] = d /\ NameOf[s] = name}
  IN  IF S = {} THEN None ELSE CHOOSE s \in S : TRUE

\* The first rule that names a workspace of the window's display.
TargetWorkspace(c, w, o) ==
  LET d == DisplayOf[o.space]
      I == {i \in DOMAIN c.rules : /\ c.rules[i].target # None /\ Matches(c.rules[i], w, o)
                                   /\ BackingFor(d, c.rules[i].target) # None}
  IN  IF I = {} THEN None ELSE BackingFor(d, c.rules[Min(I)].target)

InPad(pad, w, o) == pad.app \in {None, AppOf[w]} /\ pad.title \in {None, o.title}

Floats(c, w, o, floating) ==
  \/ ~o.managed \/ o.minimized \/ floating
  \/ \E i \in DOMAIN c.rules : c.rules[i].float /\ Matches(c.rules[i], w, o)
  \/ \E p \in DOMAIN c.pads \cap open : InPad(c.pads[p], w, o)

---------------------------------------------------------------------------
(* Areas and layouts. *)

\* What is left of a frame that gives up so much on each side, if anything.
Shrunk(f, side) ==
  IF f.w <= 2 * side \/ f.h <= 2 * side THEN None
  ELSE [x |-> f.x + side, y |-> f.y + side, w |-> f.w - 2 * side, h |-> f.h - 2 * side]

Inset(off, n) == IF off THEN 0 ELSE n

\* The screen padding first: nothing is placed on a display it takes whole.
Usable(c, off, s) == Shrunk(FrameOf[DisplayOf[s]], Inset(off, c.screen))

\* What is left of a length for each of n parts.
Share(length, gap, n) == LET l == (length - gap * (n - 1)) \div n IN IF l > 0 THEN l ELSE 0

Overlay(ws, area) == [w \in ToSet(ws) |-> area]

Columns(ws, area, gap) ==
  LET width == Share(area.w, gap, Len(ws))
  IN  [w \in ToSet(ws) |->
         LET i == CHOOSE j \in DOMAIN ws : ws[j] = w
         IN  [area EXCEPT !.x = @ + (i - 1) * (width + gap), !.w = width]]

\* The first window beside a stack of the others, split in half.
Master(ws, area, gap) ==
  IF Len(ws) = 1 THEN Overlay(ws, area)
  ELSE LET width  == (area.w - gap) \div 2
           height == Share(area.h, gap, Len(ws) - 1)
       IN  [w \in ToSet(ws) |->
              IF w = ws[1] THEN [area EXCEPT !.w = width]
              ELSE LET i == CHOOSE j \in DOMAIN ws : ws[j] = w
                   IN  [x |-> area.x + width + gap, y |-> area.y + (i - 2) * (height + gap),
                        w |-> area.w - gap - width, h |-> height]]

NoFrames == [w \in {} |-> None]

\* compute: nothing is placed in an area the padding takes whole.
Compute(kind, ws, area, gap) ==
  IF area = None \/ ws = <<>> THEN NoFrames
  ELSE CASE kind = "stack"   -> Overlay(ws, area)
         [] kind = "master"  -> Master(ws, area, gap)
         [] kind = "columns" -> Columns(ws, area, gap)
         [] kind = "float"   -> NoFrames

\* Mutant of Accepted: each placement is judged alone.
AcceptedAlone(answer, ws, area) ==
  \A p \in ToSet(answer) : p.window \in ToSet(ws) /\ p.frame.w > 0 /\ p.frame.h > 0

\* validate_placements: every window once, of a size and near the area.
Accepted(answer, ws, area) ==
  /\ Len(answer) = Len(ws)
  /\ {answer[i].window : i \in DOMAIN answer} = ToSet(ws)
  /\ \A p \in ToSet(answer) :
       /\ p.frame.w > 0 /\ p.frame.h > 0
       /\ p.frame.w <= 2 * area.w + 1 /\ p.frame.h <= 2 * area.h + 1
       /\ p.frame.x >= area.x - (2 * area.w + 1) /\ p.frame.y >= area.y - (2 * area.h + 1)
       /\ p.frame.x + p.frame.w <= area.x + 3 * area.w + 1
       /\ p.frame.y + p.frame.h <= area.y + 3 * area.h + 1

\* A plugin that lays columns out, in the order it is given, or errs.
Answer(kind, ws, area, gap) ==
  LET f == Columns(ws, area, gap)
      good == [i \in DOMAIN ws |-> [window |-> ws[i], frame |-> f[ws[i]]]]
  IN  CASE kind = "good"    -> good
        [] kind = "short"   -> Front(good)
        [] kind = "foreign" -> Append(Front(good), [window |-> None, frame |-> area])
        [] kind = "twice"   -> Front(good) \o <<[good[Len(good)] EXCEPT !.window = ws[1]]>>
        [] kind = "flat"    -> [good EXCEPT ![1].frame.w = 0]
        [] kind = "far"     -> [good EXCEPT ![1].frame.x = area.x + 4 * area.w]

\* resolve_layout: the workspace's own, else the general one.
Setting(c, s) ==
  IF NameOf[s] \in DOMAIN c.workspaces THEN c.workspaces[NameOf[s]] ELSE c.general

\* The plugin of a Space: its workspace's, else the general one.
PluginOf(c, s) == IF Setting(c, s).plugin # None THEN Setting(c, s).plugin ELSE c.general.plugin

\* Mutant of Sorted: as the hash map has them.
SortedAsSeen(seen) == seen

Sorted(seen) == SelectSeq(InOrder, LAMBDA w : w \in ToSet(seen))

\* One Space's placements.  The plugin sees the windows in the order of a hash
\* map, the layouts see them sorted.
Placed(c, off, s, seen, answer) ==
  LET area == Shrunk(Usable(c, off, s), Inset(off, c.padding))
      gap  == Inset(off, c.gap)
      got  == Answer(answer, seen, area, gap)
  IN  IF PluginOf(c, s) \in plugins /\ area # None /\ answer # "error" /\ Accepted(got, seen, area)
      THEN [w \in {p.window : p \in ToSet(got)} \cap ToSet(seen) |->
              (CHOOSE p \in ToSet(got) : p.window = w).frame]
      ELSE Compute(Setting(c, s).layout, Sorted(seen), area, gap)

---------------------------------------------------------------------------
(* apply_layout. *)

Target(space, frame, floating) == [space |-> space, frame |-> frame, floating |-> floating]

\* Mutant of Before: the rules' Spaces of the last cycle stay.
BeforeKept(d, w) == IF d[w] = None THEN Target(None, None, FALSE) ELSE d[w]

\* Where a window's target starts from: the rules' Space is rebuilt every time.
Before(d, w) == IF d[w] = None THEN Target(None, None, FALSE) ELSE [d[w] EXCEPT !.space = None]

\* What the rules make of a window: its target, and whether it is to be placed.
Ruled(c, w, o, t) ==
  IF Ignored(c, w, o) THEN t
  ELSE LET s == TargetWorkspace(c, w, o) IN IF s = None THEN t ELSE [t EXCEPT !.space = s]

EffectiveSpace(t, o) == IF t.space # None THEN t.space ELSE o.space

Tiled(c, w, o, t) == ~Ignored(c, w, o) /\ ~Floats(c, w, o, t.floating)

\* Mutant of Untiled: a window that leaves the layout keeps its frame.
UntiledKept(t) == t

\* A window the layout leaves alone has no frame to go to.
Untiled(t) == [t EXCEPT !.frame = None]

\* The windows of a Space that its layout places, in some order.
Members(c, off, o, ruled, order, s) ==
  SelectSeq(order, LAMBDA w :
    /\ o[w] # None /\ Tiled(c, w, o[w], ruled[w])
    /\ EffectiveSpace(ruled[w], o[w]) = s /\ Usable(c, off, s) # None)

ApplyLayout(c, off, o, d, order, answer) ==
  LET ruled == [w \in Windows |-> IF o[w] = None THEN None
                                  ELSE Ruled(c, w, o[w], Before(d, w))]
      placed == [s \in Spaces |->
                   LET ws == Members(c, off, o, ruled, order, s)
                   IN  IF ws = <<>> THEN NoFrames ELSE Placed(c, off, s, ws, answer)]
  IN  [w \in Windows |->
         IF o[w] = None THEN None
         ELSE LET s == EffectiveSpace(ruled[w], o[w])
              IN  IF ~Tiled(c, w, o[w], ruled[w]) \/ Usable(c, off, s) = None
                  THEN Untiled(ruled[w])
                  ELSE IF w \in DOMAIN placed[s] THEN [ruled[w] EXCEPT !.frame = placed[s][w]]
                  ELSE ruled[w]]

---------------------------------------------------------------------------
(* The reconciler, and the batch it makes. *)

Act(what, w, to) == [what |-> what, window |-> w, to |-> to]

\* reconcile: by window, the Space before the frame.
WindowActions(w, o, t) ==
  (IF t.space \in {None, o.space} THEN <<>> ELSE <<Act("move", w, t.space)>>)
    \o (IF t.frame \in {None, o.frame} THEN <<>> ELSE <<Act("frame", w, t.frame)>>)

\* shadow_actions: once for each window that does not have the policy's shadow;
\* a window that is new is taken to have one.
Unshadowed(c, o) ==
  {w \in Windows : o[w] # None /\ shadowed[w] # c.shadow /\ (shadowed[w] # None \/ ~c.shadow)}

Reconcile(c, o, d) ==
  LET lacks == SelectSeq(InOrder, LAMBDA w : w \in Unshadowed(c, o))
  IN  FoldLeft(LAMBDA as, w : IF d[w] = None THEN as ELSE as \o WindowActions(w, o[w], d[w]),
               <<>>, InOrder)
        \o [i \in DOMAIN lacks |-> Act("shadow", lacks[i], c.shadow)]

Plugged == \E s \in Spaces : PluginOf(cfg, s) \in plugins

Turns(from, to) == turn = from /\ turn' = to

\* A complete snapshot, and what it leads to.
Observe ==
  /\ Turns("observe", "act") /\ batch = <<>>
  /\ \E order \in Orders, answer \in IF Plugged THEN Answers ELSE {"error"} :
       desired' = ApplyLayout(cfg, insetsOff, win, desired, order, answer)
  /\ observed' = win
  /\ batch' = Reconcile(cfg, win, desired')
  /\ shadowed' = [w \in Windows |-> IF win[w] = None THEN None ELSE cfg.shadow]
  /\ healing' = IF healing = "due" THEN "now" ELSE "no"
  /\ UNCHANGED <<win, policy, users, faults>>

\* What an action does to its window.
Done(a, o) ==
  CASE a.what = "move"     -> [o EXCEPT !.space = a.to]
    [] a.what = "frame"    -> [o EXCEPT !.frame = a.to]
    [] a.what = "minimize" -> [o EXCEPT !.minimized = a.to]
    [] a.what = "shadow"   -> [o EXCEPT !.shadow = a.to]

Rest ==
  /\ Turns("act", "observe") /\ batch = <<>>
  /\ UNCHANGED <<win, observed, desired, policy, shadowed, batch, healing, users, faults>>

\* execute_tracked; execute_best_effort goes on after a failure.
AfterFailure == IF healing = "now" THEN Tail(batch) ELSE <<>>

\* An action on a window that has gone fails.
Execute ==
  /\ batch # <<>>
  /\ LET a == Head(batch)
     IN  IF win[a.window] = None
         THEN batch' = AfterFailure /\ UNCHANGED win
         ELSE /\ batch' = Tail(batch)
              /\ win' = [win EXCEPT ![a.window] = Done(a, @)]
  /\ UNCHANGED <<observed, desired, policy, shadowed, turn, healing, users, faults>>

ExecuteFails ==
  /\ batch # <<>> /\ faults < MaxFaults /\ faults' = faults + 1
  /\ batch' = AfterFailure
  /\ UNCHANGED <<win, observed, desired, policy, shadowed, turn, healing, users>>

---------------------------------------------------------------------------
(* The user, and the commands. *)

User == users < MaxUser /\ users' = users + 1

\* On the windows: dragged, sent to a Space, renamed, minimized, reclassified.
UserChanges(w) ==
  /\ User /\ win[w] # None
  /\ win' = [win EXCEPT ![w].frame = Loose]
     \/ \E s \in Spaces : win' = [win EXCEPT ![w].space = s]
     \/ \E t \in Titles : win' = [win EXCEPT ![w].title = t]
     \/ win' = [win EXCEPT ![w].minimized = ~@]
     \/ win' = [win EXCEPT ![w].managed = ~@]
  /\ UNCHANGED <<observed, desired, policy, shadowed, turn, batch, healing, faults>>

UserOpensOrCloses(w) ==
  /\ User
  /\ \E s \in Spaces : win' = [win EXCEPT ![w] = IF @ = None THEN Fresh(s) ELSE None]
  /\ UNCHANGED <<observed, desired, policy, shadowed, turn, batch, healing, faults>>

\* A handler runs between two observations, and an observation follows it.
Command == User /\ turn = "observe" /\ batch = <<>>

\* set_window_frame, move_window_to_space: once, and nothing is remembered.
OneShot(w) ==
  /\ Command /\ observed[w] # None
  /\ \/ batch' = <<Act("frame", w, Loose)>>
     \/ \E s \in Spaces : batch' = <<Act("move", w, s)>>
  /\ UNCHANGED <<win, observed, desired, policy, shadowed, turn, healing, faults>>

\* toggle_float: the frame is dropped at once.
ToggleFloat(w) ==
  /\ Command /\ observed[w] # None
  /\ desired' = [desired EXCEPT ![w] =
       LET t == IF @ = None THEN Target(None, None, FALSE) ELSE @
       IN  Target(t.space, IF t.floating THEN t.frame ELSE None, ~t.floating)]
  /\ UNCHANGED <<win, observed, policy, shadowed, turn, batch, healing, faults>>

ToggleInsets ==
  /\ Command /\ insetsOff' = ~insetsOff
  /\ UNCHANGED <<win, observed, desired, config, open, plugins, shadowed, turn, batch, healing, faults>>

\* What shows a scratchpad's window on the focused Space, and hides it.
Show(w, s) ==
  <<Act("minimize", w, FALSE)>>
    \o (IF observed[w].space = s THEN <<>> ELSE <<Act("move", w, s)>>)
    \o <<Act("frame", w, Centered)>>
Hide(w) == <<Act("minimize", w, TRUE)>>

\* toggle_scratchpad acts on one of the pad's windows: the first of a hash map.
ToggleScratchpad(p) ==
  /\ Command
  /\ open' = (open \ {p}) \cup ({p} \ open)
  /\ LET mine == IF p \in DOMAIN cfg.pads
                 THEN {w \in Windows : observed[w] # None /\ InPad(cfg.pads[p], w, observed[w])}
                 ELSE {}
     IN  IF mine = {} THEN UNCHANGED batch
         ELSE \E w \in mine, s \in Spaces :
                batch' = IF p \in open THEN Hide(w) ELSE Show(w, s)
  /\ UNCHANGED <<win, observed, desired, config, insetsOff, plugins, shadowed, turn, healing, faults>>

\* move_window_to_display: to the nearest display on that side, and there to the
\* Space that the display shows, whichever it is.
Middle(f) == [x |-> 2 * f.x + f.w, y |-> 2 * f.y + f.h]
Toward(direction, d, e) ==
  LET from == Middle(FrameOf[d])
      to   == Middle(FrameOf[e])
  IN  CASE direction = "north" -> to.y < from.y
        [] direction = "south" -> to.y > from.y
        [] direction = "east"  -> to.x > from.x
        [] direction = "west"  -> to.x < from.x
Away(d, e) ==
  LET from == Middle(FrameOf[d])
      to   == Middle(FrameOf[e])
  IN  (to.x - from.x) * (to.x - from.x) + (to.y - from.y) * (to.y - from.y)
AdjacentDisplay(d, direction) ==
  LET D == {e \in Displays \ {d} : Toward(direction, d, e)}
  IN  {e \in D : \A f \in D : Away(d, e) <= Away(d, f)}

SendToDisplay(w, direction) ==
  /\ Command /\ observed[w] # None
  /\ \E s \in Spaces :
       /\ DisplayOf[s] \in AdjacentDisplay(DisplayOf[observed[w].space], direction)
       /\ batch' = <<Act("move", w, s)>>
  /\ UNCHANGED <<win, observed, desired, policy, shadowed, turn, healing, faults>>

\* A file that is refused changes nothing; the plugins are loaded anew.
Reload ==
  /\ Command
  /\ \E c \in Configs \ {config} : Valid(ConfigOf[c]) /\ config' = c
  /\ plugins' \in {Registered(files) : files \in Disks}
  /\ healing' = "due"
  /\ UNCHANGED <<win, observed, desired, insetsOff, open, shadowed, turn, batch, faults>>

Next ==
  \/ Observe \/ Rest \/ Execute \/ ExecuteFails
  \/ ToggleInsets \/ Reload
  \/ \E p \in Pads : ToggleScratchpad(p)
  \/ \E w \in Windows : UserChanges(w) \/ UserOpensOrCloses(w) \/ OneShot(w) \/ ToggleFloat(w)
  \/ \E w \in Windows, direction \in {"north", "south", "east", "west"} : SendToDisplay(w, direction)

\* The state loop observes again and again, and executes what it decides.
Fairness ==
  /\ WF_turn(batch = <<>> /\ Turns("observe", "act"))
  /\ WF_turn(batch = <<>> /\ Turns("act", "observe"))
  /\ WF_vars(Execute)

Spec == Init /\ [][Next]_vars /\ Fairness

---------------------------------------------------------------------------
(* Properties. *)

Observing == Turns("observe", "act")

\* The actions of one kind that an observation decides on.
Asked(what) == {a \in ToSet(batch') : a.what = what}

\* A window that floats, that a rule has the engine ignore or that an open
\* scratchpad holds is never asked to take a frame, whatever layout it was in
\* before (layout.rs: "clear any stale frame so reconcile emits nothing for this
\* window").
OnlyTiledMoved ==
  [][Observing => \A a \in Asked("frame") :
       LET w == a.window IN Tiled(cfg, w, observed'[w], desired'[w])]_vars

\* "A rule that stops matching stops pulling the window immediately", and "the
\* rule must not teleport a window to the other monitor" (layout.rs): whatever
\* Space a window is asked to move to is its display's, and the target of a rule
\* that matches it now.
RulesLetGo ==
  [][Observing => \A a \in Asked("move") :
       LET w == a.window
           o == observed'[w]
       IN  /\ DisplayOf[a.to] = DisplayOf[o.space] /\ ~Ignored(cfg, w, o)
           /\ \E r \in ToSet(cfg.rules) : r.target = NameOf[a.to] /\ Matches(r, w, o)]_vars

Apart(f, g) == f.x + f.w <= g.x \/ g.x + g.w <= f.x \/ f.y + f.h <= g.y \/ g.y + g.h <= f.y

Within(f, a) ==
  /\ f.w > 0 /\ f.h > 0
  /\ f.x >= a.x /\ f.y >= a.y /\ f.x + f.w <= a.x + a.w /\ f.y + f.h <= a.y + a.h

\* Each side of a frame is the area's, or a gap away from another frame.
Snug(f, F, a, gap) ==
  /\ f.x = a.x \/ \E g \in F : g.x + g.w + gap = f.x
  /\ f.y = a.y \/ \E g \in F : g.y + g.h + gap = f.y
  /\ f.x + f.w = a.x + a.w \/ \E g \in F : g.x = f.x + f.w + gap
  /\ f.y + f.h = a.y + a.h \/ \E g \in F : g.y = f.y + f.h + gap

\* The windows an observation tiles on a Space.
TiledOn(s) ==
  {w \in Windows : /\ observed'[w] # None /\ Tiled(cfg, w, observed'[w], desired'[w])
                   /\ EffectiveSpace(desired'[w], observed'[w]) = s}

\* Whatever a plugin answers ("invalid output is discarded wholesale and the
\* built-in layout takes over"), the windows of a Space end up on top of one
\* another over the whole area, or side by side in it, a gap apart, none missing
\* and no room left.
Tiles ==
  [][Observing => \A s \in Spaces :
       LET area == Shrunk(Usable(cfg, insetsOff, s), Inset(insetsOff, cfg.padding))
           gap  == Inset(insetsOff, cfg.gap)
           F    == {desired'[w].frame : w \in TiledOn(s)}
       IN  \/ Setting(cfg, s).layout = "float" \/ F \subseteq {area}
           \/ /\ None \notin F /\ Cardinality(F) = Cardinality(TiledOn(s))
              /\ \A f \in F : /\ Within(f, area) /\ Snug(f, F, area, gap)
                              /\ \A g \in F \ {f} : Apart(f, g)]_vars

\* Every window that is to be somewhere is there, and nothing is left to do.
Settled ==
  /\ batch = <<>> /\ observed = win
  /\ \A w \in Windows : win[w] # None => WindowActions(w, win[w], desired[w]) = <<>>

\* Once the user leaves the windows alone and macOS does what it is asked, the
\* engine stops asking: "Non-BSP layouts remain stateless but use deterministic
\* sorted order" (layout.rs), no rule of these configurations sends a window on
\* for ever, and a batch that failed is made again.
Settles == <>[](~Plugged => Settled)

\* As documented, of every layout that is not BSP: what the engine wants of
\* windows that stay as they are does not change.
Deterministic == <>[]Settled
=============================================================================
